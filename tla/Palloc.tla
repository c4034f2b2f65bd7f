------------------------------- MODULE Palloc -------------------------------
(***************************************************************************)
(* The page allocator, threads/palloc.c, on the bitmaps of                 *)
(* lib/kernel/bitmap.c.  palloc_get_multiple() scans and marks a bitmap    *)
(* under the lock of its pool, one bit at a time; palloc_free_multiple()   *)
(* clears bits without the lock, because the scheduler calls it.  A step   *)
(* here is one access to a bit, or a memset().                             *)
(***************************************************************************)
EXTENDS Integers

CONSTANTS Thread,
          free_pages,        \* pages of RAM above 1 MB
          user_page_limit,   \* at most this many of them in the user pool
          MaxCnt,            \* bound: pages in one request
          NULL

ASSUME PallocAssumption ==
  /\ free_pages \in Nat /\ user_page_limit \in Nat /\ MaxCnt \in Nat
  /\ NULL \notin Thread

PGSIZE == 4096

DIV_ROUND_UP(x, step) == (x + step - 1) \div step

\* elem_type has 32 bits; struct bitmap has 8 bytes.
bitmap_buf_size(bit_cnt) == 8 + 4 * DIV_ROUND_UP(bit_cnt, 32)

Pool == {"kernel", "user"}

\* palloc_init(): pages are numbered from free_start.
user_pages == IF free_pages \div 2 > user_page_limit THEN user_page_limit ELSE free_pages \div 2

page_cnt(pool) == IF pool = "user" THEN user_pages ELSE free_pages - user_pages

\* init_pool(): the bitmap takes the first pages of the pool.
bm_pages(pool) == DIV_ROUND_UP(bitmap_buf_size(page_cnt(pool)), PGSIZE)

base(pool) == bm_pages(pool) + (IF pool = "user" THEN free_pages - user_pages ELSE 0)

bit_cnt(pool) == page_cnt(pool) - bm_pages(pool)

Page == 0 .. free_pages - 1

page_from_pool(pool, p) == p >= base(pool) /\ p < base(pool) + bit_cnt(pool)

Pages == [pool \in Pool |-> {p \in Page : page_from_pool(pool, p)}]

Idle == [pool |-> "kernel", cnt |-> 0, zero |-> FALSE]

VARIABLES used,      \* the pages whose bit is set
          lock,      \* the holder of each pool's lock, or NULL
          pc,
          req,       \* the request or the free of a thread
          pg,        \* page it has reached: the candidate group, or the group found
          k,         \* index in the group
          owned,     \* how many callers of the allocator have a page
          content,   \* what is in a page: zeros, 0xcc or its owner's data
          expect     \* what its owner relies on

vars == <<used, lock, pc, req, pg, k, owned, content, expect>>

Request == [pool : Pool, cnt : 0 .. MaxCnt, zero : BOOLEAN]

\* The bitmap, the locks and the requests in progress stay in range.
TypeOK ==
  /\ used \subseteq Page /\ owned \in [Page -> Nat]
  /\ lock \in [Pool -> Thread \cup {NULL}]
  /\ pc \in [Thread -> {"idle", "acquire", "scan", "flip", "release", "return",
                        "assert", "clear", "failed", "panic"}]
  /\ req \in [Thread -> Request]
  /\ pg \in [Thread -> 0 .. free_pages]
  /\ k \in [Thread -> 0 .. MaxCnt]
  /\ content \in [Page -> {"zero", "0xcc", "data"}]
  /\ expect \in [Page -> {"any", "zero", "data"}]

Init ==
  /\ used = {} /\ owned = [p \in Page |-> 0]
  /\ lock = [pool \in Pool |-> NULL]
  /\ pc = [t \in Thread |-> "idle"]
  /\ req = [t \in Thread |-> Idle]
  /\ pg = [t \in Thread |-> 0]
  /\ k = [t \in Thread |-> 0]
  /\ content = [p \in Page |-> "0xcc"]
  /\ expect = [p \in Page |-> "any"]

Group(p, cnt) == p .. p + cnt - 1

Owned == {p \in Page : owned[p] > 0}

Goto(t, l) == pc' = [pc EXCEPT ![t] = l]

\* The last first page of a group of cnt pages.
last(r) == base(r.pool) + bit_cnt(r.pool) - r.cnt

----------------------------------------------------------------------------
(* palloc_get_multiple *)

\* A request for no page returns NULL at once: it changes nothing.
palloc_get_multiple(t, pool, cnt, zero) ==
  /\ pc[t] = "idle"
  /\ req' = [req EXCEPT ![t] = [pool |-> pool, cnt |-> cnt, zero |-> zero]]
  /\ Goto(t, "acquire")
  /\ UNCHANGED <<used, lock, pg, k, owned, content, expect>>

\* Mutant: no lock is taken.
MutAcquire(t) ==
  /\ pc[t] = "acquire"
  /\ k' = [k EXCEPT ![t] = 0]
  /\ IF req[t].cnt <= bit_cnt(req[t].pool)
     THEN pg' = [pg EXCEPT ![t] = base(req[t].pool)] /\ Goto(t, "scan")
     ELSE pg' = [pg EXCEPT ![t] = free_pages] /\ Goto(t, "release")
  /\ UNCHANGED <<used, lock, req, owned, content, expect>>

\* lock_acquire() and the start of bitmap_scan(): a group larger than the
\* bitmap is not looked for.
Acquire(t) ==
  /\ pc[t] = "acquire" /\ lock[req[t].pool] = NULL
  /\ lock' = [lock EXCEPT ![req[t].pool] = t]
  /\ k' = [k EXCEPT ![t] = 0]
  /\ IF req[t].cnt <= bit_cnt(req[t].pool)
     THEN pg' = [pg EXCEPT ![t] = base(req[t].pool)] /\ Goto(t, "scan")
     ELSE pg' = [pg EXCEPT ![t] = free_pages] /\ Goto(t, "release")
  /\ UNCHANGED <<used, req, owned, content, expect>>

\* bitmap_contains() tests one bit; a set bit makes bitmap_scan() try the next
\* group, or give up (free_pages stands for BITMAP_ERROR).
bitmap_scan(t) ==
  /\ pc[t] = "scan"
  /\ IF pg[t] + k[t] \in used
     THEN /\ k' = [k EXCEPT ![t] = 0]
          /\ IF pg[t] < last(req[t])
             THEN pg' = [pg EXCEPT ![t] = @ + 1] /\ UNCHANGED pc
             ELSE pg' = [pg EXCEPT ![t] = free_pages] /\ Goto(t, "release")
     ELSE /\ IF k[t] + 1 < req[t].cnt
             THEN k' = [k EXCEPT ![t] = @ + 1] /\ UNCHANGED pc
             ELSE k' = [k EXCEPT ![t] = 0] /\ Goto(t, "flip")
          /\ UNCHANGED pg
  /\ UNCHANGED <<used, lock, req, owned, content, expect>>

\* Mutant: the last page of the group stays free.
MutFlip(t) ==
  /\ pc[t] = "flip"
  /\ used' = IF k[t] + 1 < req[t].cnt \/ k[t] = 0 THEN used \cup {pg[t] + k[t]} ELSE used
  /\ IF k[t] + 1 < req[t].cnt
     THEN k' = [k EXCEPT ![t] = @ + 1] /\ UNCHANGED pc
     ELSE k' = [k EXCEPT ![t] = 0] /\ Goto(t, "release")
  /\ UNCHANGED <<lock, req, pg, owned, content, expect>>

\* bitmap_set_multiple() marks one bit.
bitmap_mark(t) ==
  /\ pc[t] = "flip"
  /\ used' = used \cup {pg[t] + k[t]}
  /\ IF k[t] + 1 < req[t].cnt
     THEN k' = [k EXCEPT ![t] = @ + 1] /\ UNCHANGED pc
     ELSE k' = [k EXCEPT ![t] = 0] /\ Goto(t, "release")
  /\ UNCHANGED <<lock, req, pg, owned, content, expect>>

\* lock_release()
Release(t) ==
  /\ pc[t] = "release"
  /\ lock' = [lock EXCEPT ![req[t].pool] = NULL]
  /\ Goto(t, "return")
  /\ UNCHANGED <<used, req, pg, k, owned, content, expect>>

\* memset() under PAL_ZERO, and the return of the group; without one, NULL, or
\* a panic under PAL_ASSERT.
Return(t) ==
  /\ pc[t] = "return"
  /\ IF pg[t] # free_pages
     THEN LET g == Group(pg[t], req[t].cnt)
          IN  /\ owned' = [p \in Page |-> IF p \in g THEN owned[p] + 1 ELSE owned[p]]
              /\ content' = [p \in Page |-> IF p \in g /\ req[t].zero THEN "zero" ELSE content[p]]
              /\ expect' = [p \in Page |-> IF p \notin g THEN expect[p]
                                           ELSE IF req[t].zero THEN "zero" ELSE "any"]
              /\ Goto(t, "idle")
     ELSE /\ Goto(t, "idle") \/ Goto(t, "panic")
          /\ UNCHANGED <<owned, content, expect>>
  /\ req' = [req EXCEPT ![t] = Idle]
  /\ pg' = [pg EXCEPT ![t] = 0]
  /\ UNCHANGED <<used, lock, k>>

----------------------------------------------------------------------------
(* palloc_free_multiple *)

\* The pool is found from the page's address, and the pages are filled with
\* 0xcc.  Any thread may free pages: the scheduler frees those of the thread
\* that ran before.
palloc_free_multiple(t, p, cnt) ==
  /\ pc[t] = "idle" /\ Group(p, cnt) \subseteq Owned
  /\ owned' = [q \in Page |-> IF q \in Group(p, cnt) THEN owned[q] - 1 ELSE owned[q]]
  /\ \E pool \in Pool :
       /\ IF page_from_pool("kernel", p) THEN pool = "kernel" ELSE pool = "user"
       /\ req' = [req EXCEPT ![t] = [pool |-> pool, cnt |-> cnt, zero |-> FALSE]]
       /\ Goto(t, IF page_from_pool(pool, p) THEN "assert" ELSE "failed")
  /\ pg' = [pg EXCEPT ![t] = p]
  /\ content' = [q \in Page |-> IF q \in Group(p, cnt) THEN "0xcc" ELSE content[q]]
  /\ expect' = [q \in Page |-> IF q \in Group(p, cnt) THEN "any" ELSE expect[q]]
  /\ UNCHANGED <<used, lock, k>>

\* ASSERT (bitmap_all (...)), one bit at a time.
bitmap_all(t) ==
  /\ pc[t] = "assert"
  /\ IF pg[t] + k[t] \in used
     THEN IF k[t] + 1 < req[t].cnt
          THEN k' = [k EXCEPT ![t] = @ + 1] /\ UNCHANGED pc
          ELSE k' = [k EXCEPT ![t] = 0] /\ Goto(t, "clear")
     ELSE Goto(t, "failed") /\ UNCHANGED k
  /\ UNCHANGED <<used, lock, req, pg, owned, content, expect>>

\* bitmap_set_multiple() resets one bit.
bitmap_reset(t) ==
  /\ pc[t] = "clear"
  /\ used' = used \ {pg[t] + k[t]}
  /\ IF k[t] + 1 < req[t].cnt
     THEN k' = [k EXCEPT ![t] = @ + 1] /\ UNCHANGED <<pc, pg, req>>
     ELSE /\ k' = [k EXCEPT ![t] = 0] /\ Goto(t, "idle")
          /\ pg' = [pg EXCEPT ![t] = 0]
          /\ req' = [req EXCEPT ![t] = Idle]
  /\ UNCHANGED <<lock, owned, content, expect>>

\* The owner writes to a page (environment).
Write(p) ==
  /\ p \in Owned
  /\ content' = [content EXCEPT ![p] = "data"]
  /\ expect' = [expect EXCEPT ![p] = "data"]
  /\ UNCHANGED <<used, lock, pc, req, pg, k, owned>>

----------------------------------------------------------------------------

Step(t) ==
  \/ Acquire(t) \/ bitmap_scan(t) \/ bitmap_mark(t) \/ Release(t) \/ Return(t)
  \/ bitmap_all(t) \/ bitmap_reset(t)

Call(t) ==
  \E cnt \in 1 .. MaxCnt :
    \/ \E pool \in Pool, zero \in BOOLEAN : palloc_get_multiple(t, pool, cnt, zero)
    \/ \E p \in Page : palloc_free_multiple(t, p, cnt)

\* A failed PAL_ASSERT panics, for good.
Halted == (\E t \in Thread : pc[t] = "panic") /\ UNCHANGED vars

Next == \/ \E t \in Thread : Step(t) \/ Call(t)
        \/ \E p \in Page : Write(p)
        \/ Halted

Spec == Init /\ [][Next]_vars

----------------------------------------------------------------------------
(* Properties *)

\* The pages that t is about to own, or has just given up.
Claims(t, p) ==
  \/ /\ pc[t] \in {"flip", "release", "return", "assert"} /\ pg[t] # free_pages
     /\ p \in Group(pg[t], req[t].cnt)
  \/ pc[t] = "clear" /\ p \in Group(pg[t] + k[t], req[t].cnt - k[t])

\* Those of them whose bit is set.
Marks(t, p) == Claims(t, p) /\ (pc[t] = "flip" => p < pg[t] + k[t])

\* No page is handed out twice, although bits are cleared while another thread
\* scans: what one thread is taking or giving back nobody else has.
Exclusive ==
  /\ \A p \in Page : owned[p] <= 1
  /\ \A t \in Thread, p \in Page :
       Claims(t, p) => p \notin Owned /\ \A u \in Thread \ {t} : ~Claims(u, p)

\* The bitmap marks what is owned, taken or given back and nothing else: no
\* page is leaked.
Marked == \A p \in Page : p \in used <=> p \in Owned \/ \E t \in Thread : Marks(t, p)

\* Zeroed pages are zero when palloc_get_multiple() returns them, and what the
\* owner writes stays: the 0xcc of another thread's free never hits it.
Intact == \A p \in Owned : expect[p] \in {"any", content[p]}

\* Freeing owned pages neither reaches NOT_REACHED () nor fails
\* ASSERT (bitmap_all (...)).
FreeSucceeds == \A t \in Thread : pc[t] # "failed"

\* Pages are handed out whole, to one caller, and come back.
PagesSound == TypeOK /\ Exclusive /\ Marked /\ FreeSucceeds /\ Intact

PA == INSTANCE PageAlloc

\* The allocator implements the atomic one.
ImplementsPageAlloc == PA!PageAllocSpec

----------------------------------------------------------------------------
(* The inductive invariant. *)

\* The group lies in the pool.
Found(t) == base(req[t].pool) <= pg[t] /\ pg[t] <= last(req[t])

\* Only the holder of a pool's lock scans and marks.
LockHeld == \A t \in Thread : pc[t] \in {"scan", "flip", "release"} => lock[req[t].pool] = t

\* How far a thread has come.
Reached(t) ==
  /\ pc[t] \in {"idle", "acquire", "release", "return"} => k[t] = 0
  /\ pc[t] \notin {"idle", "panic"} => req[t].cnt >= 1
  /\ pc[t] \in {"scan", "flip"} => Found(t)
  /\ pc[t] \in {"release", "return"} => pg[t] = free_pages \/ Found(t)
  /\ pc[t] \in {"assert", "clear"} => Group(pg[t], req[t].cnt) \subseteq Page
  /\ pc[t] \in {"scan", "flip", "assert", "clear"} => k[t] < req[t].cnt

Progress == \A t \in Thread : Reached(t)

\* The bits that a scan has seen reset are still so: others only reset bits.
Scanned == \A t \in Thread : pc[t] = "scan" => Group(pg[t], k[t]) \cap used = {}

\* Callers own pages of the pools only.
OwnedInPools == \A p \in Owned : \E pool \in Pool : page_from_pool(pool, p)

IInv == PagesSound /\ LockHeld /\ Progress /\ Scanned /\ OwnedInPools
=============================================================================
