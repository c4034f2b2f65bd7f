------------------------------ MODULE PageAlloc ------------------------------
(***************************************************************************)
(* What threads/palloc.c promises its callers: groups of contiguous pages  *)
(* are handed out whole and to one caller at a time, from the pool that is *)
(* asked for.                                                              *)
(***************************************************************************)
EXTENDS Integers

CONSTANTS Page,            \* page numbers
          Pool,            \* the kernel and the user pool
          Pages,           \* the pages of a pool
          MaxCnt           \* bound: pages in one request

VARIABLE owned             \* how many callers have a page

Group(pg, cnt) == pg .. pg + cnt - 1

PageAllocInit == owned = [p \in Page |-> 0]

Get(pool, pg, cnt) ==
  /\ Group(pg, cnt) \subseteq {p \in Pages[pool] : owned[p] = 0}
  /\ owned' = [p \in Page |-> IF p \in Group(pg, cnt) THEN 1 ELSE owned[p]]

Free(pg, cnt) ==
  /\ Group(pg, cnt) \subseteq {p \in Page : owned[p] = 1}
  /\ owned' = [p \in Page |-> IF p \in Group(pg, cnt) THEN 0 ELSE owned[p]]

PageAllocNext ==
  \E pg \in Page, cnt \in 1 .. MaxCnt : Free(pg, cnt) \/ \E pool \in Pool : Get(pool, pg, cnt)

PageAllocSpec == PageAllocInit /\ [][PageAllocNext]_owned
=============================================================================
