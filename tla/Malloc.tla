------------------------------- MODULE Malloc -------------------------------
(***************************************************************************)
(* The block allocator, threads/malloc.c: descriptors with free lists and  *)
(* locks, arenas cut from single pages, big blocks of several pages, on a  *)
(* page allocator that PageAlloc.tla describes.  A step is a section under *)
(* a descriptor's lock, or what a thread does outside of one between two   *)
(* calls of lock_acquire().                                                *)
(***************************************************************************)
EXTENDS Integers, Sequences, FiniteSets, FiniteSetsExt

CONSTANTS Thread,
          Page,         \* the pages of the kernel pool, consecutive numbers
          PGSIZE,
          ARENA,        \* sizeof (struct arena)
          MinBlock,     \* 16 in the code
          SIZE_MAX,     \* the largest size_t
          Sizes,        \* bound: the sizes that callers ask for
          Factors,      \* bound: the arguments of calloc()
          NULL

\* malloc_init(): a descriptor is named by its block_size.
desc == {MinBlock * 2^i : i \in 0 .. 9} \cap 1 .. (PGSIZE - 1) \div 2

blocks_per_arena(d) == (PGSIZE - ARENA) \div d

Junk == [desc |-> 0, free_cnt |-> 0]      \* no ARENA_MAGIC; palloc filled it with 0xcc

NoBlock == [pg |-> 0, ofs |-> 0, cap |-> 0, size |-> 0]

VARIABLES arena,      \* the header of a page: desc (0 for a big block) and free_cnt
          avail,      \* the pages that the page allocator has
          free_list,  \* of each descriptor
          lock,       \* the holder of each descriptor's lock, or NULL
          live,       \* the blocks that callers have
          pc,
          req,        \* the bytes that a thread needs, and those it computed
          blk,        \* the block that it frees
          d           \* the descriptor that it uses

vars == <<arena, avail, free_list, lock, live, pc, req, blk, d>>

\* A block of cap bytes at ofs of page pg; its caller asked for size bytes.
Block == [pg : Page, ofs : 0 .. PGSIZE, cap : Nat, size : Nat]

\* The arenas, the free lists and the requests in progress stay in range.
TypeOK ==
  /\ arena \in [Page -> [desc : desc \cup {0}, free_cnt : Nat]]
  /\ avail \subseteq Page
  /\ \A e \in desc : \A i \in DOMAIN free_list[e] : free_list[e][i] \in Page \X (0 .. PGSIZE - 1)
  /\ lock \in [desc -> Thread \cup {NULL}]
  /\ live \subseteq Block
  /\ pc \in [Thread -> {"run", "acquire", "refill", "take", "big", "copy", "free", "put", "panic"}]
  /\ req \in [Thread -> [want : Nat, size : 0 .. SIZE_MAX]]
  /\ blk \in [Thread -> Block \cup {NoBlock}]
  /\ d \in [Thread -> desc \cup {0}]

Init ==
  /\ arena = [p \in Page |-> Junk] /\ avail = Page
  /\ free_list = [e \in desc |-> <<>>]
  /\ lock = [e \in desc |-> NULL]
  /\ live = {}
  /\ pc = [t \in Thread |-> "run"]
  /\ req = [t \in Thread |-> [want |-> 0, size |-> 0]]
  /\ blk = [t \in Thread |-> NoBlock]
  /\ d = [t \in Thread |-> 0]

Goto(t, l) == pc' = [pc EXCEPT ![t] = l]

Group(p, n) == p .. p + n - 1

Wrap(n) == n % (SIZE_MAX + 1)

DIV_ROUND_UP(x, step) == Wrap(x + step - 1) \div step

\* The blocks of an arena, in the order of arena_to_block().
arena_to_block(p, e) == [i \in 1 .. blocks_per_arena(e) |-> <<p, ARENA + (i - 1) * e>>]

----------------------------------------------------------------------------
(* malloc, calloc, realloc *)

\* A request for 0 bytes returns NULL and changes nothing.  old is NoBlock
\* unless the request is realloc()'s.
Enter(t, want, size, old) ==
  LET fits == {e \in desc : e >= size}
  IN  /\ pc[t] = "run" /\ size # 0
      /\ req' = [req EXCEPT ![t] = [want |-> want, size |-> size]]
      /\ blk' = [blk EXCEPT ![t] = old]
      /\ live' = live \ {old}
      /\ d' = [d EXCEPT ![t] = IF fits = {} THEN 0 ELSE Min(fits)]
      /\ Goto(t, IF fits = {} THEN "big" ELSE "acquire")
      /\ UNCHANGED <<arena, avail, free_list, lock>>

malloc(t, size) == Enter(t, size, size, NoBlock)

calloc(t, a, b) ==
  LET size == Wrap(a * b)
  IN  ~(size < a \/ size < b) /\ Enter(t, a * b, size, NoBlock)

realloc(t, old, size) == old \in live /\ Enter(t, size, size, old)

\* A request ends with block b, or with NULL when b is NoBlock: realloc() goes
\* on with a new block, or leaves the old one to its caller.
Got(t, b) ==
  /\ IF b # NoBlock /\ blk[t] # NoBlock
     THEN Goto(t, "copy") /\ UNCHANGED blk
     ELSE Goto(t, "run") /\ blk' = [blk EXCEPT ![t] = NoBlock]
  /\ live' = live \cup ({b, IF b = NoBlock THEN blk[t] ELSE NoBlock} \ {NoBlock})
  /\ req' = [req EXCEPT ![t] = [want |-> 0, size |-> 0]]

\* Too big for a descriptor: pages of its own.
Big(t) ==
  LET n == DIV_ROUND_UP(Wrap(req[t].size + ARENA), PGSIZE)
      found == {p \in Page : Group(p, n) \subseteq avail}
  IN  /\ pc[t] = "big"
      /\ IF n = 0 \/ found = {}
         THEN Got(t, NoBlock) /\ UNCHANGED <<arena, avail>>
         ELSE LET p == Min(found)
              IN  /\ avail' = avail \ Group(p, n)
                  /\ arena' = [arena EXCEPT ![p] = [desc |-> 0, free_cnt |-> n]]
                  /\ Got(t, [pg |-> p, ofs |-> ARENA, cap |-> n * PGSIZE - ARENA, size |-> req[t].want])
      /\ UNCHANGED <<free_list, lock, d>>

Acquire(t) ==
  /\ pc[t] = "acquire" /\ lock[d[t]] = NULL
  /\ lock' = [lock EXCEPT ![d[t]] = t]
  /\ Goto(t, IF free_list[d[t]] = <<>> THEN "refill" ELSE "take")
  /\ UNCHANGED <<arena, avail, free_list, live, req, blk, d>>

\* A new arena for the empty list, or NULL.
Refill(t) ==
  /\ pc[t] = "refill"
  /\ IF avail = {}
     THEN /\ Got(t, NoBlock)
          /\ lock' = [lock EXCEPT ![d[t]] = NULL]
          /\ UNCHANGED <<arena, avail, free_list>>
     ELSE LET p == Min(avail)
          IN  /\ avail' = avail \ {p}
              /\ arena' = [arena EXCEPT ![p] = [desc |-> d[t], free_cnt |-> blocks_per_arena(d[t])]]
              /\ free_list' = [free_list EXCEPT ![d[t]] = @ \o arena_to_block(p, d[t])]
              /\ Goto(t, "take")
              /\ UNCHANGED <<lock, live, req, blk>>
  /\ UNCHANGED d

Take(t) ==
  /\ pc[t] = "take"
  /\ LET b == Head(free_list[d[t]])
     IN  /\ Got(t, [pg |-> b[1], ofs |-> b[2], cap |-> d[t], size |-> req[t].want])
         /\ arena' = [arena EXCEPT ![b[1]].free_cnt = @ - 1]
  /\ free_list' = [free_list EXCEPT ![d[t]] = Tail(@)]
  /\ lock' = [lock EXCEPT ![d[t]] = NULL]
  /\ UNCHANGED <<avail, d>>

----------------------------------------------------------------------------
(* free *)

\* The assertions of block_to_arena().
block_to_arena(b) ==
  /\ b.pg \notin avail
  /\ LET e == arena[b.pg].desc
     IN  IF e # 0 THEN (b.ofs - ARENA) % e = 0 ELSE b.ofs = ARENA

\* free() up to lock_acquire(): it reads the arena's descriptor without the
\* lock.  A big block goes back at once.
BeginFree(t, b) ==
  LET a == arena[b.pg]
      big == Group(b.pg, a.free_cnt)
  IN  /\ IF ~block_to_arena(b) THEN Goto(t, "panic") /\ UNCHANGED <<arena, avail>>
         ELSE IF a.desc # 0 THEN Goto(t, "free") /\ UNCHANGED <<arena, avail>>
         ELSE /\ Goto(t, "run") /\ avail' = avail \cup big
              /\ arena' = [p \in Page |-> IF p \in big THEN Junk ELSE arena[p]]
      /\ blk' = [blk EXCEPT ![t] = IF a.desc = 0 THEN NoBlock ELSE b]
      /\ d' = [d EXCEPT ![t] = a.desc]
      /\ UNCHANGED <<free_list, lock, req>>

free(t, b) ==
  /\ pc[t] = "run" /\ b \in live
  /\ live' = live \ {b}
  /\ BeginFree(t, b)

\* realloc() copies and frees the old block.
Copy(t) ==
  /\ pc[t] = "copy"
  /\ BeginFree(t, blk[t])
  /\ UNCHANGED live

FreeLock(t) ==
  /\ pc[t] = "free" /\ lock[d[t]] = NULL
  /\ lock' = [lock EXCEPT ![d[t]] = t]
  /\ Goto(t, "put")
  /\ UNCHANGED <<arena, avail, free_list, live, req, blk, d>>

\* Mutant: the arena is given back with a block in use.
MutPutEarly(t) ==
  /\ pc[t] = "put"
  /\ LET b == blk[t]
         list == <<<<b.pg, b.ofs>>>> \o free_list[d[t]]
         cnt == arena[b.pg].free_cnt + 1
     IN  IF cnt + 1 >= blocks_per_arena(d[t])
         THEN /\ free_list' = [free_list EXCEPT ![d[t]] = SelectSeq(list, LAMBDA x : x[1] # b.pg)]
              /\ avail' = avail \cup {b.pg}
              /\ arena' = [arena EXCEPT ![b.pg] = Junk]
         ELSE /\ free_list' = [free_list EXCEPT ![d[t]] = list]
              /\ arena' = [arena EXCEPT ![b.pg].free_cnt = cnt]
              /\ UNCHANGED avail
  /\ Goto(t, "run")
  /\ lock' = [lock EXCEPT ![d[t]] = NULL]
  /\ blk' = [blk EXCEPT ![t] = NoBlock]
  /\ UNCHANGED <<live, req, d>>

\* Under the lock: the block goes on the list, and an arena without blocks in
\* use back to the page allocator.
Put(t) ==
  /\ pc[t] = "put"
  /\ LET b == blk[t]
         list == <<<<b.pg, b.ofs>>>> \o free_list[d[t]]
         cnt == arena[b.pg].free_cnt + 1
     IN  IF cnt >= blocks_per_arena(d[t])
         THEN /\ Goto(t, IF cnt = blocks_per_arena(d[t]) THEN "run" ELSE "panic")
              /\ free_list' = [free_list EXCEPT ![d[t]] = SelectSeq(list, LAMBDA x : x[1] # b.pg)]
              /\ avail' = avail \cup {b.pg}
              /\ arena' = [arena EXCEPT ![b.pg] = Junk]
         ELSE /\ Goto(t, "run")
              /\ free_list' = [free_list EXCEPT ![d[t]] = list]
              /\ arena' = [arena EXCEPT ![b.pg].free_cnt = cnt]
              /\ UNCHANGED avail
  /\ lock' = [lock EXCEPT ![d[t]] = NULL]
  /\ blk' = [blk EXCEPT ![t] = NoBlock]
  /\ UNCHANGED <<live, req, d>>

----------------------------------------------------------------------------

Step(t) == Big(t) \/ Acquire(t) \/ Refill(t) \/ Take(t) \/ Copy(t) \/ FreeLock(t) \/ Put(t)

\* realloc (b, 0) is free (b).
Call(t) ==
  \/ \E size \in Sizes : malloc(t, size) \/ \E b \in live : realloc(t, b, size)
  \/ \E m, n \in Factors : calloc(t, m, n)
  \/ \E b \in live : free(t, b)

Next == \E t \in Thread : Step(t) \/ Call(t)

Spec == Init /\ [][Next]_vars

----------------------------------------------------------------------------
(* Properties *)

\* The blocks of callers, and those that realloc() or free() still has.
InUse == live \cup {blk[t] : t \in {u \in Thread : blk[u] # NoBlock}}

\* The first byte of a block and the one after its last, over all pages.
First(b) == b.pg * PGSIZE + b.ofs
Past(b) == First(b) + b.cap

\* Block b has bytes of page p.
OnPage(b, p) == First(b) < (p + 1) * PGSIZE /\ p * PGSIZE < Past(b)

Listed == UNION {{[pg |-> free_list[e][i][1], ofs |-> free_list[e][i][2], cap |-> e, size |-> 0] :
                    i \in DOMAIN free_list[e]} : e \in desc}

\* No byte belongs to two blocks, in use or free, or to a header of an arena
\* or a page that the page allocator has: nobody's writes hit another's data
\* or the lists.
Disjoint ==
  /\ \A b, c \in InUse \cup Listed : b # c => Past(b) <= First(c) \/ Past(c) <= First(b)
  /\ \A b \in InUse \cup Listed :
       /\ b.ofs >= ARENA
       /\ \A p \in avail : ~OnPage(b, p)
  /\ \A e \in desc : Cardinality({free_list[e][i] : i \in DOMAIN free_list[e]}) = Len(free_list[e])

\* free_cnt counts the arena's blocks on the free list, and every block is on
\* the list or in use: none is lost.
Counted ==
  \A p \in Page : arena[p].desc # 0 =>
    /\ arena[p].free_cnt = Cardinality({b \in Listed : b.pg = p})
    /\ arena[p].free_cnt + Cardinality({b \in InUse : b.pg = p}) = blocks_per_arena(arena[p].desc)

\* A page without a block in use is back with the page allocator, unless a
\* thread is just cutting it up.
Reclaimed ==
  \A p \in Page \ avail :
    \/ \E b \in InUse : OnPage(b, p)
    \/ \E t \in Thread : pc[t] = "take" /\ d[t] = arena[p].desc

\* The descriptor that free() read without the lock is still the arena's when
\* it has the lock: the block itself keeps the arena alive.
DescStable == \A t \in Thread : pc[t] \in {"free", "put"} => d[t] = arena[blk[t].pg].desc

\* No assertion of block_to_arena() or free() fails.
NoPanic == \A t \in Thread : pc[t] # "panic"

\* A block has the bytes its caller asked for (malloc.c:87, malloc.c:156).
AtLeastSize == \A b \in InUse : b.cap >= b.size
=============================================================================
