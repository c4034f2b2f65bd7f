-------------------------------- MODULE Hash --------------------------------
(***************************************************************************)
(* Hash tables, lib/kernel/hash.c: chained buckets whose number follows    *)
(* the number of elements, and iterators.  Buckets are sequences; what     *)
(* list.c does to them is the subject of Lists.tla.                        *)
(***************************************************************************)
EXTENDS Integers, Sequences, FiniteSets, Bitwise, SequencesExt

CONSTANTS N,                    \* the elements are 1 .. N
          Key, HashOf,          \* what less() compares, and the hash of a key
          MinBuckets,           \* 4 in the code
          BEST_ELEMS_PER_BUCKET \* 2 in the code

Elem == 1 .. N

NIL == 0

VARIABLES buckets, bucket_cnt, elem_cnt,
          iter,      \* the bucket and position of an iterator; bucket -1: none
          seen,      \* the elements that it returned
          destructed \* the elements that the last operation called a destructor for

vars == <<buckets, bucket_cnt, elem_cnt, iter, seen, destructed>>

Init ==
  /\ bucket_cnt = MinBuckets /\ elem_cnt = 0
  /\ buckets = [b \in 0 .. MinBuckets - 1 |-> <<>>]
  /\ iter = [bucket |-> -1, pos |-> 0]
  /\ seen = <<>> /\ destructed = {}

find_bucket(cnt, e) == HashOf[Key[e]] & (cnt - 1)

equal(a, b) == ~(Key[a] < Key[b]) /\ ~(Key[b] < Key[a])

find_elem(bucket, e) ==
  LET same == {i \in DOMAIN bucket : equal(bucket[i], e)}
  IN  IF same = {} THEN NIL ELSE bucket[CHOOSE i \in same : \A j \in same : i <= j]

hash_find(e) == find_elem(buckets[find_bucket(bucket_cnt, e)], e)

turn_off_least_1bit(x) == x & (x - 1)
is_power_of_2(x) == x # 0 /\ turn_off_least_1bit(x) = 0

RECURSIVE PowerBelow(_)
PowerBelow(x) == IF is_power_of_2(x) THEN x ELSE PowerBelow(turn_off_least_1bit(x))

best(cnt) == LET n == cnt \div BEST_ELEMS_PER_BUCKET IN PowerBelow(IF n < MinBuckets THEN MinBuckets ELSE n)

Move(bs, cnt, e) == [bs EXCEPT ![find_bucket(cnt, e)] = <<e>> \o @]

\* The elements of the old buckets, from the first bucket to the last.
RECURSIVE Chain(_, _)
Chain(bs, b) == IF b \notin DOMAIN bs THEN <<>> ELSE bs[b] \o Chain(bs, b + 1)

\* Mutant: the last old bucket is not moved.
MutRehash(bs, cnt) ==
  LET new == best(cnt)
      empty == [b \in 0 .. new - 1 |-> <<>>]
  IN  FoldLeft(LAMBDA acc, e : Move(acc, new, e), empty, Chain([b \in 0 .. bucket_cnt - 2 |-> bs[b]], 0))

\* The buckets after rehash() that gets its memory.
rehash(bs, cnt) ==
  LET new == best(cnt)
      empty == [b \in 0 .. new - 1 |-> <<>>]
  IN  FoldLeft(LAMBDA acc, e : Move(acc, new, e), empty, Chain(bs, 0))

\* rehash() at the end of an operation that left buckets bs with cnt elements;
\* malloc() may fail.  It invalidates the iterator.
Rehash(bs, cnt) ==
  /\ elem_cnt' = cnt
  /\ \/ best(cnt) # bucket_cnt /\ buckets' = rehash(bs, cnt) /\ bucket_cnt' = best(cnt)
     \/ buckets' = bs /\ UNCHANGED bucket_cnt
  /\ iter' = [bucket |-> -1, pos |-> 0] /\ seen' = <<>>
  /\ destructed' = {}

insert_elem(bs, e) == [bs EXCEPT ![find_bucket(bucket_cnt, e)] = <<e>> \o @]
remove_elem(bs, e) == [b \in DOMAIN bs |-> SelectSeq(bs[b], LAMBDA x : x # e)]

Elements == {e \in Elem : \E b \in DOMAIN buckets : \E i \in DOMAIN buckets[b] : buckets[b][i] = e}

hash_insert(e) ==
  /\ e \in Elem \ Elements
  /\ IF hash_find(e) = NIL THEN Rehash(insert_elem(buckets, e), elem_cnt + 1)
     ELSE Rehash(buckets, elem_cnt)

hash_replace(e) ==
  LET old == hash_find(e)
  IN  /\ e \in Elem \ Elements
      /\ IF old # NIL THEN Rehash(insert_elem(remove_elem(buckets, old), e), elem_cnt)
         ELSE Rehash(insert_elem(buckets, e), elem_cnt + 1)

hash_delete(e) ==
  LET found == hash_find(e)
  IN  found # NIL /\ Rehash(remove_elem(buckets, found), elem_cnt - 1)

hash_clear(destructor) ==
  /\ buckets' = [b \in 0 .. bucket_cnt - 1 |-> <<>>] /\ elem_cnt' = 0
  /\ destructed' = IF destructor THEN Elements ELSE {}
  /\ iter' = [bucket |-> -1, pos |-> 0] /\ seen' = <<>>
  /\ UNCHANGED bucket_cnt

hash_first ==
  /\ iter' = [bucket |-> 0, pos |-> 0] /\ seen' = <<>>
  /\ destructed' = {} /\ UNCHANGED <<buckets, bucket_cnt, elem_cnt>>

\* The first position from (b, p) on, past the empty buckets; bucket_cnt at the end.
RECURSIVE Skip(_, _)
Skip(b, p) ==
  IF b < bucket_cnt /\ p > Len(buckets[b]) THEN Skip(b + 1, 1) ELSE [bucket |-> b, pos |-> p]

hash_next ==
  LET i == Skip(iter.bucket, iter.pos + 1)
  IN  /\ iter.bucket \in 0 .. bucket_cnt - 1
      /\ iter' = i
      /\ seen' = IF i.bucket = bucket_cnt THEN seen ELSE Append(seen, buckets[i.bucket][i.pos])
      /\ destructed' = {} /\ UNCHANGED <<buckets, bucket_cnt, elem_cnt>>

Next ==
  \/ \E e \in Elem : hash_insert(e) \/ hash_replace(e) \/ hash_delete(e)
  \/ \E destructor \in BOOLEAN : hash_clear(destructor)
  \/ hash_first \/ hash_next

Spec == Init /\ [][Next]_vars

----------------------------------------------------------------------------
(* Properties *)

\* The number of buckets is a power of two, every element is in a bucket
\* that exists, and the iterator is at a bucket or past the last.
TypeOK ==
  /\ bucket_cnt \in {2^i : i \in 0 .. 9}
  /\ DOMAIN buckets = 0 .. bucket_cnt - 1
  /\ \A b \in DOMAIN buckets : buckets[b] \in Seq(Elem)
  /\ elem_cnt \in 0 .. N
  /\ iter.bucket \in -1 .. bucket_cnt
  /\ destructed \subseteq Elem

\* Whatever operations and rehashes came before, with memory or without, every
\* element is in the bucket where a search looks for it, no two elements are
\* equal, and elem_cnt is the number of elements.
Findable ==
  /\ \A e \in Elements : hash_find(e) = e
  /\ \A a, b \in Elements : equal(a, b) => a = b
  /\ Len(Chain(buckets, 0)) = Cardinality(Elements) /\ elem_cnt = Cardinality(Elements)

Same(e) == {x \in Elements : Key[x] = Key[e]}

\* What each operation does to the set of elements: a rehash changes nothing.
SetOps ==
  \A e \in Elem :
    /\ hash_insert(e) => Elements' = IF Same(e) = {} THEN Elements \cup {e} ELSE Elements
    /\ hash_replace(e) => Elements' = (Elements \ Same(e)) \cup {e}
    /\ hash_delete(e) => Elements' = Elements \ Same(e)
    /\ hash_clear(TRUE) => Elements' = {} /\ destructed' = Elements

\* An iterator returns every element once.
Iterates ==
  /\ \A i, j \in DOMAIN seen : i # j => seen[i] # seen[j]
  /\ iter.bucket = bucket_cnt => {seen[i] : i \in DOMAIN seen} = Elements
=============================================================================
