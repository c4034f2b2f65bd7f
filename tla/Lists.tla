-------------------------------- MODULE Lists --------------------------------
(***************************************************************************)
(* Doubly linked lists, lib/kernel/list.c, on the pointers of their        *)
(* elements.  A heap maps an element to its prev and next; every operation *)
(* of the code is a function from a heap to a heap, and an action applies  *)
(* it to the elements a caller may pass.                                   *)
(***************************************************************************)
EXTENDS Integers, Sequences, SequencesExt

CONSTANTS N,      \* the elements are 1 .. N
          Key     \* what less() compares, by element

Elem == 1 .. N
List == {1, 2}
NIL == 0
list_head(l) == 100 + l
list_tail(l) == 200 + l

VARIABLE heap

Pointer == {NIL} \cup Elem \cup {list_head(l) : l \in List} \cup {list_tail(l) : l \in List}

less(a, b) == Key[a] < Key[b]

is_head(h, e) == h[e].prev = NIL /\ h[e].next # NIL
is_interior(h, e) == h[e].prev # NIL /\ h[e].next # NIL
is_tail(h, e) == h[e].prev # NIL /\ h[e].next = NIL

\* list_init() of both lists; the pointers of the elements are not set.
Init ==
  heap = [e \in Pointer \ {NIL} |->
            IF e \in Elem THEN [prev |-> NIL, next |-> NIL]
            ELSE IF e < 200 THEN [prev |-> NIL, next |-> e + 100]
            ELSE [prev |-> e - 100, next |-> NIL]]

list_begin(h, l) == h[list_head(l)].next
list_end(l) == list_tail(l)
list_empty(h, l) == list_begin(h, l) = list_end(l)

\* The elements from e on, n at most.
RECURSIVE Walk(_, _, _)
Walk(h, e, n) == IF n = 0 \/ e \notin Elem THEN <<>> ELSE <<e>> \o Walk(h, h[e].next, n - 1)

RECURSIVE WalkBack(_, _, _)
WalkBack(h, e, n) == IF n = 0 \/ e \notin Elem THEN <<>> ELSE WalkBack(h, h[e].prev, n - 1) \o <<e>>

seq(h, l) == Walk(h, list_begin(h, l), N + 1)

list_size(h, l) == Len(seq(h, l))

----------------------------------------------------------------------------
(* Operations *)

list_insert(h, before, elem) ==
  [h EXCEPT ![elem] = [prev |-> h[before].prev, next |-> before],
            ![h[before].prev].next = elem,
            ![before].prev = elem]

\* Mutant: LAST is inclusive.
MutSplice(h, before, first, end) ==
  LET last == end
      out == [h EXCEPT ![h[first].prev].next = h[last].next, ![h[last].next].prev = h[first].prev]
  IN  IF first = end \/ end \notin Elem THEN h
      ELSE [out EXCEPT ![first].prev = out[before].prev, ![last].next = before,
                       ![out[before].prev].next = first, ![before].prev = last]

list_splice(h, before, first, end) ==
  LET last == h[end].prev
      out == [h EXCEPT ![h[first].prev].next = h[last].next, ![h[last].next].prev = h[first].prev]
  IN  IF first = end THEN h
      ELSE [out EXCEPT ![first].prev = out[before].prev, ![last].next = before,
                       ![out[before].prev].next = first, ![before].prev = last]

list_remove(h, e) == [h EXCEPT ![h[e].prev].next = h[e].next, ![h[e].next].prev = h[e].prev]

list_push_front(h, l, e) == list_insert(h, list_begin(h, l), e)
list_push_back(h, l, e) == list_insert(h, list_end(l), e)
list_front(h, l) == list_begin(h, l)
list_back(h, l) == h[list_tail(l)].prev

RECURSIVE SwapAll(_, _)
SwapAll(h, e) ==
  IF e \notin Elem THEN h
  ELSE SwapAll([h EXCEPT ![e] = [prev |-> h[e].next, next |-> h[e].prev]], h[e].next)

list_reverse(h, l) ==
  LET hd == list_head(l)  tl == list_tail(l)
      in == SwapAll(h, h[hd].next)
      sw == [in EXCEPT ![hd].next = in[tl].prev, ![tl].prev = in[hd].next]
      first == sw[hd].next  last == sw[tl].prev
  IN  IF list_empty(h, l) THEN h
      ELSE [sw EXCEPT ![first].prev = sw[last].next, ![last].next = sw[first].prev]

RECURSIVE find_end_of_run(_, _, _)
find_end_of_run(h, a, b) ==
  LET n == h[a].next
  IN  IF n # b /\ ~less(n, h[n].prev) THEN find_end_of_run(h, n, b) ELSE n

RECURSIVE inplace_merge(_, _, _, _)
inplace_merge(h, a0, a1b0, b1) ==
  IF a0 = a1b0 \/ a1b0 = b1 THEN h
  ELSE IF ~less(a1b0, a0) THEN inplace_merge(h, h[a0].next, a1b0, b1)
  ELSE inplace_merge(list_splice(h, a0, a1b0, h[a1b0].next), a0, h[a1b0].next, b1)

\* One pass over the list from a0; the heap and the number of runs it output.
RECURSIVE Pass(_, _, _, _)
Pass(h, a0, end, cnt) ==
  IF a0 = end THEN [h |-> h, cnt |-> cnt]
  ELSE LET a1b0 == find_end_of_run(h, a0, end)
           b1 == find_end_of_run(h, a1b0, end)
       IN  IF a1b0 = end THEN [h |-> h, cnt |-> cnt + 1]
           ELSE Pass(inplace_merge(h, a0, a1b0, b1), b1, end, cnt + 1)

RECURSIVE list_sort(_, _)
list_sort(h, l) ==
  LET p == Pass(h, list_begin(h, l), list_end(l), 0)
  IN  IF p.cnt > 1 THEN list_sort(p.h, l) ELSE p.h

\* The first element from e on that elem is less than, or the tail.
RECURSIVE Place(_, _, _)
Place(h, e, elem) == IF e \notin Elem \/ less(elem, e) THEN e ELSE Place(h, h[e].next, elem)

list_insert_ordered(h, l, elem) == list_insert(h, Place(h, list_begin(h, l), elem), elem)

RECURSIVE UniqueFrom(_, _, _)
UniqueFrom(h, e, dup) ==
  LET next == h[e].next
      out == list_remove(h, next)
  IN  IF next \notin Elem THEN h
      ELSE IF ~less(e, next) /\ ~less(next, e)
      THEN UniqueFrom(IF dup = NIL THEN out ELSE list_push_back(out, dup, next), e, dup)
      ELSE UniqueFrom(h, next, dup)

list_unique(h, l, dup) == IF list_empty(h, l) THEN h ELSE UniqueFrom(h, list_begin(h, l), dup)

\* list_max() and list_min() from the element after the best so far.
RECURSIVE MaxFrom(_, _, _)
MaxFrom(h, max, e) ==
  IF e \notin Elem THEN max ELSE MaxFrom(h, IF less(max, e) THEN e ELSE max, h[e].next)

RECURSIVE MinFrom(_, _, _)
MinFrom(h, min, e) ==
  IF e \notin Elem THEN min ELSE MinFrom(h, IF less(e, min) THEN e ELSE min, h[e].next)

list_max(h, l) == IF list_empty(h, l) THEN list_tail(l) ELSE MaxFrom(h, list_begin(h, l), h[list_begin(h, l)].next)
list_min(h, l) == IF list_empty(h, l) THEN list_tail(l) ELSE MinFrom(h, list_begin(h, l), h[list_begin(h, l)].next)

----------------------------------------------------------------------------
(* What callers do *)

In(l) == {seq(heap, l)[i] : i \in 1 .. list_size(heap, l)}
Out == Elem \ UNION {In(l) : l \in List}

is_sorted(s) == \A i \in 1 .. Len(s) - 1 : ~less(s[i + 1], s[i])

Insert(l, before, e) == before \in In(l) \cup {list_tail(l)} /\ e \in Out /\ heap' = list_insert(heap, before, e)
PushFront(l, e) == e \in Out /\ heap' = list_push_front(heap, l, e)
PushBack(l, e) == e \in Out /\ heap' = list_push_back(heap, l, e)
InsertOrdered(l, e) == e \in Out /\ is_sorted(seq(heap, l)) /\ heap' = list_insert_ordered(heap, l, e)
Delete(l, e) == e \in In(l) /\ heap' = list_remove(heap, e)
PopFront(l) == ~list_empty(heap, l) /\ heap' = list_remove(heap, list_front(heap, l))
PopBack(l) == ~list_empty(heap, l) /\ heap' = list_remove(heap, list_back(heap, l))
TurnRound(l) == heap' = list_reverse(heap, l)
Sort(l) == heap' = list_sort(heap, l)
Unique(l, dup) == heap' = list_unique(heap, l, dup)

\* The elements at i .. j - 1 of list k go before element p of list l, which
\* is not one of them.
MaySplice(k, i, j, l, p) ==
  /\ i <= j /\ j <= list_size(heap, k) + 1 /\ p <= list_size(heap, l) + 1
  /\ k = l => p \notin i .. j - 1

Spliced(k, i, j, l, p) ==
  LET s == Append(seq(heap, k), list_tail(k))
      t == Append(seq(heap, l), list_tail(l))
  IN  list_splice(heap, t[p], s[i], s[j])

Splice(k, i, j, l, p) == MaySplice(k, i, j, l, p) /\ heap' = Spliced(k, i, j, l, p)

Next ==
  \E l \in List :
    \/ \E e \in Elem : \/ PushFront(l, e) \/ PushBack(l, e) \/ InsertOrdered(l, e) \/ Delete(l, e)
                       \/ \E b \in Pointer \ {NIL} : Insert(l, b, e)
    \/ PopFront(l) \/ PopBack(l) \/ TurnRound(l) \/ Sort(l)
    \/ \E dup \in {NIL} \cup (List \ {l}) : Unique(l, dup)
    \/ \E k \in List, i, j, p \in 1 .. N + 1 : Splice(k, i, j, l, p)

Spec == Init /\ [][Next]_heap

----------------------------------------------------------------------------
(* Properties *)

\* After any sequence of operations both directions of a list agree, no element
\* is in two lists, and the ends and the elements satisfy the predicates that
\* the code's assertions use.
Linked ==
  /\ heap \in [Pointer \ {NIL} -> [prev : Pointer, next : Pointer]]
  /\ \A l \in List :
       /\ list_size(heap, l) <= N
       /\ seq(heap, l) = WalkBack(heap, list_back(heap, l), N + 1)
       /\ is_head(heap, list_head(l)) /\ is_tail(heap, list_tail(l))
       /\ \A e \in In(l) : is_interior(heap, e)
  /\ In(1) \cap In(2) = {}

Before(s, n) == SubSeq(s, 1, n - 1)
From(s, n) == SubSeq(s, n, Len(s))

\* Insertion, removal and splicing move exactly the elements they name and
\* keep the order of all others, in both lists.
Moves ==
  \A l \in List :
    /\ \A e \in Out : /\ seq(list_push_front(heap, l, e), l) = <<e>> \o seq(heap, l)
                      /\ seq(list_push_back(heap, l, e), l) = Append(seq(heap, l), e)
    /\ \A e \in In(l), k \in List :
         seq(list_remove(heap, e), k) = SelectSeq(seq(heap, k), LAMBDA x : x # e)
    /\ \A k \in List, i, j, p \in 1 .. N + 1 : MaySplice(k, i, j, l, p) =>
         LET s == seq(heap, k)
             h == Spliced(k, i, j, l, p)
             mid == SubSeq(s, i, j - 1)
             others(x) == x \notin {mid[n] : n \in DOMAIN mid}
         IN  /\ seq(h, l) = SelectSeq(Before(seq(heap, l), p), others)
                              \o mid \o SelectSeq(From(seq(heap, l), p), others)
             /\ k # l => seq(h, k) = Before(s, i) \o From(s, j)

InOrder(s, e) == SelectSeq(s, LAMBDA x : ~less(e, x)) \o <<e>> \o SelectSeq(s, LAMBDA x : less(e, x))

\* list_sort() is a stable sort of its list, list_insert_ordered() keeps a
\* sorted list sorted with the new element after its equals.
Sorts ==
  \A l \in List :
    LET s == seq(heap, l)
        h == list_sort(heap, l)
    IN  /\ seq(h, l) = FoldLeft(InOrder, <<>>, s)
        /\ seq(h, 3 - l) = seq(heap, 3 - l)
        /\ is_sorted(s) => \A e \in Out : seq(list_insert_ordered(heap, l, e), l) = InOrder(s, e)

Firsts(s) == {i \in DOMAIN s : i = 1 \/ Key[s[i]] # Key[s[i - 1]]}

Pick(s, I) == [n \in 1 .. Len(s) |-> IF n \in I THEN s[n] ELSE NIL]

\* list_unique() keeps the first of each group of equal neighbours and appends
\* the rest to the other list, if one is given; list_reverse() reverses.
Filters ==
  \A l \in List :
    LET s == seq(heap, l)
        kept == SelectSeq(Pick(s, Firsts(s)), LAMBDA x : x # NIL)
        rest == SelectSeq(Pick(s, DOMAIN s \ Firsts(s)), LAMBDA x : x # NIL)
    IN  /\ \A dup \in {NIL} \cup (List \ {l}) :
             LET h == list_unique(heap, l, dup)
             IN  /\ seq(h, l) = kept
                 /\ seq(h, 3 - l) = seq(heap, 3 - l) \o (IF dup = NIL THEN <<>> ELSE rest)
        /\ seq(list_reverse(heap, l), l) = Reverse(s)

\* list_max() and list_min() return the first of the largest and the smallest
\* elements, the tail of an empty list.
Extremes ==
  \A l \in List :
    LET s == seq(heap, l)
        first(P(_)) == s[CHOOSE i \in DOMAIN s : P(s[i]) /\ \A j \in 1 .. i - 1 : ~P(s[j])]
    IN  IF s = <<>> THEN list_max(heap, l) = list_tail(l) /\ list_min(heap, l) = list_tail(l)
        ELSE /\ list_max(heap, l) = first(LAMBDA e : \A i \in DOMAIN s : ~less(e, s[i]))
             /\ list_min(heap, l) = first(LAMBDA e : \A i \in DOMAIN s : ~less(s[i], e))
=============================================================================
