------------------------------- MODULE Stdlib -------------------------------
(***************************************************************************)
(* sort() and binary_search() of lib/stdlib.c, on arrays of 1 .. cnt.  A   *)
(* behaviour sorts an array, one call of heapify() per step, and then      *)
(* searches it.                                                            *)
(***************************************************************************)
EXTENDS Integers, Sequences, FiniteSets

CONSTANTS MaxCnt,   \* bound: the largest array
          Value     \* the elements, a set of integers

VARIABLES arr, input, i, phase, key, found

vars == <<arr, input, i, phase, key, found>>

cnt == Len(arr)

NIL == 0

do_compare(a, x, y) == a[x] - a[y]

do_swap(a, x, y) == [a EXCEPT ![x] = a[y], ![y] = a[x]]

\* Mutant: the right child is compared with the parent, not the larger.
RECURSIVE MutHeapify(_, _, _)
MutHeapify(a, k, n) ==
  LET left == 2 * k  right == 2 * k + 1
      m1 == IF left <= n /\ do_compare(a, left, k) > 0 THEN left ELSE k
      max == IF right <= n /\ do_compare(a, right, k) > 0 THEN right ELSE m1
  IN  IF max = k THEN a ELSE MutHeapify(do_swap(a, k, max), max, n)

RECURSIVE heapify(_, _, _)
heapify(a, k, n) ==
  LET left == 2 * k  right == 2 * k + 1
      m1 == IF left <= n /\ do_compare(a, left, k) > 0 THEN left ELSE k
      max == IF right <= n /\ do_compare(a, right, m1) > 0 THEN right ELSE m1
  IN  IF max = k THEN a ELSE heapify(do_swap(a, k, max), max, n)

Init ==
  /\ \E n \in 0 .. MaxCnt : input \in [1 .. n -> Value]
  /\ arr = input /\ i = cnt \div 2
  /\ phase = "build" /\ key = 0 /\ found = NIL

Build ==
  /\ phase = "build"
  /\ IF i > 0 THEN arr' = heapify(arr, i, cnt) /\ i' = i - 1 /\ UNCHANGED phase
     ELSE i' = cnt /\ phase' = "sort" /\ UNCHANGED arr
  /\ UNCHANGED <<input, key, found>>

Extract ==
  /\ phase = "sort"
  /\ IF i > 1 THEN arr' = heapify(do_swap(arr, 1, i), 1, i - 1) /\ i' = i - 1 /\ UNCHANGED phase
     ELSE phase' = "sorted" /\ UNCHANGED <<arr, i>>
  /\ UNCHANGED <<input, key, found>>

\* The elements first .. last - 1 are left.
RECURSIVE binary_search(_, _, _, _)
binary_search(a, x, first, last) ==
  LET middle == first + (last - first) \div 2
  IN  IF first >= last THEN NIL
      ELSE IF x < a[middle] THEN binary_search(a, x, first, middle)
      ELSE IF x > a[middle] THEN binary_search(a, x, middle + 1, last)
      ELSE middle

Search(x) ==
  /\ phase = "sorted"
  /\ key' = x /\ found' = binary_search(arr, x, 1, cnt + 1) /\ phase' = "found"
  /\ UNCHANGED <<arr, input, i>>

Next == Build \/ Extract \/ \E x \in Value : Search(x)

Spec == Init /\ [][Next]_vars

----------------------------------------------------------------------------
(* Properties *)

Occurs(a, v) == Cardinality({k \in DOMAIN a : a[k] = v})

\* No step of the sort loses or duplicates an element, or leaves the array.
Permutes ==
  /\ phase \in {"build", "sort", "sorted", "found"} /\ i \in 0 .. cnt
  /\ DOMAIN arr = DOMAIN input /\ \A v \in Value : Occurs(arr, v) = Occurs(input, v)

\* The heap of the elements that are not placed yet, and the sorted rest,
\* which is no smaller than the heap.
HeapAndRest ==
  LET n == IF phase = "build" THEN cnt ELSE i
      low == IF phase = "build" THEN i + 1 ELSE 1
  IN  phase \in {"build", "sort"} =>
        /\ \A k \in low .. n : \A c \in {2 * k, 2 * k + 1} : c <= n => arr[k] >= arr[c]
        /\ \A j, k \in 1 .. cnt : k > n /\ j < k => arr[j] <= arr[k]

\* After sort() the array is in order, and binary_search() finds a key exactly
\* when the array has it.
SortedAndFound ==
  phase \in {"sorted", "found"} =>
    /\ \A j, k \in 1 .. cnt : j < k => arr[j] <= arr[k]
    /\ phase = "found" => IF found = NIL THEN Occurs(arr, key) = 0 ELSE arr[found] = key
=============================================================================
