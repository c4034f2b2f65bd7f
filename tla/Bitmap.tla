------------------------------- MODULE Bitmap -------------------------------
(***************************************************************************)
(* Bitmaps, lib/kernel/bitmap.c, on the words that hold the bits, with     *)
(* their copy in a file.  The concurrent use by the page allocator is the  *)
(* subject of Palloc.tla.                                                  *)
(***************************************************************************)
EXTENDS Integers, Sequences, FiniteSets, Bitwise

CONSTANTS ELEM_BITS, bit_cnt

elem_idx(i) == i \div ELEM_BITS

bit_mask(i) == 2^(i % ELEM_BITS)
elem_cnt == (bit_cnt + ELEM_BITS - 1) \div ELEM_BITS
Ones == 2^ELEM_BITS - 1

last_mask == IF bit_cnt % ELEM_BITS # 0 THEN 2^(bit_cnt % ELEM_BITS) - 1 ELSE Ones

BITMAP_ERROR == -1      \* SIZE_MAX

VARIABLES bits,     \* the elements
          file,     \* the elements in the file
          saved,    \* the bits that were set when bitmap_write() ran
          ret       \* the last result of bitmap_scan_and_flip()

vars == <<bits, file, saved, ret>>

Words == [0 .. elem_cnt - 1 -> 0 .. Ones]

\* The elements of the bitmap and of its file are words, and a result is a
\* bit's number or BITMAP_ERROR.
TypeOK == bits \in Words /\ file \in Words /\ saved \subseteq 0 .. bit_cnt - 1 /\ ret \in -1 .. bit_cnt

bitmap_test(w, i) == w[elem_idx(i)] & bit_mask(i) # 0

bitmap_mark(w, i) == [w EXCEPT ![elem_idx(i)] = @ | bit_mask(i)]
bitmap_reset(w, i) == [w EXCEPT ![elem_idx(i)] = @ & (Ones - bit_mask(i))]
bitmap_flip(w, i) == [w EXCEPT ![elem_idx(i)] = @ ^^ bit_mask(i)]
bitmap_set(w, i, value) == IF value THEN bitmap_mark(w, i) ELSE bitmap_reset(w, i)

RECURSIVE bitmap_set_multiple(_, _, _, _)
bitmap_set_multiple(w, start, cnt, value) ==
  IF cnt = 0 THEN w ELSE bitmap_set_multiple(bitmap_set(w, start, value), start + 1, cnt - 1, value)

bitmap_set_all(w, value) == bitmap_set_multiple(w, 0, bit_cnt, value)

bitmap_contains(w, start, cnt, value) == \E i \in start .. start + cnt - 1 : bitmap_test(w, i) = value

\* Mutant: the last start is one too early.
MutScan(w, start, cnt, value) ==
  LET at == {i \in start .. bit_cnt - cnt - 1 : ~bitmap_contains(w, i, cnt, ~value)}
  IN  IF at = {} THEN BITMAP_ERROR ELSE CHOOSE i \in at : \A j \in at : i <= j

\* start .. bit_cnt - cnt is empty when cnt is larger than the bitmap.
bitmap_scan(w, start, cnt, value) ==
  LET at == {i \in start .. bit_cnt - cnt : ~bitmap_contains(w, i, cnt, ~value)}
  IN  IF at = {} THEN BITMAP_ERROR ELSE CHOOSE i \in at : \A j \in at : i <= j

----------------------------------------------------------------------------

Bits(w) == {i \in 0 .. bit_cnt - 1 : bitmap_test(w, i)}

\* bitmap_create() in memory that holds anything: it clears the bits it has,
\* not the rest of the last element.  The file has never been written.
Init ==
  /\ \E garbage \in {[e \in 0 .. elem_cnt - 1 |-> 0], [e \in 0 .. elem_cnt - 1 |-> Ones]} :
       bits = bitmap_set_all(garbage, FALSE)
  /\ file = [e \in 0 .. elem_cnt - 1 |-> 0]
  /\ saved = {} /\ ret = 0

FlipBit(i) == bits' = bitmap_flip(bits, i) /\ UNCHANGED <<file, saved, ret>>
SetBit(i, value) == bits' = bitmap_set(bits, i, value) /\ UNCHANGED <<file, saved, ret>>
SetMultiple(start, cnt, value) ==
  /\ start + cnt <= bit_cnt
  /\ bits' = bitmap_set_multiple(bits, start, cnt, value)
  /\ UNCHANGED <<file, saved, ret>>

bitmap_scan_and_flip(start, cnt, value) ==
  LET idx == bitmap_scan(bits, start, cnt, value)
  IN  /\ ret' = idx
      /\ bits' = IF idx # BITMAP_ERROR THEN bitmap_set_multiple(bits, idx, cnt, ~value) ELSE bits
      /\ UNCHANGED <<file, saved>>

bitmap_write == file' = bits /\ saved' = Bits(bits) /\ UNCHANGED <<bits, ret>>

bitmap_read == bits' = [file EXCEPT ![elem_cnt - 1] = @ & last_mask] /\ UNCHANGED <<file, saved, ret>>

Next ==
  \/ \E i \in 0 .. bit_cnt - 1 : FlipBit(i) \/ \E value \in BOOLEAN : SetBit(i, value)
  \/ \E start \in 0 .. bit_cnt, cnt \in 0 .. bit_cnt + 1, value \in BOOLEAN :
       SetMultiple(start, cnt, value) \/ bitmap_scan_and_flip(start, cnt, value)
  \/ bitmap_write \/ bitmap_read

Spec == Init /\ [][Next]_vars

----------------------------------------------------------------------------
(* Properties *)

Range1(start, cnt) == start .. start + cnt - 1

\* The word-level operations change exactly the bits they name, whichever
\* elements these are in and whatever the unused bits of the last element hold.
BitOps ==
  LET B == Bits(bits)
      Bp == Bits(bits)'
  IN  /\ \A i \in 0 .. bit_cnt - 1 : FlipBit(i) => Bp = (B \ {i}) \cup ({i} \ B)
      /\ \A start \in 0 .. bit_cnt, cnt \in 0 .. bit_cnt, value \in BOOLEAN :
           SetMultiple(start, cnt, value) =>
             Bp = IF value THEN B \cup Range1(start, cnt) ELSE B \ Range1(start, cnt)
      /\ bitmap_read => Bp = saved

Fits(start, cnt, value) ==
  {i \in start .. bit_cnt : i + cnt <= bit_cnt /\ \A j \in Range1(i, cnt) : (j \in Bits(bits)) = value}

\* bitmap_scan_and_flip() takes the first group that fits, the last place of
\* the bitmap included, and fails only when there is none.
ScanFirst ==
  \A start \in 0 .. bit_cnt, cnt \in 1 .. bit_cnt + 1, value \in BOOLEAN :
    bitmap_scan_and_flip(start, cnt, value) =>
      LET fits == Fits(start, cnt, value)
      IN  IF fits = {} THEN ret' = BITMAP_ERROR /\ bits' = bits
          ELSE /\ ret' \in fits /\ \A i \in fits : ret' <= i
               /\ \A i \in 0 .. bit_cnt - 1 :
                    (i \in Bits(bits)') = IF i \in Range1(ret', cnt) THEN ~value ELSE i \in Bits(bits)
=============================================================================
