-------------------------------- MODULE Arith --------------------------------
(***************************************************************************)
(* 64-bit division from 32-bit division, lib/arithmetic.c, with W for 32:  *)
(* a word is 0 .. 2^W - 1 and a double word 0 .. 2^(2W) - 1.  A behaviour  *)
(* divides one number by another.                                          *)
(***************************************************************************)
EXTENDS Integers

CONSTANT W      \* 32 in the code; a power of 2

Word == 2^W
Double == 2^(2 * W)

Trap == -1

VARIABLES n, d,       \* the operands, as unsigned double words
          q, r, sq, sr, done

vars == <<n, d, q, r, sq, sr, done>>

\* DIVL, with the divide error that it raises when the quotient is no word.
divl(x, y) == IF y = 0 \/ x \div y >= Word THEN Trap ELSE x \div y

\* The leading zeros of x # 0: halves, quarters... of the width.
RECURSIVE nlz_step(_, _)
nlz_step(x, half) ==
  LET low == x < 2^(W - half)
      y == IF low THEN (x * 2^half) % Word ELSE x
  IN  (IF low THEN half ELSE 0) + (IF half = 1 THEN 0 ELSE nlz_step(y, half \div 2))

nlz(x) == nlz_step(x, W \div 2)

\* A divisor of one word, or an estimate of the quotient that is at most one
\* too large.
udiv64(a, b) ==
  IF b \div Word = 0
  THEN LET a1 == a \div Word  a0 == a % Word
           low == divl(Word * (a1 % b) + a0, b)
       IN  IF low = Trap THEN Trap ELSE (low + Word * (a1 \div b)) % Double
  ELSE IF a < b THEN 0
  ELSE LET s == nlz(b \div Word)
           t == divl(a \div 2, ((b * 2^s) % Double) \div Word)
           quot == t \div 2^(W - 1 - s)
       IN  IF t = Trap THEN Trap
           ELSE IF (a - (quot - 1) * b) % Double < b THEN (quot - 1) % Double ELSE quot

\* The results have the type uint32_t and int32_t.
umod64(a, b) == (a - b * udiv64(a, b)) % Word

\* Two's complement: the signed value of an unsigned number of m values.
Signed(x, m) == IF x < m \div 2 THEN x ELSE x - m

Negate(x) == (Double - x) % Double

sdiv64(a, b) ==
  LET neg(x) == Signed(x, Double) < 0
      abs(x) == IF neg(x) THEN Negate(x) ELSE x
      quot == udiv64(abs(a), abs(b))
  IN  IF quot = Trap THEN Trap ELSE IF neg(a) = neg(b) THEN quot ELSE Negate(quot)

smod64(a, b) == (a - b * sdiv64(a, b)) % Word

Init ==
  /\ n \in 0 .. Double - 1 /\ d \in 1 .. Double - 1
  /\ q = 0 /\ r = 0 /\ sq = 0 /\ sr = 0 /\ done = FALSE

\* __udivdi3(), __umoddi3(), __divdi3() and __moddi3().
Divide ==
  /\ ~done /\ done' = TRUE
  /\ q' = udiv64(n, d) /\ r' = umod64(n, d)
  /\ sq' = Signed(sdiv64(n, d), Double) /\ sr' = Signed(smod64(n, d), Word)
  /\ UNCHANGED <<n, d>>

Next == Divide

Spec == Init /\ [][Next]_vars

----------------------------------------------------------------------------
(* Properties *)

\* The operands, the quotients and the remainders are words of their
\* widths.
TypeOK == {n, d, q} \subseteq 0 .. Double - 1 /\ r \in 0 .. Word - 1 /\ {sq, sr} \subseteq -Double .. Double

\* The unsigned quotient is the integer part, for every pair of operands, and
\* DIVL never traps (the comments at arithmetic.c:82 and arithmetic.c:115).
UnsignedQuotient == done => q = n \div d

Abs(x) == IF x < 0 THEN -x ELSE x

\* The signed quotient is truncated towards zero; only the quotient of the
\* least number by -1, which has no representation, wraps.
SignedQuotient ==
  LET a == Signed(n, Double)  b == Signed(d, Double)
      exact == (IF (a < 0) = (b < 0) THEN 1 ELSE -1) * (Abs(a) \div Abs(b))
  IN  done => IF exact = Double \div 2 THEN sq = -exact ELSE sq = exact

\* A remainder that fits in a word is returned: always when the divisor does.
WordRemainder ==
  done => /\ d <= Word => r = n % d
          /\ LET a == Signed(n, Double)  b == Signed(d, Double)
                 rest == a - b * sq
             IN  rest \in -(Word \div 2) .. Word \div 2 - 1 => sr = rest
=============================================================================
