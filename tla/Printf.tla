------------------------------- MODULE Printf -------------------------------
(***************************************************************************)
(* Formatted output, lib/stdio.c, and atoi() of lib/stdlib.c.  A format is *)
(* a sequence of directives, each a literal character or the parts of a    *)
(* conversion; the output is a sequence of characters.  A behaviour prints *)
(* one format into a buffer, or dumps a block.                             *)
(***************************************************************************)
EXTENDS Integers, Sequences, FiniteSets

CONSTANTS Bits,         \* the bits of each argument type
          BufSize,      \* sizeof buf in format_integer(), 64 in the code
          PerLine,      \* bytes in a line of hex_dump(), 16 in the code
          Values, Widths, Precisions, Flags,  \* bounds: what the formats use
          Sizes         \* bound: buffers, blocks and offsets

Digits == <<"0", "1", "2", "3", "4", "5", "6", "7", "8", "9", "a", "b", "c", "d", "e", "f">>

base_of == [d |-> [base |-> 10, x |-> "", group |-> 3], u |-> [base |-> 10, x |-> "", group |-> 3],
            o |-> [base |-> 8, x |-> "", group |-> 3], x |-> [base |-> 16, x |-> "x", group |-> 4],
            p |-> [base |-> 16, x |-> "x", group |-> 4]]

VARIABLES fmt, arg, size,       \* what is printed, and the size of the buffer
          out,                  \* all characters given to output()
          buffer, ret,          \* the buffer of vsnprintf() and its result
          rows, done

vars == <<fmt, arg, size, out, buffer, ret, rows, done>>

Dup(ch, n) == [i \in 1 .. (IF n < 0 THEN 0 ELSE n) |-> ch]
Reversed(s) == [i \in 1 .. Len(s) |-> s[Len(s) + 1 - i]]
Max2(a, b) == IF a > b THEN a ELSE b
Min2(a, b) == IF a < b THEN a ELSE b

----------------------------------------------------------------------------
(* Conversions *)

\* The flags, width and precision as parse_conversion() leaves them.
parse_conversion(c) ==
  LET minus == "-" \in c.flags \/ c.width < 0
      f1 == IF "-" \in c.flags THEN c.flags \ {"0"} ELSE c.flags
      f2 == IF "+" \in c.flags THEN f1 \ {" "} ELSE f1
      f3 == IF minus THEN f2 \cup {"-"} ELSE f2
      prec == IF c.precision < 0 THEN -1 ELSE c.precision
  IN  [c EXCEPT !.flags = IF prec >= 0 THEN f3 \ {"0"} ELSE f3,
                !.width = IF c.width < 0 THEN -c.width ELSE c.width,
                !.precision = prec]

\* An argument of type t: a signed or an unsigned number of its bits.
Unsigned(t, v) == v % 2^Bits[t]
Signed(t, v) == LET u == Unsigned(t, v) IN IF u < 2^(Bits[t] - 1) THEN u ELSE u - 2^Bits[t]

\* The digits of a value, the last first, with a comma after each group.
RECURSIVE DigitsOf(_, _, _, _)
DigitsOf(value, b, grouped, cnt) ==
  IF value = 0 THEN <<>>
  ELSE (IF grouped /\ cnt > 0 /\ cnt % b.group = 0 THEN <<",">> ELSE <<>>)
         \o <<Digits[(value % b.base) + 1]>> \o DigitsOf(value \div b.base, b, grouped, cnt + 1)

\* What format_integer() has in its buffer, the last character first.
Rendered(value, b, c) ==
  LET digits == DigitsOf(value, b, "'" \in c.flags, 0)
      precision == IF c.precision < 0 THEN 1 ELSE c.precision
      zeros == digits \o Dup("0", Min2(precision, BufSize - 1) - Len(digits))
  IN  IF "#" \in c.flags /\ b.base = 8 /\ (zeros = <<>> \/ zeros[Len(zeros)] # "0")
      THEN Append(zeros, "0") ELSE zeros

format_integer(value, is_signed, negative, b, c) ==
  LET sign == IF ~is_signed THEN <<>>
              ELSE IF negative THEN <<"-">>
              ELSE IF "+" \in c.flags THEN <<"+">>
              ELSE IF " " \in c.flags THEN <<" ">> ELSE <<>>
      x == IF "#" \in c.flags /\ value # 0 /\ b.x # "" THEN <<"0", b.x>> ELSE <<>>
      buf == Rendered(value, b, c)
      pad == c.width - Len(buf) - Len(x) - Len(sign)
  IN  (IF c.flags \cap {"-", "0"} = {} THEN Dup(" ", pad) ELSE <<>>) \o sign \o x
        \o (IF "0" \in c.flags THEN Dup("0", pad) ELSE <<>>) \o Reversed(buf)
        \o (IF "-" \in c.flags THEN Dup(" ", pad) ELSE <<>>)

format_string(s, c) ==
  LET pad == Dup(" ", c.width - Len(s))
  IN  IF "-" \in c.flags THEN s \o pad ELSE pad \o s

\* A string argument is its length, of one digit.
Text(n) == Dup("a", n)

Convert(c0, v) ==
  LET c == parse_conversion(c0)
      s == Signed(c.type, v)
  IN  CASE c.conv = "d" -> format_integer(IF s < 0 THEN -s ELSE s, TRUE, s < 0, base_of.d, c)
        [] c.conv \in {"u", "o", "x"} -> format_integer(Unsigned(c.type, v), FALSE, FALSE, base_of[c.conv], c)
        [] c.conv = "p" -> format_integer(Unsigned("INT", v), FALSE, FALSE, base_of.p, [c EXCEPT !.flags = {"#"}])
        [] c.conv = "c" -> format_string(Text(1), c)
        [] c.conv = "s" -> LET n == v % 10
                           IN  format_string(Text(IF c.precision < 0 THEN n ELSE Min2(n, c.precision)), c)
        [] OTHER -> <<"<", "n", "o", ">">>        \* wording left out

----------------------------------------------------------------------------
(* vsnprintf() *)

vsnprintf_helper(b, length, ch) == IF length < Max2(size - 1, 0) THEN Append(b, ch) ELSE b

RECURSIVE Fill(_, _, _)
Fill(b, length, chars) ==
  IF chars = <<>> THEN b ELSE Fill(vsnprintf_helper(b, length, Head(chars)), length + 1, Tail(chars))

NUL == "NUL"

\* Conversions take their arguments in order; the formats here have one.
RECURSIVE __vprintf(_, _)
__vprintf(f, v) == IF f = <<>> THEN <<>> ELSE (IF "lit" \in DOMAIN Head(f) THEN <<Head(f).lit>> ELSE Convert(Head(f), v))
                                                \o __vprintf(Tail(f), v)

vsnprintf ==
  LET chars == __vprintf(fmt, arg)
      b == Fill(<<>>, 0, chars)
  IN  /\ ~done /\ done' = TRUE
      /\ out' = chars /\ ret' = Len(chars)
      /\ buffer' = IF size > 0 THEN Append(b, NUL) ELSE b
      /\ UNCHANGED <<fmt, arg, size, rows>>

----------------------------------------------------------------------------
(* hex_dump() *)

\* A line: the offset it shows and, by column, the byte of the block.
RECURSIVE Lines(_, _, _)
Lines(ofs, at, n) ==
  LET start == ofs % PerLine
      end == IF PerLine - start > n THEN start + n ELSE PerLine
  IN  IF n = 0 THEN <<>>
      ELSE <<[base |-> ofs - start, cells |-> [i \in start .. end - 1 |-> at + i - start]]>>
             \o Lines(ofs + end - start, at + end - start, n - (end - start))

hex_dump ==
  /\ ~done /\ done' = TRUE
  /\ rows' = Lines(arg, 0, size)
  /\ UNCHANGED <<fmt, arg, size, out, buffer, ret>>

----------------------------------------------------------------------------

Conversion == [flags : SUBSET Flags, width : Widths, precision : Precisions,
               type : DOMAIN Bits, conv : {"d", "u", "o", "x", "p", "c", "s", "f"}]

Init ==
  /\ \/ \E c \in Conversion : fmt = <<c>> /\ arg \in Values /\ size \in Sizes
     \/ fmt = <<>> /\ arg \in 0 .. 2 * PerLine /\ size \in 0 .. 2 * PerLine + 1
  /\ out = <<>> /\ buffer = <<>> /\ ret = 0 /\ rows = <<>> /\ done = FALSE

Next == (fmt # <<>> /\ vsnprintf) \/ (fmt = <<>> /\ hex_dump)

Spec == Init /\ [][Next]_vars

----------------------------------------------------------------------------
(* atoi() *)

DigitValue(ch) == (CHOOSE i \in 1 .. 16 : Digits[i] = ch) - 1
isdigit(ch) == \E i \in 1 .. 10 : Digits[i] = ch

RECURSIVE Parse(_, _)
Parse(s, value) ==
  IF s = <<>> \/ ~isdigit(Head(s)) THEN value
  ELSE Parse(Tail(s), value * 10 - DigitValue(Head(s)))

RECURSIVE SkipSpace(_)
SkipSpace(s) == IF s # <<>> /\ Head(s) = " " THEN SkipSpace(Tail(s)) ELSE s

\* The value is accumulated as a negative number, for the sake of INT_MIN.
atoi(s0) ==
  LET s == SkipSpace(s0)
      signed == s # <<>> /\ Head(s) \in {"+", "-"}
      value == Parse(IF signed THEN Tail(s) ELSE s, 0)
  IN  IF signed /\ Head(s) = "-" THEN value ELSE -value

----------------------------------------------------------------------------
(* Properties *)

Printed == done /\ fmt # <<>>

\* atoi() reads back what %d printed, for every flag but grouping and every
\* width and precision, the least number included.
ReadBack ==
  Printed /\ fmt[1].conv = "d" /\ "'" \notin fmt[1].flags =>
    atoi(out) = Signed(fmt[1].type, arg)

Wide(c) ==
  LET plain == Convert([c EXCEPT !.width = 0, !.flags = @ \ {"-", "0"}], arg)
  IN  Len(out) = Max2(Len(plain), IF c.width < 0 THEN -c.width ELSE c.width)

\* The field is as wide as asked for, or as what it holds; an argument gives a
\* negative width without the flag 0 only.
FieldWidth ==
  Printed /\ fmt[1].conv # "f" => (fmt[1].width < 0 /\ "0" \in fmt[1].flags) \/ Wide(fmt[1])

\* The digits never run out of the buffer of format_integer(), whatever the
\* precision.
BufferHolds ==
  Printed => \A k \in {"d", "u", "o", "x"} :
    Len(Rendered(Unsigned(fmt[1].type, arg), base_of[k], parse_conversion(fmt[1]))) <= BufSize

\* vsnprintf() writes at most SIZE bytes, a prefix of the output and its
\* terminator, and returns the length of all of it.
Truncates ==
  Printed => /\ ret = Len(out)
             /\ buffer = IF size = 0 THEN <<>> ELSE Append(SubSeq(out, 1, Min2(size - 1, Len(out))), NUL)

\* hex_dump() shows every byte once, in the line and column of its offset.
DumpsAll ==
  done /\ fmt = <<>> =>
    /\ \A i \in 0 .. size - 1 : \E l \in DOMAIN rows :
         LET col == (arg + i) % PerLine
         IN  rows[l].base = arg + i - col /\ col \in DOMAIN rows[l].cells /\ rows[l].cells[col] = i
    /\ \A l \in DOMAIN rows : DOMAIN rows[l].cells \subseteq 0 .. PerLine - 1
    /\ \A l \in 2 .. Len(rows) : rows[l].base = rows[l - 1].base + PerLine
=============================================================================
