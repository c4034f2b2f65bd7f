------------------------------- MODULE Strings -------------------------------
(***************************************************************************)
(* lib/string.c on a memory of M bytes.  A byte is a small number, 0 the   *)
(* null terminator; a pointer is an address, NIL a null pointer.  Every    *)
(* function is its loop.  A behaviour takes one memory, calls one of the   *)
(* functions that change it, or tokenizes the string at 0.                 *)
(***************************************************************************)
EXTENDS Integers, Sequences, FiniteSets

CONSTANTS M, Char

Addr == 0 .. M - 1
NIL == -1

VARIABLES mem, before,       \* the memory now and at the start
          op,                \* the call made
          ret, save_ptr,
          tokens             \* what strtok_r() returned

vars == <<mem, before, op, ret, save_ptr, tokens>>

----------------------------------------------------------------------------
(* Copying *)

RECURSIVE memcpy(_, _, _, _)
memcpy(m, dst, src, size) ==
  IF size = 0 THEN m ELSE memcpy([m EXCEPT ![dst] = m[src]], dst + 1, src + 1, size - 1)

RECURSIVE CopyDown(_, _, _, _)
CopyDown(m, dst, src, size) ==
  IF size = 0 THEN m ELSE CopyDown([m EXCEPT ![dst + size - 1] = m[src + size - 1]], dst, src, size - 1)

memmove(m, dst, src, size) == IF dst < src THEN memcpy(m, dst, src, size) ELSE CopyDown(m, dst, src, size)

\* What memmove() returns: dst after the loop.
memmove_ret(dst, src, size) == IF dst < src THEN dst + size ELSE dst

RECURSIVE memset(_, _, _, _)
memset(m, dst, value, size) == IF size = 0 THEN m ELSE memset([m EXCEPT ![dst] = value], dst + 1, value, size - 1)

----------------------------------------------------------------------------
(* Searching and comparing *)

RECURSIVE strlen(_, _)
strlen(m, s) == IF m[s] = 0 THEN 0 ELSE 1 + strlen(m, s + 1)

RECURSIVE strnlen(_, _, _)
strnlen(m, s, maxlen) == IF maxlen = 0 \/ m[s] = 0 THEN 0 ELSE 1 + strnlen(m, s + 1, maxlen - 1)

RECURSIVE memcmp(_, _, _, _)
memcmp(m, a, b, size) ==
  IF size = 0 THEN 0
  ELSE IF m[a] # m[b] THEN (IF m[a] > m[b] THEN 1 ELSE -1)
  ELSE memcmp(m, a + 1, b + 1, size - 1)

RECURSIVE strcmp(_, _, _)
strcmp(m, a, b) ==
  IF m[a] # 0 /\ m[a] = m[b] THEN strcmp(m, a + 1, b + 1)
  ELSE IF m[a] < m[b] THEN -1 ELSE IF m[a] > m[b] THEN 1 ELSE 0

RECURSIVE memchr(_, _, _, _)
memchr(m, s, c, size) == IF size = 0 THEN NIL ELSE IF m[s] = c THEN s ELSE memchr(m, s + 1, c, size - 1)

RECURSIVE strchr(_, _, _)
strchr(m, s, c) == IF m[s] = c THEN s ELSE IF m[s] = 0 THEN NIL ELSE strchr(m, s + 1, c)

RECURSIVE strrchr_from(_, _, _, _)
strrchr_from(m, s, c, p) ==
  IF m[s] = 0 THEN p ELSE strrchr_from(m, s + 1, c, IF m[s] = c THEN s ELSE p)

strrchr(m, s, c) == strrchr_from(m, s, c, NIL)

RECURSIVE strcspn(_, _, _)
strcspn(m, s, stop) == IF m[s] = 0 \/ strchr(m, stop, m[s]) # NIL THEN 0 ELSE 1 + strcspn(m, s + 1, stop)

RECURSIVE strspn(_, _, _)
strspn(m, s, skip) == IF m[s] = 0 \/ strchr(m, skip, m[s]) = NIL THEN 0 ELSE 1 + strspn(m, s + 1, skip)

RECURSIVE strpbrk(_, _, _)
strpbrk(m, s, stop) == IF m[s] = 0 THEN NIL ELSE IF strchr(m, stop, m[s]) # NIL THEN s ELSE strpbrk(m, s + 1, stop)

RECURSIVE strstr_from(_, _, _, _, _)
strstr_from(m, h, last, needle, n) ==
  IF h > last THEN NIL ELSE IF memcmp(m, h, needle, n) = 0 THEN h ELSE strstr_from(m, h + 1, last, needle, n)

strstr(m, h, needle) == strstr_from(m, h, h + strlen(m, h) - strlen(m, needle), needle, strlen(m, needle))

----------------------------------------------------------------------------
(* Bounded copies, tokens *)

Min2(a, b) == IF a < b THEN a ELSE b

\* Mutant: no room is kept for the terminator.
MutStrlcpy(m, dst, src, size) ==
  LET n == Min2(strlen(m, src), size)
  IN  IF size = 0 THEN m ELSE [memcpy(m, dst, src, n) EXCEPT ![dst + n] = 0]

strlcpy(m, dst, src, size) ==
  LET n == Min2(strlen(m, src), size - 1)
  IN  IF size = 0 THEN m ELSE [memcpy(m, dst, src, n) EXCEPT ![dst + n] = 0]

strlcat(m, dst, src, size) ==
  LET len == strlen(m, dst)
      n == Min2(strlen(m, src), size - len - 1)
  IN  IF size = 0 \/ len >= size THEN m ELSE [memcpy(m, dst + len, src, n) EXCEPT ![dst + len + n] = 0]

RECURSIVE Skip(_, _, _)
Skip(m, s, delimiters) ==
  IF strchr(m, delimiters, m[s]) = NIL \/ m[s] = 0 THEN s ELSE Skip(m, s + 1, delimiters)

RECURSIVE TokenEnd(_, _, _)
TokenEnd(m, s, delimiters) == IF strchr(m, delimiters, m[s]) = NIL THEN TokenEnd(m, s + 1, delimiters) ELSE s

strtok_r(delimiters) ==
  LET token == Skip(mem, save_ptr, delimiters)
      end == TokenEnd(mem, token, delimiters)
  IN  IF mem[token] = 0
      THEN ret' = NIL /\ save_ptr' = token /\ UNCHANGED <<mem, tokens>>
      ELSE /\ ret' = token /\ tokens' = Append(tokens, <<token, end - token>>)
           /\ mem' = [mem EXCEPT ![end] = 0]
           /\ save_ptr' = IF mem[end] # 0 THEN end + 1 ELSE end

----------------------------------------------------------------------------

\* The memory ends with the delimiters of strtok_r(), a string of one character,
\* so every address starts a string.
Delimiters == M - 2

Init ==
  /\ mem \in [Addr -> Char] /\ mem[M - 1] = 0 /\ mem[M - 2] # 0 /\ mem[M - 3] = 0
  /\ before = mem /\ op = <<"none">> /\ ret = 0 /\ save_ptr = 0 /\ tokens = <<>>

Call(name, dst, src, size, m, r) ==
  /\ op = <<"none">> /\ op' = <<name, dst, src, size>>
  /\ mem' = m /\ ret' = r
  /\ UNCHANGED <<before, save_ptr, tokens>>

Memmove(dst, src, size) ==
  /\ dst + size <= M /\ src + size <= M
  /\ Call("memmove", dst, src, size, memmove(mem, dst, src, size), memmove_ret(dst, src, size))

Memset(dst, value, size) == dst + size <= M /\ Call("memset", dst, value, size, memset(mem, dst, value, size), dst)

\* The buffer of SIZE bytes at dst and the string at src do not overlap.
Apart(dst, src, size) == src + strlen(mem, src) < dst \/ dst + size <= src

Strlcpy(dst, src, size) ==
  /\ op = <<"none">> /\ dst + size <= M /\ Apart(dst, src, size)
  /\ Call("strlcpy", dst, src, size, strlcpy(mem, dst, src, size), strlen(mem, src))

Strlcat(dst, src, size) ==
  /\ op = <<"none">> /\ dst + size <= M /\ Apart(dst, src, size)
  /\ Call("strlcat", dst, src, size, strlcat(mem, dst, src, size), strlen(mem, dst) + strlen(mem, src))

Tokenize ==
  /\ op[1] \in {"none", "strtok_r"} /\ ret # NIL
  /\ op' = <<"strtok_r", 0, 0, 0>> /\ strtok_r(Delimiters) /\ UNCHANGED before

Next ==
  \/ \E dst \in Addr, size \in 0 .. M :
       \/ \E src \in Addr : Memmove(dst, src, size) \/ Strlcpy(dst, src, size) \/ Strlcat(dst, src, size)
       \/ \E value \in Char : Memset(dst, value, size)
  \/ Tokenize

Spec == Init /\ [][Next]_vars

----------------------------------------------------------------------------
(* Properties *)

Str(m, s) == [i \in 1 .. strlen(m, s) |-> m[s + i - 1]]
Outside(dst, size) == \A a \in Addr \ (dst .. dst + size - 1) : mem[a] = before[a]

\* The bytes that memmove() and memset() leave, for every overlap.
Copies ==
  LET dst == op[2]  src == op[3]  size == op[4]
  IN  op[1] \in {"memmove", "memset"} =>
        /\ Outside(dst, size)
        /\ \A i \in 0 .. size - 1 : mem[dst + i] = IF op[1] = "memset" THEN src ELSE before[src + i]

Prefix(s, n) == SubSeq(s, 1, Min2(n, Len(s)))

\* strlcpy() and strlcat() stay in the SIZE bytes, terminate what they write,
\* lose only what has no room, and return the length they tried to create.
Bounded ==
  LET dst == op[2]  size == op[4]
      s == IF op[1] = "strlcpy" THEN Str(before, op[3]) ELSE Str(before, dst) \o Str(before, op[3])
      room == op[1] = "strlcpy" \/ strlen(before, dst) < size
  IN  op[1] \in {"strlcpy", "strlcat"} =>
        /\ Outside(dst, size) /\ ret = Len(s)
        /\ IF size > 0 /\ room THEN Str(mem, dst) = Prefix(s, size - 1) ELSE mem = before

Least(S) == IF S = {} THEN NIL ELSE CHOOSE x \in S : \A y \in S : x <= y
Greatest(S) == IF S = {} THEN NIL ELSE CHOOSE x \in S : \A y \in S : x >= y
Chars(m, s) == {m[a] : a \in s .. s + strlen(m, s) - 1}

\* The searches return the first or last place that they are about, and
\* the comparison is lexicographic.
Searches ==
  op = <<"none">> =>
    \A s, t \in Addr :
      LET body == s .. s + strlen(mem, s) - 1
          pre == {n \in 0 .. strlen(mem, s) : \A i \in 0 .. n - 1 : mem[s + i] = mem[t + i]}
          n == Greatest({k \in pre : k <= strlen(mem, t)})
      IN  /\ strpbrk(mem, s, t) = Least({a \in body : mem[a] \in Chars(mem, t)})
          /\ strcspn(mem, s, t) = Least({a - s : a \in {b \in body : mem[b] \in Chars(mem, t)} \cup {s + strlen(mem, s)}})
          /\ strspn(mem, s, t) = Least({a - s : a \in {b \in body : mem[b] \notin Chars(mem, t)} \cup {s + strlen(mem, s)}})
          /\ strstr(mem, s, t) =
               Least({a \in s .. s + strlen(mem, s) - strlen(mem, t) : SubSeq(Str(mem, a), 1, strlen(mem, t)) = Str(mem, t)})
          /\ strcmp(mem, s, t) = IF Str(mem, s) = Str(mem, t) THEN 0 ELSE IF mem[s + n] < mem[t + n] THEN -1 ELSE 1
          /\ \A c \in Char : strrchr(mem, s, c) = Greatest({a \in body : mem[a] = c})
          /\ \A k \in 0 .. M - s : /\ strnlen(mem, s, k) = Min2(k, strlen(mem, s))
                                   /\ memchr(mem, s, mem[t], k) = Least({a \in s .. s + k - 1 : mem[a] = mem[t]})

\* When strtok_r() returns null its tokens were all the longest runs without a
\* delimiter, in order, none empty.
AllTokens ==
  LET delim == before[Delimiters]
      end == strlen(before, 0)
      run(a, n) == /\ n > 0 /\ a + n <= end /\ \A b \in a .. a + n - 1 : before[b] # delim
                   /\ a = 0 \/ before[a - 1] = delim
                   /\ a + n = end \/ before[a + n] = delim
  IN  op[1] = "strtok_r" =>
        /\ \A i \in DOMAIN tokens : run(tokens[i][1], tokens[i][2]) /\ \A j \in 1 .. i - 1 : tokens[j][1] < tokens[i][1]
        /\ ret = NIL => \A a \in Addr, n \in 1 .. M : run(a, n) => \E i \in DOMAIN tokens : tokens[i] = <<a, n>>
=============================================================================
