-------------------------------- MODULE Ustar --------------------------------
(***************************************************************************)
(* Headers of tar archives (lib/ustar.c).  A header is a record of its     *)
(* fields, each a sequence of bytes; fields that make and parse treat as   *)
(* constants are one field, magic.  The sizes of the fields are constants, *)
(* so that every byte of a header can be tried with other values.          *)
(***************************************************************************)
EXTENDS Integers, Sequences, FiniteSets, SequencesExt

CONSTANTS
  NAME,      \* bytes of the field name
  SIZE,      \* bytes of the field size
  CHKSUM,    \* bytes of the field chksum
  ULONG_MAX, \* the greatest unsigned long
  INT_MAX,   \* the greatest int
  Names,     \* file names, sequences of bytes other than 0
  Sizes,     \* sizes of files
  Noise      \* bytes a damaged header may hold

VARIABLES
  file,    \* [name, type, size]: what the header is made for
  header,  \* the header, None if it could not be made
  damage,  \* whether a byte of it has been changed
  result   \* what ustar_parse_header() says

vars == <<file, header, damage, result>>

NUL == 0
SPACE == 32
DOT == 46
SLASH == 47
ZERO == 48
REGULAR == 48
DIRECTORY == 53
USTAR == <<1>>  \* the right magic, version and so on
None == [magic |-> <<>>]
Failed == [ok |-> FALSE]
Unread == [ok |-> FALSE, read |-> FALSE]

(* Each turn of the loop goes on after the first slash of the name.        *)
strip_antisocial_prefixes(file_name) ==
  LET From(i) == SubSeq(file_name, i, Len(file_name))
      Slash(i) == CHOOSE k \in i .. Len(file_name) :
                    file_name[k] = SLASH /\ \A j \in i .. k - 1 : file_name[j] # SLASH
      loop[i \in 1 .. Len(file_name) + 1] ==
        IF \E p \in {<<SLASH>>, <<DOT, SLASH>>, <<DOT, DOT, SLASH>>} : IsPrefix(p, From(i))
          THEN loop[Slash(i) + 1] ELSE From(i)
      rest == loop[1]
  IN  IF rest \in {<<>>, <<DOT, DOT>>} THEN <<DOT>> ELSE rest

(* snprintf() of "%0<n-1>o" into n bytes: the leading digits are kept when *)
(* there are too many.                                                     *)
Digits(n) ==
  LET d[k \in Nat] == IF k < 8 THEN <<ZERO + k>> ELSE Append(d[k \div 8], ZERO + (k % 8))
  IN  d[n]
Octal(v, n) ==
  LET d == Digits(v)
      padded == [i \in 1 .. IF Len(d) < n - 1 THEN n - 1 - Len(d) ELSE 0 |-> ZERO] \o d
  IN  SubSeq(padded, 1, n - 1) \o <<NUL>>

Sum(s) ==
  LET upTo[i \in 0 .. Len(s)] == IF i = 0 THEN 0 ELSE upTo[i - 1] + s[i]
  IN  upTo[Len(s)]

(* calculate_chksum(): the sum of all bytes, with spaces for the checksum. *)
calculate_chksum(h) ==
  Sum(h.name) + Sum(h.size) + Sum(h.typeflag) + Sum(h.prefix) + Sum(h.magic) + CHKSUM * SPACE

ustar_make_header(f) ==
  LET name == strip_antisocial_prefixes(f.name)
      h == [name |-> name \o [i \in 1 .. NAME - Len(name) |-> NUL],
            size |-> Octal(f.size, SIZE), chksum |-> [i \in 1 .. CHKSUM |-> NUL],
            typeflag |-> <<f.type>>, prefix |-> <<NUL>>, magic |-> USTAR]
  IN  IF Len(name) > NAME - 1 THEN None
      ELSE [h EXCEPT !.chksum = Octal(calculate_chksum(h), CHKSUM)]

(* parse_octal_field(): value after ofs digits, -1 once it would overflow; *)
(* the field ends at the first byte that is not a digit.                   *)
parse_octal_field(s) ==
  LET digit(i) == s[i] \in ZERO .. ZERO + 7
      value[ofs \in 0 .. Len(s)] ==
        IF ofs = 0 THEN 0
        ELSE LET before == value[ofs - 1]
             IN  IF before = -1 \/ before > ULONG_MAX \div 8 THEN -1
                 ELSE (s[ofs] - ZERO) + (before * 8)
      ends == {ofs \in 0 .. Len(s) - 1 :
                 ~digit(ofs + 1) /\ \A i \in 1 .. ofs : digit(i)}
  IN  IF \E ofs \in ends : ofs > 0 /\ s[ofs + 1] \in {SPACE, NUL} /\ value[ofs] # -1
        THEN [ok |-> TRUE, value |-> value[CHOOSE ofs \in ends : TRUE]]
        ELSE Failed

(* is_all_zeros() of the whole header.                                     *)
AllZeros(h) == \A f \in DOMAIN h : \A i \in DOMAIN h[f] : h[f][i] = NUL

(* A name in the header ends at its first 0 byte.                          *)
CString(s) ==
  LET n == CHOOSE i \in DOMAIN s : s[i] = NUL /\ \A j \in 1 .. i - 1 : s[j] # NUL
  IN  SubSeq(s, 1, n - 1)

ustar_parse_header(h) ==
  LET chksum == parse_octal_field(h.chksum)
      size == IF h.typeflag = <<REGULAR>> THEN parse_octal_field(h.size)
              ELSE [ok |-> TRUE, value |-> 0]
  IN  IF AllZeros(h) THEN [ok |-> TRUE, name |-> <<>>, type |-> 0, size |-> 0]
      ELSE IF \/ h.magic # USTAR
              \/ ~chksum.ok
              \/ chksum.value # calculate_chksum(h)
              \/ h.name[NAME] # NUL
              \/ h.prefix[1] # NUL
              \/ h.typeflag[1] \notin {REGULAR, DIRECTORY}
              \/ ~size.ok
              \/ size.value > INT_MAX
           THEN Failed
           ELSE [ok |-> TRUE, name |-> strip_antisocial_prefixes(CString(h.name)),
                 type |-> h.typeflag[1], size |-> size.value]

Init ==
  /\ file \in [name : Names, type : {REGULAR, DIRECTORY}, size : Sizes]
  /\ header = None
  /\ damage = FALSE
  /\ result = Unread

Make ==
  /\ header = None
  /\ header' = ustar_make_header(file)
  /\ UNCHANGED <<file, damage, result>>

(* One byte of the header is changed on the device.                        *)
Damage ==
  /\ header # None /\ ~damage /\ result = Unread
  /\ \E f \in DOMAIN header : \E i \in DOMAIN header[f], b \in Noise :
       /\ b # header[f][i]
       /\ header' = [header EXCEPT ![f][i] = b]
  /\ damage' = TRUE
  /\ UNCHANGED <<file, result>>

Parse ==
  /\ header # None /\ result = Unread
  /\ result' = ustar_parse_header(header)
  /\ UNCHANGED <<file, header, damage>>

Done == UNCHANGED vars

Next == Make \/ Damage \/ Parse \/ Done

Spec == Init /\ [][Next]_vars

-----------------------------------------------------------------------------
(* What parsing the intact header must give.                               *)
Expected ==
  [ok |-> TRUE, name |-> strip_antisocial_prefixes(file.name), type |-> file.type,
   size |-> IF file.type = REGULAR THEN file.size ELSE 0]

(* The fields have their lengths, and a header that was made ends every    *)
(* one with a 0 byte.                                                      *)
TypeOK ==
  header # None =>
    /\ Len(header.name) = NAME /\ Len(header.size) = SIZE /\ Len(header.chksum) = CHKSUM
    /\ ~damage => \A f \in {"name", "size", "chksum"} : Last(header[f]) = NUL

(* An intact header parses as what it was made for, and one with a damaged *)
(* byte parses so or not at all: the damage is noticed or of no effect.    *)
ParsesWhatWasMade ==
  result # Unread => IF damage THEN result \in {Expected, Failed} ELSE result = Expected

(* No name taken from a header starts with a slash or climbs out of the    *)
(* directory it is extracted into, and it is never empty.                  *)
StaysInside ==
  result.ok =>
    /\ result.name \notin {<<>>, <<DOT, DOT>>}
    /\ \A p \in {<<SLASH>>, <<DOT, SLASH>>, <<DOT, DOT, SLASH>>} : ~IsPrefix(p, result.name)
=============================================================================
