-------------------------------- MODULE Args --------------------------------
(***************************************************************************)
(* Passing the command line to a new process (userprog/process.c): parse() *)
(* splits it into the rows of the matrix `command', and start_process()    *)
(* lays the rows out on the user stack.  The matrix is one global, shared  *)
(* by every process that is starting; the thread can be preempted between  *)
(* any two words.                                                          *)
(*                                                                         *)
(* A command line is a sequence of words, a word a record of a name and a  *)
(* length.  Addresses count from PHYS_BASE downwards and are so negative.  *)
(***************************************************************************)
EXTENDS Integers, Sequences, FiniteSets, SequencesExt, FiniteSetsExt

CONSTANTS
  Procs,          \* the processes that start
  Lines,          \* the command lines they may have
  COMMAND_WIDTH,  \* rows of the matrix
  COMMAND_LENGTH, \* bytes of a row
  PGSIZE,         \* bytes of the stack page
  Alone           \* whether one process starts only after another has

VARIABLES
  command,  \* row -> the word it holds; Empty when it starts with a 0 byte
  line,     \* process -> its command line
  rest,     \* process -> the words strtok_r() has not yet returned
  row,      \* process -> the row parse() fills next
  pc,       \* process -> "new", "parse", "push" or "run"
  stack     \* process -> the stack built for it

vars == <<command, line, rest, row, pc, stack>>

Rows == 0 .. COMMAND_WIDTH - 1
Empty == [name |-> "", len |-> 0]
NoStack == [sp |-> 0, strings |-> <<>>, cells |-> <<>>, full |-> FALSE]

Init ==
  /\ command = [i \in Rows |-> Empty]
  /\ line \in [Procs -> Lines]
  /\ rest = line
  /\ row = [p \in Procs |-> 0]
  /\ pc = [p \in Procs |-> "new"]
  /\ stack = [p \in Procs |-> NoStack]

(* The loops that clear the matrix do not set j back, so that the inner    *)
(* one runs for the first row only.                                        *)
Clear(p) ==
  /\ pc[p] = "new"
  /\ Alone => \A q \in Procs : pc[q] \in {"new", "run"}
  /\ command' = [command EXCEPT ![0] = Empty]
  /\ pc' = [pc EXCEPT ![p] = "parse"]
  /\ UNCHANGED <<line, rest, row, stack>>

MutTokenSkips(p) ==
  /\ pc[p] = "parse"
  /\ row[p] < COMMAND_WIDTH
  /\ rest[p] # <<>>
  /\ IF Head(rest[p]).len < COMMAND_LENGTH - 1
       THEN command' = [command EXCEPT ![row[p]] = Head(rest[p])]
       ELSE UNCHANGED command
  /\ row' = [row EXCEPT ![p] = @ + 1]
  /\ rest' = [rest EXCEPT ![p] = Tail(@)]
  /\ UNCHANGED <<line, pc, stack>>

(* One turn of parse()'s loop: a word that fits goes into the next row, a  *)
(* longer one is left out and the flag it sets is not looked at.           *)
Token(p) ==
  /\ pc[p] = "parse"
  /\ row[p] < COMMAND_WIDTH
  /\ rest[p] # <<>>
  /\ IF Head(rest[p]).len < COMMAND_LENGTH - 1
       THEN /\ command' = [command EXCEPT ![row[p]] = Head(rest[p])]
            /\ row' = [row EXCEPT ![p] = @ + 1]
       ELSE UNCHANGED <<command, row>>
  /\ rest' = [rest EXCEPT ![p] = Tail(@)]
  /\ UNCHANGED <<line, pc, stack>>

(* parse() returns when the line or the matrix is used up.                 *)
Parsed(p) ==
  /\ pc[p] = "parse"
  /\ rest[p] = <<>> \/ row[p] = COMMAND_WIDTH
  /\ pc' = [pc EXCEPT ![p] = "push"]
  /\ UNCHANGED <<command, line, rest, row, stack>>

(* command_p: where the string of each row begins when the rows are pushed *)
(* from the last to the first.  An empty row takes no room.                *)
Addresses ==
  LET at[i \in 0 .. COMMAND_WIDTH] ==
        IF i = COMMAND_WIDTH THEN 0
        ELSE at[i + 1] - (IF command[i] = Empty THEN 0 ELSE command[i].len + 1)
  IN  [i \in Rows |-> at[i]]

(* command_amount after the loop over the rows from the last to the first: *)
(* the last assignment is that of the lowest row that is followed by an    *)
(* empty one.  The row after the last is read past the end of the matrix;  *)
(* past says whether a 0 byte happens to be there.                         *)
Amount(past) ==
  LET ends == {i \in Rows :
                 /\ command[i] # Empty
                 /\ IF i + 1 \in Rows THEN command[i + 1] = Empty ELSE past}
  IN  IF ends = {} THEN 0 ELSE Min(ends) + 1

(* work_align_count, which is 4 when the strings end on a boundary.        *)
Align(total) == 4 - (total % 4)

(* Everything below the strings, from the alignment down to the fake       *)
(* return address, in cells of four bytes.                                 *)
Push(past) ==
  LET at == Addresses
      used == {i \in Rows : command[i] # Empty}
      n == Amount(past)
      zero == at[0] - Align(-at[0]) - 4
      argv == zero - 4 * n
      sp == argv - 12
  IN  [sp |-> sp,
       full |-> used = Rows,
       strings |-> [a \in {at[i] : i \in used} |->
                      command[CHOOSE i \in used : at[i] = a]],
       cells |-> [a \in {sp + (4 * k) : k \in 0 .. n + 3} |->
                    CASE a = sp -> 0
                      [] a = sp + 4 -> n
                      [] a = sp + 8 -> IF n = 0 THEN 0 ELSE argv
                      [] a = zero -> 0
                      [] OTHER -> at[(a - argv) \div 4]]]

(* start_process() builds the stack and enters the process.                *)
Start(p) ==
  /\ pc[p] = "push"
  /\ \E past \in BOOLEAN : stack' = [stack EXCEPT ![p] = Push(past)]
  /\ pc' = [pc EXCEPT ![p] = "run"]
  /\ UNCHANGED <<command, line, rest, row>>

Done == (\A p \in Procs : pc[p] = "run") /\ UNCHANGED vars

Next ==
  \/ \E p \in Procs : Clear(p) \/ Token(p) \/ Parsed(p) \/ Start(p)
  \/ Done

Spec == Init /\ [][Next]_vars

-----------------------------------------------------------------------------
(* What the process finds.                                                 *)
Argc(p) == stack[p].cells[stack[p].sp + 4]
ArgvBase(p) == stack[p].cells[stack[p].sp + 8]
ArgvCell(p, i) == stack[p].cells[ArgvBase(p) + (4 * i)]
Argv(p) == [i \in 1 .. Argc(p) |-> stack[p].strings[ArgvCell(p, i - 1)]]

(* The words of p's own command line that parse() can keep.                *)
Own(p) ==
  LET short == SelectSeq(line[p], LAMBDA w : w.len < COMMAND_LENGTH - 1)
  IN  SubSeq(short, 1, Min({Len(short), COMMAND_WIDTH}))

(* Rows hold words that leave room for their 0 byte.                       *)
TypeOK ==
  /\ \A i \in Rows : command[i].len < COMMAND_LENGTH - 1
  /\ \A p \in Procs : row[p] \in 0 .. COMMAND_WIDTH
                      /\ pc[p] \in {"new", "parse", "push", "run"}

(* The stack a process starts on follows the calling convention: the stack *)
(* pointer is a multiple of four, above it are a return address of 0,      *)
(* argc, and a pointer to argc pointers to strings and a null pointer; no  *)
(* string overlaps another or the pointers.  (When the matrix is full the  *)
(* byte after it decides where the arguments end.)                         *)
StackFormed ==
  \A p \in Procs : pc[p] = "run" /\ ~stack[p].full =>
    LET st == stack[p]
        End(a) == a + st.strings[a].len + 1
    IN  /\ st.sp % 4 = 0
        /\ st.cells[st.sp] = 0
        /\ Argc(p) > 0 => /\ ArgvCell(p, Argc(p)) = 0
                          /\ \A i \in 0 .. Argc(p) - 1 :
                               ArgvCell(p, i) \in DOMAIN st.strings
        /\ \A a \in DOMAIN st.strings :
             /\ End(a) <= 0
             /\ \A b \in DOMAIN st.cells : b + 4 <= a
             /\ \A b \in DOMAIN st.strings : a < b => End(a) <= b

(* The stack never leaves its one page, whatever the command line: the     *)
(* bounds on words and their number are what guarantees it.                *)
FitsInPage == \A p \in Procs : stack[p].sp >= -PGSIZE

(* Processes that start one after another find their own words at the      *)
(* start of argv, in order, whatever earlier ones have left in the matrix. *)
OwnWordsFirst ==
  \A p \in Procs : pc[p] = "run" /\ ~stack[p].full => IsPrefix(Own(p), Argv(p))
=============================================================================
