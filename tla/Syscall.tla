------------------------------- MODULE Syscall -------------------------------
(***************************************************************************)
(* A system call from the stub in the user's library (lib/user/syscall.c)  *)
(* through the dispatcher (syscall_handler(), syscall_execute() and the    *)
(* readers of arguments in userprog/syscall.c) and back.                   *)
(*                                                                         *)
(* The address space is small: pages of PGSIZE bytes, the kernel from      *)
(* PHYS_BASE to Top.  Only the four words from the stack pointer on        *)
(* matter; they need not be aligned, so a word can lie on two pages.  A    *)
(* program calls through the stubs, or traps with any stack pointer, as    *)
(* tests/userprog/sc-*.c do.  What a call does is left to the modules of   *)
(* processes and files; here it returns some result.                       *)
(***************************************************************************)
EXTENDS Integers, Sequences

CONSTANTS
  PGSIZE, PHYS_BASE, Top,
  Mappings,  \* the sets of pages that may be mapped
  Stacks,    \* stack pointers of programs that trap by themselves
  Numbers,   \* numbers of the calls they make
  Words,     \* the other words in memory
  Results    \* what calls return

VARIABLES
  mapped,    \* pages the process has mapped
  esp,       \* the user's stack pointer
  words,     \* the words at esp, esp + 4, esp + 8 and esp + 12
  pc,        \* where the process is
  number,    \* the number of the call
  args,      \* the arguments read so far
  eax,       \* the register of the result, in the interrupt frame
  asked,     \* the call the stub was asked for, NoCall in a bare trap
  made,      \* the call that was made
  exit_code  \* the code the parent will see, Unset until it is written

vars == <<mapped, esp, words, pc, number, args, eax, asked, made, exit_code>>

NoCall == <<>>
Unset == 99
Void == "unchanged"

(* Numbers of calls, the first NCalls of which the kernel knows, and how   *)
(* many arguments the stub of each one pushes.                             *)
NCalls == 13
StubArity ==
  [n \in 0 .. 19 |-> CASE n = 0 -> 0 [] n \in {8, 9} -> 3 [] n \in {4, 10, 13, 17} -> 2
                       [] OTHER -> 1]

(* How syscall_execute() reads the arguments of call n, in their order.    *)
Reads(n) ==
  CASE n = 0 -> <<>>
    [] n \in {1, 3, 7, 11, 12} -> <<"int">>
    [] n \in {2, 5, 6} -> <<"pointer">>
    [] n = 4 -> <<"pointer", "int">>
    [] n = 10 -> <<"int", "int">>
    [] n \in {8, 9} -> <<"int", "pointer", "int">>

(* Calls whose result syscall_execute() stores in the frame.               *)
HasResult(n) == n \notin {10, 12}

-----------------------------------------------------------------------------
Page(a) == a \div PGSIZE

(* The kernel can read a byte of its own, and of a mapped page.            *)
Readable(a) == \A i \in 0 .. 3 : (a + i) % Top >= PHYS_BASE \/ Page((a + i) % Top) \in mapped

check_user_pointer(p) == p # 0 /\ p < PHYS_BASE /\ Page(p) \in mapped

MutIsInvalidPt(p, n) ==
  p = 0 \/ \E i \in 0 .. n - 1 : p + 4 * i >= PHYS_BASE \/ Page(p + (4 * i)) \notin mapped

is_invalid_pt(p, n) ==
  p = 0 \/ \E i \in 0 .. (4 * n) - 1 : LET a == (p + i) % Top
                                      IN  a >= PHYS_BASE \/ Page(a) \notin mapped

(* process_invalid_exit() records -1 and returns.                          *)
process_invalid_exit == exit_code' = -1

Stack_p == (esp + 4) % Top

-----------------------------------------------------------------------------
Init ==
  /\ mapped \in Mappings
  /\ esp = PHYS_BASE
  /\ words = <<0, 0, 0, 0>>
  /\ pc = "user"
  /\ number = 0
  /\ args = <<>>
  /\ eax = 0
  /\ asked = NoCall /\ made = NoCall
  /\ exit_code = Unset

(* A stub pushes its arguments, last one first, and the number, and traps. *)
Stub ==
  /\ pc = "user"
  /\ \E n \in DOMAIN StubArity :
       \E a \in [1 .. StubArity[n] -> Words] :
         /\ asked' = <<n, a>>
         /\ esp' = esp - (4 * (Len(a) + 1))
         /\ words' = [i \in 1 .. 4 |-> IF i = 1 THEN n ELSE IF i <= Len(a) + 1 THEN a[i - 1] ELSE 0]
  /\ pc' = "handler"
  /\ UNCHANGED <<mapped, number, args, eax, made, exit_code>>

(* A program traps with a stack pointer and words of its own.              *)
Trap ==
  /\ pc = "user"
  /\ esp' \in Stacks
  /\ \E n \in Numbers, a, b, c \in Words : words' = <<n, a, b, c>>
  /\ asked' = NoCall
  /\ pc' = "handler"
  /\ UNCHANGED <<mapped, number, args, eax, made, exit_code>>

(* syscall_handler(): the number must be on the user's pages; when it is   *)
(* not, process_invalid_exit() returns and the number is read all the same.*)
syscall_handler ==
  /\ pc = "handler"
  /\ IF esp = 0
       THEN pc' = "exited" /\ UNCHANGED <<number, exit_code>>
       ELSE /\ IF is_invalid_pt(esp, 1) THEN process_invalid_exit ELSE UNCHANGED exit_code
            /\ IF Readable(esp) THEN number' = words[1] /\ pc' = "execute"
                                ELSE pc' = "fault" /\ UNCHANGED number
  /\ args' = <<>> /\ made' = NoCall
  /\ UNCHANGED <<mapped, esp, words, eax, asked>>

(* syscall_execute() up to the arguments.                                  *)
syscall_execute ==
  /\ pc = "execute"
  /\ IF number \notin 0 .. NCalls - 1
       THEN pc' = "exited" /\ UNCHANGED exit_code
       ELSE /\ pc' = "args"
            /\ IF number > 0 /\ is_invalid_pt(Stack_p, Len(Reads(number)))
                 THEN process_invalid_exit
                 ELSE UNCHANGED exit_code
  /\ UNCHANGED <<mapped, esp, words, number, args, eax, asked, made>>

(* get_arg_integer() and get_arg_pointer() of the next argument.  A bad    *)
(* pointer ends the process with exit(-1).                                 *)
get_arg ==
  /\ pc = "args" /\ Len(args) < Len(Reads(number))
  /\ LET i == Len(args) + 1
         v == words[i + 1]
     IN  IF ~Readable((Stack_p + (4 * (i - 1))) % Top)
           THEN pc' = "fault" /\ UNCHANGED <<args, exit_code>>
         ELSE IF Reads(number)[i] = "pointer" /\ ~check_user_pointer(v)
           THEN pc' = "exited" /\ exit_code' = -1 /\ UNCHANGED args
         ELSE args' = Append(args, v) /\ UNCHANGED <<pc, exit_code>>
  /\ UNCHANGED <<mapped, esp, words, number, eax, asked, made>>

(* The call itself.  halt() turns the machine off, exit() records its      *)
(* argument and ends the process.                                          *)
Make ==
  /\ pc = "args" /\ Len(args) = Len(Reads(number))
  /\ made' = <<number, args>>
  /\ pc' = CASE number = 0 -> "off" [] number = 1 -> "exited" [] OTHER -> "return"
  /\ exit_code' = IF number = 1 THEN args[1] ELSE exit_code
  /\ IF number \notin {0, 1} /\ HasResult(number) THEN \E r \in Results : eax' = r
                                                  ELSE eax' = Void
  /\ UNCHANGED <<mapped, esp, words, number, args, asked>>

(* The stub takes what it pushed off the stack; a program that traps by    *)
(* itself sets its own stack pointer again.                                *)
Return ==
  /\ pc = "return"
  /\ pc' = "user"
  /\ esp' = IF asked = NoCall THEN PHYS_BASE ELSE esp + (4 * (Len(asked[2]) + 1))
  /\ words' = <<0, 0, 0, 0>>
  /\ args' = <<>> /\ number' = 0 /\ made' = NoCall /\ asked' = NoCall
  /\ UNCHANGED <<mapped, eax, exit_code>>

(* page_fault() returns, and the instruction faults again; a process that  *)
(* has ended and a machine that is off do nothing.                         *)
Halt == pc \in {"fault", "exited", "off"} /\ UNCHANGED vars

Next ==
  \/ Stub \/ Trap
  \/ syscall_handler \/ syscall_execute \/ get_arg \/ Make \/ Return
  \/ Halt

Spec == Init /\ [][Next]_vars

-----------------------------------------------------------------------------
(* A program that called stubs only has its stack pointer where it was,    *)
(* and the stack pointer is an address.                                    *)
TypeOK ==
  /\ esp \in 0 .. Top - 1
  /\ pc = "user" => esp = PHYS_BASE
  /\ Len(args) <= 3

(* The user's library and the kernel agree: the call a stub was asked for  *)
(* is the call that is made, with the same arguments in the same order.    *)
StubAndKernelAgree == asked # NoCall /\ made # NoCall => made = asked

UserWords(p, n) == \A i \in 0 .. (4 * n) - 1 : p + i < PHYS_BASE /\ Page(p + i) \in mapped

(* "One byte of the system call's argument on a separate page [...] must   *)
(* work": a call all bytes of which are mapped is not refused for where    *)
(* they lie, only for a pointer among its arguments.                       *)
SplitWordsServed ==
  esp # 0 /\ pc \in {"fault", "exited"} /\ UserWords(esp, 1) /\ words[1] \in 1 .. NCalls - 1
     /\ UserWords(esp, Len(Reads(words[1])) + 1)
  => \/ made = <<1, <<words[2]>>>> /\ exit_code = words[2]
     \/ \E i \in DOMAIN Reads(words[1]) :
          Reads(words[1])[i] = "pointer" /\ ~check_user_pointer(words[i + 1])

(* A call whose words are not all the user's leaves its mark: whatever     *)
(* else happens, -1 was recorded before it was made.                       *)
BadWordsMarked ==
  made # NoCall /\ number > 1 /\ ~UserWords(esp, Len(Reads(number)) + 1) => exit_code = -1

(* No call is made with a pointer that is null, the kernel's or unmapped.  *)
PointersMapped ==
  made # NoCall => \A i \in DOMAIN made[2] :
    Reads(made[1])[i] = "pointer" =>
      made[2][i] \in 1 .. PHYS_BASE - 1 /\ Page(made[2][i]) \in mapped
=============================================================================
