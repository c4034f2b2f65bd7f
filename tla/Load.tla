-------------------------------- MODULE Load --------------------------------
(***************************************************************************)
(* Loading an executable into a new address space, and taking it down:     *)
(* load(), load_segment(), setup_stack() and process_exit() of             *)
(* userprog/process.c over the page directories of userprog/pagedir.c.     *)
(* Every allocation may fail, and a timer interrupt may switch to another  *)
(* thread and back between any two steps.                                  *)
(*                                                                         *)
(* Addresses are unsigned numbers below SPACE that wrap, as 32-bit ones    *)
(* do.  Byte o of the file is o + 1, so that no two bytes, and none and a  *)
(* zero, are alike.  The ELF header is good or bad; a program header is a  *)
(* record, and reading one may fail.                                       *)
(***************************************************************************)
EXTENDS Integers, Sequences, FiniteSets, FiniteSetsExt, SequencesExt

CONSTANTS
  PGSIZE,     \* bytes of a page
  SPACE,      \* number of virtual addresses
  PHYS_BASE,  \* the first kernel address
  PTES,       \* entries of a page table
  FileLen,    \* file_length() of the executable
  Programs,   \* the sequences of program headers it may have
  UserFrames, \* sizes the user pool may have
  KernFrames  \* sizes the kernel pool may have

VARIABLES
  pc,      \* where the thread is
  prog,    \* the program headers
  next,    \* how many of them are done
  seg,     \* load_segment()'s read_bytes, zero_bytes, upage, pos, writable
  pool,    \* [user, kern |-> the frames of each pool]
  free,    \* [user, kern |-> the free ones]
  mem,     \* user frame -> its bytes
  pagedir, \* the thread's pagedir: a kernel frame, or 0 for NULL
  pd,      \* page directory entry -> the frame of its page table, or 0
  pte,     \* user page -> [frame, writable], NotPresent if none is mapped
  active,  \* the directory in CR3, 0 for init_page_dir
  dying,   \* process_exit()'s local pd
  file,    \* "none", "open" or "closed"
  deny,    \* the flag of struct file, and deny_write_cnt of its inode
  panic    \* whether an ASSERT has failed

vars == <<pc, prog, next, seg, pool, free, mem, pagedir, pd, pte, active,
          dying, file, deny, panic>>
tables == <<pagedir, pd, pte, active, dying>>
fileVars == <<file, deny>>

U(n) == n % SPACE
Page(a) == (a \div PGSIZE) * PGSIZE
pg_ofs(a) == a % PGSIZE
RoundUp(n) == U(((U(n + PGSIZE - 1)) \div PGSIZE) * PGSIZE)
is_user_vaddr(a) == a < PHYS_BASE
pd_no(a) == a \div (PGSIZE * PTES)
UserPages == {a \in 0 .. PHYS_BASE - 1 : pg_ofs(a) = 0}
NotPresent == [frame |-> 0, writable |-> FALSE]
Garbage == [i \in 1 .. PGSIZE |-> SPACE]
NoSeg == [read |-> 0, zero |-> 0, upage |-> 0, pos |-> 0, writable |-> FALSE]

Init ==
  /\ pc = "create"
  /\ prog \in Programs
  /\ next = 0
  /\ seg = NoSeg
  /\ \E u \in UserFrames, k \in KernFrames :
       pool = [user |-> 1 .. u, kern |-> 1 .. k]
  /\ free = pool
  /\ mem = [f \in pool.user |-> Garbage]
  /\ pagedir = 0
  /\ pd = [i \in 0 .. pd_no(PHYS_BASE - 1) |-> 0]
  /\ pte = [a \in UserPages |-> NotPresent]
  /\ active = 0
  /\ dying = 0
  /\ file = "none"
  /\ deny = [flag |-> FALSE, count |-> 0]
  /\ panic = FALSE

Goto(label) == pc' = label

(* pagedir_create(): a directory with no user mappings, or NULL.           *)
pagedir_create ==
  /\ pc = "create"
  /\ IF free.kern = {}
       THEN /\ Goto("done") /\ UNCHANGED <<free, pagedir>>
       ELSE /\ pagedir' = Min(free.kern)
            /\ free' = [free EXCEPT !.kern = @ \ {Min(@)}]
            /\ Goto("activate")
  /\ UNCHANGED <<prog, next, seg, pool, mem, pd, pte, active, dying, file, deny, panic>>

(* process_activate(), as load() calls it.                                 *)
Activate ==
  /\ pc = "activate"
  /\ active' = pagedir
  /\ Goto("open")
  /\ UNCHANGED <<prog, next, seg, pool, free, mem, pagedir, pd, pte, dying, file, deny, panic>>

(* file_deny_write() counts a file once however often it is called.        *)
DenyWrite(d) == IF d.flag THEN d ELSE [flag |-> TRUE, count |-> d.count + 1]

AllowWrite(d) == IF d.flag THEN [flag |-> FALSE, count |-> d.count - 1] ELSE d

(* filesys_open() finds the file or not, and the header is good or bad.    *)
Open ==
  /\ pc = "open"
  /\ \/ Goto("done") /\ UNCHANGED fileVars
     \/ /\ file' = "open"
        /\ deny' = DenyWrite(deny)
        /\ pc' \in {"phdr", "done"}
  /\ UNCHANGED <<prog, next, seg, pool, free, mem, tables, panic>>

validate_segment(p) ==
  /\ pg_ofs(p.offset) = pg_ofs(p.vaddr)
  /\ p.offset <= FileLen
  /\ p.memsz >= p.filesz
  /\ p.memsz # 0
  /\ is_user_vaddr(p.vaddr)
  /\ is_user_vaddr(U(p.vaddr + p.memsz))
  /\ U(p.vaddr + p.memsz) >= p.vaddr
  /\ p.vaddr >= PGSIZE

(* The arguments load() computes for load_segment().                       *)
Segment(p) ==
  LET offset == pg_ofs(p.vaddr)
      read == IF p.filesz > 0 THEN U(offset + p.filesz) ELSE 0
  IN  [read |-> read, zero |-> U(RoundUp(offset + p.memsz) - read),
       upage |-> Page(p.vaddr), pos |-> Page(p.offset), writable |-> p.writable]

(* One turn of load()'s loop over the program headers, up to the call of   *)
(* load_segment() and its assertions.                                      *)
Header ==
  /\ pc = "phdr"
  /\ next < Len(prog)
  /\ LET p == prog[next + 1]
         s == Segment(p)
     IN  \/ Goto("done") /\ UNCHANGED <<next, seg, panic>>
         \/ /\ next' = next + 1
            /\ CASE p.type = "ignore" -> Goto("phdr") /\ UNCHANGED <<seg, panic>>
                 [] p.type = "refuse" \/ ~validate_segment(p) ->
                      Goto("done") /\ UNCHANGED <<seg, panic>>
                 [] OTHER -> /\ seg' = s
                             /\ panic' = (U(s.read + s.zero) % PGSIZE # 0)
                             /\ Goto("segment")
  /\ UNCHANGED <<prog, pool, free, mem, tables, file, deny>>

HeadersDone ==
  /\ pc = "phdr"
  /\ next = Len(prog)
  /\ Goto("stack")
  /\ UNCHANGED <<prog, next, seg, pool, free, mem, tables, file, deny, panic>>

(* install_page() with lookup_page(): the page must not be mapped, and a   *)
(* page table is made when there is none; no memory for it is a failure.   *)
Mapped(upage) == pd[pd_no(upage)] # 0 /\ pte[upage] # NotPresent
CanInstall(upage) ==
  /\ ~Mapped(upage)
  /\ pd[pd_no(upage)] # 0 \/ free.kern # {}

(* The free frames and the tables after frame f is mapped at upage.        *)
Install(upage, f, writable) ==
  /\ pte' = [pte EXCEPT ![upage] = [frame |-> f, writable |-> writable]]
  /\ IF pd[pd_no(upage)] # 0
       THEN /\ free' = [free EXCEPT !.user = @ \ {f}]
            /\ UNCHANGED pd
       ELSE /\ pd' = [pd EXCEPT ![pd_no(upage)] = Min(free.kern)]
            /\ free' = [user |-> free.user \ {f}, kern |-> free.kern \ {Min(free.kern)}]

(* What file_read() of n bytes at pos puts into a page whose rest is       *)
(* zeroed.                                                                 *)
Filled(pos, n) == [i \in 1 .. PGSIZE |-> IF i <= n THEN pos + i ELSE 0]

(* One turn of load_segment()'s loop.  pagedir_get_page() asserts that the *)
(* page is the user's.                                                     *)
LoadPage ==
  /\ pc = "segment"
  /\ seg.read > 0 \/ seg.zero > 0
  /\ LET n == Min({seg.read, PGSIZE})
         f == Min(free.user)
         filled == free.user # {} /\ (n = 0 \/ seg.pos + n <= FileLen)
     IN  /\ panic' = (filled /\ ~is_user_vaddr(seg.upage))
         /\ IF filled /\ is_user_vaddr(seg.upage) /\ CanInstall(seg.upage)
            THEN /\ mem' = [mem EXCEPT ![f] = Filled(seg.pos, n)]
                 /\ Install(seg.upage, f, seg.writable)
                 /\ seg' = [seg EXCEPT !.read = @ - n, !.zero = U(@ - (PGSIZE - n)),
                                       !.upage = U(@ + PGSIZE), !.pos = @ + n]
                 /\ UNCHANGED pc
            ELSE Goto("done") /\ UNCHANGED <<free, mem, pd, pte, seg>>
  /\ UNCHANGED <<prog, next, pool, pagedir, active, dying, file, deny>>

SegmentDone ==
  /\ pc = "segment"
  /\ seg.read = 0 /\ seg.zero = 0
  /\ Goto("phdr")
  /\ seg' = NoSeg
  /\ UNCHANGED <<prog, next, pool, free, mem, tables, file, deny, panic>>

(* setup_stack(): a zeroed page below PHYS_BASE; then load() succeeds and  *)
(* denies writes once more.                                                *)
setup_stack ==
  /\ pc = "stack"
  /\ LET top == PHYS_BASE - PGSIZE
         f == Min(free.user)
     IN  IF free.user # {} /\ CanInstall(top)
         THEN /\ mem' = [mem EXCEPT ![f] = Filled(0, 0)]
              /\ Install(top, f, TRUE)
              /\ deny' = DenyWrite(deny)
              /\ Goto("run")
         ELSE Goto("done") /\ UNCHANGED <<free, mem, pd, pte, deny>>
  /\ UNCHANGED <<prog, next, seg, pool, pagedir, active, dying, file, panic>>

(* load() fails: file_close(), which allows writes again, and then         *)
(* thread_exit(), with no executable_f.                                    *)
Fail ==
  /\ pc = "done"
  /\ file' = IF file = "open" THEN "closed" ELSE file
  /\ deny' = AllowWrite(deny)
  /\ Goto("clear")
  /\ UNCHANGED <<prog, next, seg, pool, free, mem, tables, panic>>

(* process_exit() of a process that ran: file_allow_write(), and           *)
(* file_close(), which calls it again.                                     *)
ExitFile ==
  /\ pc = "run"
  /\ deny' = AllowWrite(AllowWrite(deny))
  /\ file' = "closed"
  /\ Goto("clear")
  /\ UNCHANGED <<prog, next, seg, pool, free, mem, tables, panic>>

MutClear ==
  /\ pc = "clear"
  /\ dying' = pagedir
  /\ Goto("base")
  /\ UNCHANGED <<prog, next, seg, pool, free, mem, pagedir, pd, pte, active, file, deny, panic>>

(* cur->pagedir = NULL comes first ...                                     *)
ClearPagedir ==
  /\ pc = "clear"
  /\ dying' = pagedir
  /\ pagedir' = 0
  /\ Goto(IF pagedir = 0 THEN "dead" ELSE "base")
  /\ UNCHANGED <<prog, next, seg, pool, free, mem, pd, pte, active, file, deny, panic>>

(* ... then pagedir_activate (NULL) ...                                    *)
ActivateBase ==
  /\ pc = "base"
  /\ active' = 0
  /\ Goto("destroy")
  /\ UNCHANGED <<prog, next, seg, pool, free, mem, pagedir, pd, pte, dying, file, deny, panic>>

(* ... and last pagedir_destroy(): the pages of every table, the tables    *)
(* and the directory.                                                      *)
pagedir_destroy ==
  /\ pc = "destroy"
  /\ free' = [user |-> free.user \cup {pte[a].frame : a \in {b \in UserPages : Mapped(b)}},
              kern |-> free.kern \cup {dying} \cup {pd[i] : i \in {j \in DOMAIN pd : pd[j] # 0}}]
  /\ pd' = [i \in DOMAIN pd |-> 0]
  /\ pte' = [a \in UserPages |-> NotPresent]
  /\ Goto("dead")
  /\ UNCHANGED <<prog, next, seg, pool, mem, pagedir, active, dying, file, deny, panic>>

(* Another thread runs for a while; on the way back the scheduler calls    *)
(* process_activate().                                                     *)
Preempt ==
  /\ pc # "dead"
  /\ active' = pagedir
  /\ UNCHANGED <<pc, prog, next, seg, pool, free, mem, pagedir, pd, pte, dying, file, deny, panic>>

Step ==
  \/ pagedir_create \/ Activate \/ Open \/ Header \/ HeadersDone
  \/ LoadPage \/ SegmentDone \/ setup_stack \/ Fail
  \/ ExitFile \/ ClearPagedir \/ ActivateBase \/ pagedir_destroy

Done == pc = "dead" /\ UNCHANGED vars

Next == (~panic /\ (Step \/ Preempt)) \/ Done

Spec == Init /\ [][Next]_vars

-----------------------------------------------------------------------------
(* The page tables, the frames and the counts of denied writes stay in     *)
(* range, and load() is at a known step.                                   *)
TypeOK ==
  /\ next \in 0 .. Len(prog)
  /\ seg.read \in 0 .. SPACE - 1 /\ seg.zero \in 0 .. SPACE - 1
  /\ free.user \subseteq pool.user /\ free.kern \subseteq pool.kern
  /\ deny.count \in 0 .. 1 /\ deny.flag = (deny.count = 1)

(* When the process starts, every byte of every loadable segment is the    *)
(* byte of the file, or zero past its part of the file, in a page that is  *)
(* writable exactly when the segment is; the stack is a writable page of   *)
(* zeros.                                                                  *)
ImageRight ==
  pc = "run" =>
    LET At(a) == mem[pte[Page(a)].frame][pg_ofs(a) + 1]
    IN  /\ \A i \in DOMAIN prog : prog[i].type = "load" =>
             \A k \in 0 .. prog[i].memsz - 1 :
               LET p == prog[i]
                   a == p.vaddr + k
               IN  /\ a < PHYS_BASE
                   /\ Mapped(Page(a))
                   /\ At(a) = IF k < p.filesz THEN p.offset + k + 1 ELSE 0
                   /\ pte[Page(a)].writable = p.writable
        /\ \A a \in PHYS_BASE - PGSIZE .. PHYS_BASE - 1 : At(a) = 0
        /\ pte[PHYS_BASE - PGSIZE].writable

(* No assertion of load_segment() or of the page tables fails, and the     *)
(* page at address 0 is never mapped, whatever the program headers say.    *)
HeadersContained == ~panic /\ pte[0] = NotPresent

(* Every user frame that is not free is mapped at one place, and every     *)
(* kernel frame that is not is the directory or the table of one entry: no *)
(* path, of success or of failure, leaks a frame or frees it twice.        *)
FramesAccounted ==
  LET dir == IF pagedir # 0 THEN pagedir ELSE dying
      held == {a \in UserPages : Mapped(a)}
      tabs == {i \in DOMAIN pd : pd[i] # 0}
      ownsDir == pc \notin {"create", "dead"} /\ dir # 0
  IN  /\ {pte[a].frame : a \in held} = pool.user \ free.user
      /\ \A a, b \in held : a # b => pte[a].frame # pte[b].frame
      /\ {pd[i] : i \in tabs} \cup (IF ownsDir THEN {dir} ELSE {}) = pool.kern \ free.kern
      /\ pc = "dead" => free = pool

(* The processor never uses a page directory that has been freed, at       *)
(* whatever moment of process_exit() a timer interrupt switches threads.   *)
ActiveAlive == active # 0 => active \in pool.kern \ free.kern

(* Writes to the executable are denied from the start of the process to    *)
(* its end, and allowed again after a failed load and after the exit.      *)
DeniedWhileRunning ==
  /\ pc = "run" => file = "open" /\ deny.count = 1
  /\ pc = "dead" => file # "open" /\ deny.count = 0
=============================================================================
