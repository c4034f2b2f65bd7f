------------------------------ MODULE MCFiles ------------------------------
(***************************************************************************)
(* Starting programs, system calls, file descriptors, the file system and  *)
(* archives.  Each behaviour is about one of them: part says which.  The   *)
(* part "filesys" is module Filesys itself, whose variables stay as they   *)
(* are initially in the other parts.  The variables of another part are    *)
(* the first of v1, v2, ...; the rest are 0.                               *)
(***************************************************************************)
EXTENDS Filesys, SequencesExt, TLC

CONSTANTS Parts,           \* the parts that are checked
          Tidy,            \* processes close their files before they end
          Procs,           \* processes
          a1, a2, a3, a4,  \* addresses of names in a process
          n1, n2,          \* names of files
          EMPTY, LONG      \* a name that is too short, and one too long

VARIABLES part, v1, v2, v3, v4, v5, v6, v7, v8, v9, v10, v11, v12, v13, v14, v15

vs == <<v1, v2, v3, v4, v5, v6, v7, v8, v9, v10, v11, v12, v13, v14, v15>>

\* The variables after the first n, where only n are used.
Rest4 == <<v5, v6, v7, v8, v9, v10, v11, v12, v13, v14, v15>>
Rest6 == <<v7, v8, v9, v10, v11, v12, v13, v14, v15>>
Rest10 == <<v11, v12, v13, v14, v15>>
Rest11 == <<v12, v13, v14, v15>>

Idle11 == v12 = 0 /\ v13 = 0 /\ v14 = 0 /\ v15 = 0
Idle10 == v11 = 0 /\ Idle11
Idle6 == v7 = 0 /\ v8 = 0 /\ v9 = 0 /\ v10 = 0 /\ Idle10
Idle4 == v5 = 0 /\ v6 = 0 /\ Idle6
Idle0 == v1 = 0 /\ v2 = 0 /\ v3 = 0 /\ v4 = 0 /\ Idle4

-----------------------------------------------------------------------------
(* Open files of two processes whose memory holds the same names at the    *)
(* same addresses, so that the processes are interchangeable.              *)
Text ==
  [p \in Procs |-> [a \in {a1, a2, a3, a4} |->
     CASE a = a1 -> n1 [] a = a2 -> n2 [] a = a3 -> EMPTY [] OTHER -> LONG]]

\* The first two names are interchangeable, together with their addresses.
Swap == (a1 :> a2) @@ (a2 :> a1) @@ (n1 :> n2) @@ (n2 :> n1)

Symmetry == Permutations(Procs) \cup Permutations(Name) \cup {Swap}

\* Processes use their own descriptors.
F == INSTANCE Fds WITH Page <- Procs, Addr <- {a1, a2, a3, a4}, Name <- {n1, n2},
       THREAD_FILES_MAX <- 3, MAX_FILE_CREATION_SIZE <- 1, MaxFd <- 3, MaxIno <- 2,
       Own <- TRUE, Tidy <- Tidy,
       live <- v1, fd_list <- v2, fds_ll <- v3, removing_list <- v4, global_fd <- v5,
       rw_sema <- v6, pc <- v7, reg <- v8, files <- v9, dir <- v10, size <- v11

\* A process may pass any descriptor, so two closes of one can overlap.
S == INSTANCE Fds WITH Page <- Procs, Addr <- {a1, a2}, Name <- {n1, n2},
       THREAD_FILES_MAX <- 3, MAX_FILE_CREATION_SIZE <- 1, MaxFd <- 3, MaxIno <- 1,
       Own <- FALSE, Tidy <- TRUE,
       live <- v1, fd_list <- v2, fds_ll <- v3, removing_list <- v4, global_fd <- v5,
       rw_sema <- v6, pc <- v7, reg <- v8, files <- v9, dir <- v10, size <- v11

(* Files of two sectors and of half a sector.                              *)
Length == <<4, 1>>

I == INSTANCE Inode WITH BLOCK_SECTOR_SIZE <- 2, Byte <- {0, 1}, MaxSize <- 3, Oom <- FALSE,
       disk <- v1, pos <- v2, deny_write_cnt <- v3, done <- v4

(* Archives of a file of one sector, one of two and an empty one, on a     *)
(* device that two of them and the end of the archive just fill.           *)
Chunks == [a |-> 1, b |-> 2, e |-> 0]
Archives == {<<>>, <<"a">>, <<"d", "b">>, <<"b", "e">>, <<"e", "a">>}

A == INSTANCE Archive WITH Files <- {"a", "b", "e"}, DevSize <- 6,
       Actions <- {"extract", "append"}, MaxRuns <- 4,
       dev <- v1, fs <- v2, ex <- v3, ap <- v4, pc <- v5, cur <- v6, pos <- v7, runs <- v8,
       appended <- v9, clean <- v10, panic <- v11

(* System calls: four user pages of eight bytes below one of the kernel's. *)
(* Stack pointers are on, next to and across the boundaries of pages, at   *)
(* the top of the user's memory and past it, at 0 and at the end.          *)
Mappings == {{2, 3}, {1, 3}}
Stacks == {0, 4, 8, 10, 16, 17, 20, 28, 30, 32}

C == INSTANCE Syscall WITH PGSIZE <- 8, PHYS_BASE <- 32, Top <- 40,
       Numbers <- {0, 1, 4, 6, 9, 12, 13}, Words <- {0, 6, 27, 32}, Results <- {7, 8},
       mapped <- v1, esp <- v2, words <- v3, pc <- v4, number <- v5, args <- v6, eax <- v7,
       asked <- v8, made <- v9, exit_code <- v10

(* Executables: pages of two bytes, eight pages of which six are the       *)
(* user's, tables of two entries.  Every single segment there can be, and  *)
(* pairs of segments apart, adjacent, on one page, or where the stack is.  *)
FileLen == 5
SPACE == 16

Seg(type, offset, vaddr, filesz, memsz, writable) ==
  [type |-> type, offset |-> offset, vaddr |-> vaddr, filesz |-> filesz,
   memsz |-> memsz, writable |-> writable]

Singles ==
  {<<Seg("load", o, v, fs, ms, FALSE)>> :
     o \in {0, 1, 3, FileLen, FileLen + 1}, v \in {0, 1, 2, 3, 6, 10, 11, 12, SPACE - 1},
     fs \in {0, 1, 3, 6, SPACE - 1}, ms \in {0, 1, 3, 5, SPACE - 3, SPACE - 2, SPACE - 1}}

Several ==
  {Seg("load", 1, 3, 2, 2, FALSE), Seg("load", 0, 4, 1, 3, TRUE),
   Seg("load", 2, 8, 0, 1, TRUE), Seg("load", 0, 10, 1, 1, TRUE),
   Seg("ignore", 0, 0, 0, 0, FALSE), Seg("refuse", 0, 0, 0, 0, FALSE)}

Programs == Singles \cup {<<a, b>> : a, b \in Several}

L == INSTANCE Load WITH PGSIZE <- 2, PHYS_BASE <- 12, PTES <- 2,
       UserFrames <- {1, 4}, KernFrames <- {1, 4},
       pc <- v1, prog <- v2, next <- v3, seg <- v4, pool <- v5, free <- v6, mem <- v7,
       pagedir <- v8, pd <- v9, pte <- v10, active <- v11, dying <- v12, file <- v13,
       deny <- v14, panic <- v15

(* Command lines: the real bounds of the matrix, with words at the limits  *)
(* of length, and as many words as fit, one fewer and one more.            *)
Words(name, len, n) == [i \in 1 .. n |-> [name |-> name, len |-> len]]

ArgsLines ==
  {Words("w", len, n) : len \in {3, 126}, n \in {1, 29, 30, 31}}
    \cup {Words("x", 200, 20), Words("a", 1, 1) \o Words("x", 127, 1) \o Words("b", 2, 2)}

G == INSTANCE Args WITH Procs <- {1, 2}, Lines <- ArgsLines, COMMAND_WIDTH <- 30,
       COMMAND_LENGTH <- 128, PGSIZE <- 4096, Alone <- TRUE,
       command <- v1, line <- v2, rest <- v3, row <- v4, pc <- v5, stack <- v6

(* Headers of archives: all names of up to three bytes from a letter, a dot *)
(* and a slash, and one of five letters; sizes at the limits of a field of *)
(* three digits.                                                           *)
UstarNames == BoundedSeq({97, 46, 47}, 3) \cup {[i \in 1 .. 5 |-> 97]}

U == INSTANCE Ustar WITH NAME <- 5, SIZE <- 4, CHKSUM <- 6, ULONG_MAX <- 65535, INT_MAX <- 400,
       Names <- UstarNames, Sizes <- {0, 7, 63, 64, 400}, Noise <- {0, 46, 49, 97},
       file <- v1, header <- v2, damage <- v3, result <- v4

-----------------------------------------------------------------------------
MCInit ==
  /\ part \in Parts
  /\ Init
  /\ \/ part = "filesys" /\ Idle0
     \/ part = "fds" /\ F!Init /\ Idle11
     \/ part = "fds_shared" /\ S!Init /\ Idle11
     \/ part = "inode" /\ I!Init /\ Idle4
     \/ part = "archive" /\ A!Init /\ Idle11
     \/ part = "syscall" /\ C!Init /\ Idle10
     \/ part = "load" /\ L!Init
     \/ part = "args" /\ G!Init /\ Idle6
     \/ part = "ustar" /\ U!Init /\ Idle4

MCNext ==
  /\ UNCHANGED part
  /\ \/ part = "filesys" /\ Next /\ UNCHANGED vs
     \/ /\ UNCHANGED vars
        /\ \/ part = "fds" /\ F!Next /\ UNCHANGED Rest11
           \/ part = "fds_shared" /\ S!Next /\ UNCHANGED Rest11
           \/ part = "inode" /\ I!Next /\ UNCHANGED Rest4
           \/ part = "archive" /\ A!Next /\ UNCHANGED Rest11
           \/ part = "syscall" /\ C!Next /\ UNCHANGED Rest10
           \/ part = "load" /\ L!Next
           \/ part = "args" /\ G!Next /\ UNCHANGED Rest6
           \/ part = "ustar" /\ U!Next /\ UNCHANGED Rest4
           \/ part \in {"args", "ustar"} /\ UNCHANGED vs  \* words and headers end

MCSpec == MCInit /\ [][MCNext]_<<part, vars, vs>>

(* In the file system, inodes on disk that neither the directory nor a     *)
(* call names, and the rest of an entry that is not in use, are never read *)
(* again; of a transfer, what the last step did is not.                    *)
View ==
  LET read(es, calls, ds) ==
        LET named == {e.sector : e \in {f \in Range(es) : f.in_use}} \cup {c.sector : c \in Range(calls)}
        IN  <<[s \in named \cap DOMAIN ds |-> ds[s]],
              [s \in DOMAIN es |-> IF es[s].in_use THEN es[s] ELSE Unused]>>
  IN  CASE part = "filesys" -> <<part, read(entries, loc, disk_inode), disk_map, memory, pc, loc, panic>>
        [] part = "inode" -> <<part, v1, v2, v3>>
        [] OTHER -> <<part, vs>>

-----------------------------------------------------------------------------
(* Every descriptor of a running process is found by get_file_p() and      *)
(* get_thread_by_fd() after any sequence of opens and closes, also when    *)
(* two processes close one descriptor at the same time.  A request in      *)
(* removing_list names a descriptor its process still holds.  The open     *)
(* struct files are those of running processes, and no call holds a freed  *)
(* one across its wait for rw_sema or between the steps of close().        *)
DescriptorsSound ==
  /\ part = "fds" => /\ F!TypeOK /\ F!Findable /\ F!RequestsHeld
                     /\ F!FilesHeld /\ F!NoUseAfterClose
  /\ part = "fds_shared" => S!TypeOK /\ S!Findable /\ S!RequestsHeld

(* "close all the files opened" (userprog/syscall.c:309): the struct files *)
(* that are open belong to running processes.                              *)
ExitClosesFiles == part = "fds" => F!FilesHeld

(* A read returns the content of the file and advances the position, a     *)
(* write changes the bytes it reports as written and nothing else, and a   *)
(* transfer is short only at the end of the file or where writes are       *)
(* denied (filesys/inode.c, file.c).                                       *)
ContentRight ==
  /\ [](part = "inode" => I!TypeOK)
  /\ [][part = "inode" => I!ReadsContent /\ I!WritesOnlyItsBytes /\ I!ShortOnlyAtEnd]_<<part, vs>>

(* The archive on the scratch device lists the appended files, in order    *)
(* and with the contents they have.  When fsutil_extract() is about to     *)
(* erase the archive, every file it has passed is in the file system, and  *)
(* extracting again in another run of the machine finds an empty archive   *)
(* and leaves the files as they are.                                       *)
ArchiveSound ==
  /\ [](part = "archive" => A!TypeOK /\ A!ArchiveReadable /\ A!Extracted)
  /\ [][part = "archive" => A!AgainAfterBoot]_<<part, vs>>

(* The call a stub of lib/user/syscall.c was asked for is the call the     *)
(* kernel makes, with the same arguments in the same order.  A call all    *)
(* bytes of which are mapped is refused only for a pointer among its       *)
(* arguments, a call whose words are not all the user's records -1 before  *)
(* it is made, and none is made with a pointer that is null, the kernel's  *)
(* or unmapped.                                                            *)
CallsRight ==
  part = "syscall" => /\ C!TypeOK /\ C!StubAndKernelAgree
                      /\ C!SplitWordsServed /\ C!BadWordsMarked /\ C!PointersMapped

(* When a process starts, its memory is what the program headers say; no   *)
(* headers make an assertion fail or map the page at address 0.  No path   *)
(* through load() and process_exit() leaks a frame or frees it twice, the  *)
(* processor never uses a freed page directory, and writes to the          *)
(* executable are denied exactly while the process runs.                   *)
LoadSound ==
  part = "load" => /\ L!TypeOK /\ L!ImageRight /\ L!HeadersContained
                   /\ L!FramesAccounted /\ L!ActiveAlive /\ L!DeniedWhileRunning

(* The stack a process starts on follows the calling convention and never  *)
(* leaves its page, and processes that start one after another find their  *)
(* own words at the start of argv, whatever earlier ones have left in the  *)
(* matrix (userprog/process.c).  An intact archive header parses as what   *)
(* it was made for, one with a damaged byte so or not at all, and no name  *)
(* in it leads out of the directory (lib/ustar.c).                         *)
ParsersRight ==
  /\ part = "args" => G!TypeOK /\ G!StackFormed /\ G!FitsInPage /\ G!OwnWordsFirst
  /\ part = "ustar" => U!TypeOK /\ U!ParsesWhatWasMade /\ U!StaysInside
=============================================================================
