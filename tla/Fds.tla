-------------------------------- MODULE Fds --------------------------------
(***************************************************************************)
(* Open files: the file system calls of userprog/syscall.c with the        *)
(* fd_list of a thread (threads/thread.c), the list fds_ll of all fd_lists *)
(* and the removing_list of files to be removed once nobody uses them.     *)
(* The calls of different processes interleave wherever one can be         *)
(* preempted between two accesses to shared state.                         *)
(*                                                                         *)
(* A process is named by the page of its struct thread, which is freed     *)
(* when it ends and may be given to the next process.  The kernel keeps    *)
(* file names as pointers into the memory of the process that passed them  *)
(* and reads them in the memory of whichever process runs: Text[p][a] is   *)
(* the string at address a in process p.  A struct file is named by the    *)
(* descriptor it was opened with.  The file system is abstracted to a      *)
(* directory of inodes with a size.                                        *)
(***************************************************************************)
EXTENDS Integers, FiniteSets, SequencesExt

CONSTANTS
  Page, Addr, Name,
  EMPTY,                  \* a string of length 0
  LONG,                   \* a string of more than MAX_FILE_NAME_LENGTH characters
  Text,
  THREAD_FILES_MAX,
  MAX_FILE_CREATION_SIZE,
  MaxFd, MaxIno,          \* bounds on the files ever opened and created
  Own,                    \* whether processes use only descriptors they opened
  Tidy                    \* whether processes close their files before they end

NONE == -1
Fd == 2 .. MaxFd
Ino == 1 .. MaxIno

VARIABLES
  live,           \* the pages that hold a thread
  fd_list,        \* fd_list[p], a sequence of fd_elem
  fds_ll,         \* the pages whose fd_list the stubs point to
  removing_list,
  global_fd,
  rw_sema,
  pc, reg,        \* where p is in a system call, and its locals: a file and a name or thread
  files,          \* the open struct files: inode and position
  dir, size       \* the directory, and the size of every inode created

lists == <<fd_list, fds_ll, removing_list, global_fd>>
disk == <<dir, size>>
vars == <<live, lists, rw_sema, pc, reg, files, disk>>

Idle == [fd |-> NONE, of |-> NONE]
PC == {"user", "open", "rw", "io", "close_unlink", "close_file", "fault"}

(* The lists of open files and of removal requests hold only what the      *)
(* system calls put there, and every open descriptor names an inode and a  *)
(* position.                                                               *)
TypeOK ==
  /\ live \subseteq Page
  /\ \A p \in Page : fd_list[p] \in Seq([fd : Fd, name : Addr])
  /\ fds_ll \in Seq(Page)
  /\ removing_list \in Seq([fd : Fd \cup {NONE}, name : Addr, t : Page])
  /\ global_fd \in 2 .. MaxFd + 1
  /\ rw_sema \in 0 .. 1
  /\ pc \in [Page -> PC]
  /\ DOMAIN files \subseteq Fd
  /\ \A f \in DOMAIN files : files[f] \in [ino : Ino, pos : Nat]
  /\ dir \in [Name -> Ino \cup {0}]
  /\ size \in Seq(0 .. MAX_FILE_CREATION_SIZE)

Init ==
  /\ live = {} /\ fd_list = [p \in Page |-> <<>>]
  /\ fds_ll = <<>> /\ removing_list = <<>> /\ global_fd = 2 /\ rw_sema = 1
  /\ pc = [p \in Page |-> "user"] /\ reg = [p \in Page |-> Idle]
  /\ files = <<>> /\ dir = [n \in Name |-> 0] /\ size = <<>>

-----------------------------------------------------------------------------
(* Lookups.  A walk of fds_ll that meets the stub of a freed page before   *)
(* it finds what it wants follows pointers of 0xcc and faults for ever.    *)

Fds(p) == {fd_list[p][i].fd : i \in DOMAIN fd_list[p]}

FirstStub(wanted) ==
  LET hit == {i \in DOMAIN fds_ll : fds_ll[i] \notin live \/ fds_ll[i] \in wanted}
  IN  IF hit = {} THEN 0 ELSE Min(hit)

Walk(wanted) ==
  LET i == FirstStub(wanted)
  IN  IF i = 0 THEN "none" ELSE IF fds_ll[i] \in live THEN "found" ELSE "fault"

get_file_p(fd) == Walk({p \in live : fd \in Fds(p)})

get_thread_by_fd(fd) == {p \in live : fd \in Fds(p)}

Same(p, a, b) == Text[p][a] = Text[p][b]

NamedSo(p, a, q) == \E i \in DOMAIN fd_list[q] : Same(p, a, fd_list[q][i].name)

filesize(fd) == size[files[fd].ino]

tell(fd) == IF get_file_p(fd) = "found" THEN files[fd].pos ELSE NONE

(* What filesys_remove() does to the directory.                            *)
Unlinked(n) == IF n \in Name THEN [dir EXCEPT ![n] = 0] ELSE dir

-----------------------------------------------------------------------------
(* Processes start, and end by exit() (release_resource() does the same)   *)
(* or, when an exception kills them, by thread_exit() alone.               *)

Start(p) ==
  /\ p \notin live
  /\ live' = live \cup {p}
  /\ fd_list' = [fd_list EXCEPT ![p] = <<>>]
  /\ pc' = [pc EXCEPT ![p] = "user"]
  /\ UNCHANGED <<fds_ll, removing_list, global_fd, rw_sema, reg, files, disk>>

In(p, place) == p \in live /\ pc[p] = place

exit(p) ==
  /\ In(p, "user")
  /\ Tidy => fd_list[p] = <<>>
  /\ fd_list' = [fd_list EXCEPT ![p] = <<>>]
  /\ removing_list' = SelectSeq(removing_list, LAMBDA r : r.t # p)
  /\ live' = live \ {p}
  /\ UNCHANGED <<fds_ll, global_fd, rw_sema, pc, reg, files, disk>>

kill(p) ==
  /\ In(p, "user")
  /\ Tidy => fd_list[p] = <<>>
  /\ live' = live \ {p}
  /\ UNCHANGED <<lists, rw_sema, pc, reg, files, disk>>

-----------------------------------------------------------------------------
create(p, a, initial_size) ==
  /\ In(p, "user")
  /\ LET n == Text[p][a]
         ok == /\ initial_size <= MAX_FILE_CREATION_SIZE
               /\ n \in Name /\ dir[n] = 0 /\ Len(size) < MaxIno
     IN  /\ dir' = IF ok THEN [dir EXCEPT ![n] = Len(size) + 1] ELSE dir
         /\ size' = IF ok THEN Append(size, initial_size) ELSE size
  /\ UNCHANGED <<live, lists, rw_sema, pc, reg, files>>

already_in_removing_list(p, list, a, fd) ==
  \E i \in DOMAIN list :
     /\ list[i].t = p /\ Same(p, a, list[i].name)
     /\ fd = NONE \/ list[i].fd = fd

AddRequest(p, list, a, fd) ==
  IF already_in_removing_list(p, list, a, fd) THEN list
  ELSE Append(list, [fd |-> fd, name |-> a, t |-> p])

(* The requests is_referred() records for a file that is in use: one for   *)
(* each descriptor the caller has of it, or one without a descriptor.      *)
Requests(p, a) ==
  LET own == SelectSeq(fd_list[p], LAMBDA e : Same(p, a, e.name))
  IN  IF own = <<>> THEN AddRequest(p, removing_list, a, NONE)
      ELSE FoldLeft(LAMBDA list, e : AddRequest(p, list, a, e.fd), removing_list, own)

is_referred(p, a) == Walk({q \in live : NamedSo(p, a, q)})

remove(p, a) ==
  /\ In(p, "user")
  /\ LET referred == is_referred(p, a)
     IN  /\ removing_list' = IF referred = "found" THEN Requests(p, a) ELSE removing_list
         /\ dir' = IF referred = "none" THEN Unlinked(Text[p][a]) ELSE dir
         /\ pc' = IF referred = "fault" THEN [pc EXCEPT ![p] = "fault"] ELSE pc
  /\ UNCHANGED <<live, fd_list, fds_ll, global_fd, rw_sema, reg, files, size>>

(* open() reads removing_list before it takes fd_lock.                     *)
open(p, a) ==
  /\ In(p, "user")
  /\ Text[p][a] # EMPTY
  /\ ~ \E i \in DOMAIN removing_list : Same(p, a, removing_list[i].name)
  /\ global_fd + Cardinality({q \in live : pc[q] = "open"}) <= MaxFd
  /\ pc' = [pc EXCEPT ![p] = "open"] /\ reg' = [reg EXCEPT ![p].of = a]
  /\ UNCHANGED <<live, lists, rw_sema, files, disk>>

thread_add_fd(p, fd, a) ==
  IF Len(fd_list[p]) < THREAD_FILES_MAX
  THEN [fd_list EXCEPT ![p] = Append(@, [fd |-> fd, name |-> a])]
  ELSE fd_list

(* The part of open() under fd_lock.  A full fd_list that holds one file   *)
(* gets no second stub: thread_add_fd() has returned NULL.                 *)
OpenLocked(p) ==
  /\ In(p, "open")
  /\ LET a == reg[p].of
         n == Text[p][a]
         added == Len(fd_list[p]) < THREAD_FILES_MAX
     IN  IF n \in Name /\ dir[n] # 0
         THEN /\ global_fd' = global_fd + 1
              /\ files' = [f \in DOMAIN files \cup {global_fd} |->
                             IF f = global_fd THEN [ino |-> dir[n], pos |-> 0] ELSE files[f]]
              /\ fd_list' = thread_add_fd(p, global_fd, a)
              /\ fds_ll' = IF added /\ Len(fd_list'[p]) = 1 THEN Append(fds_ll, p) ELSE fds_ll
         ELSE UNCHANGED <<global_fd, files, fd_list, fds_ll>>
  /\ pc' = [pc EXCEPT ![p] = "user"] /\ reg' = [reg EXCEPT ![p] = Idle]
  /\ UNCHANGED <<live, removing_list, rw_sema, disk>>

-----------------------------------------------------------------------------
(* The descriptors a process passes to a call.                             *)
Passed(p, fd) == Own => fd \in Fds(p)

(* A call that goes on to the file of fd at the given place, returns at    *)
(* once if there is none, or faults in get_file_p().                       *)
Find(p, fd, place) ==
  /\ In(p, "user") /\ Passed(p, fd)
  /\ pc' = [pc EXCEPT ![p] = CASE get_file_p(fd) = "found" -> place
                               [] get_file_p(fd) = "fault" -> "fault"
                               [] OTHER -> "user"]
  /\ reg' = [reg EXCEPT ![p].fd = IF pc'[p] = place THEN fd ELSE NONE]
  /\ UNCHANGED <<live, lists, rw_sema, files, disk>>

(* read() and write() have found the file and wait for rw_sema.            *)
read_write(p, fd) == Find(p, fd, "rw")

sema_down(p) ==
  /\ In(p, "rw") /\ rw_sema > 0
  /\ rw_sema' = rw_sema - 1 /\ pc' = [pc EXCEPT ![p] = "io"]
  /\ UNCHANGED <<live, lists, reg, files, disk>>

(* file_read() or file_write() of length bytes, and sema_up().  If fd has  *)
(* been closed meanwhile, the freed struct file is not touched here: that  *)
(* is what NoUseAfterClose excludes.                                       *)
Transfer(p, length) ==
  /\ In(p, "io")
  /\ LET f == reg[p].fd
         n == Min({length, Max({0, filesize(f) - files[f].pos})})
     IN  files' = IF f \in DOMAIN files THEN [files EXCEPT ![f].pos = @ + n] ELSE files
  /\ rw_sema' = rw_sema + 1
  /\ pc' = [pc EXCEPT ![p] = "user"] /\ reg' = [reg EXCEPT ![p] = Idle]
  /\ UNCHANGED <<live, lists, disk>>

seek(p, fd, position) ==
  /\ In(p, "user") /\ Passed(p, fd)
  /\ pc' = IF get_file_p(fd) = "fault" THEN [pc EXCEPT ![p] = "fault"] ELSE pc
  /\ files' = IF get_file_p(fd) = "found" THEN [files EXCEPT ![fd].pos = position] ELSE files
  /\ UNCHANGED <<live, lists, rw_sema, reg, disk>>

-----------------------------------------------------------------------------
close(p, fd) == Find(p, fd, "close_unlink")

thread_remove_fd(t, fd) == [fd_list EXCEPT ![t] = SelectSeq(@, LAMBDA e : e.fd # fd)]

(* The first stub of t goes when its fd_list is empty.                     *)
DropStub(t, empty) ==
  IF empty /\ t \in ToSet(fds_ll)
  THEN RemoveAt(fds_ll, Min({i \in DOMAIN fds_ll : fds_ll[i] = t})) ELSE fds_ll

Unlink(p) ==
  /\ In(p, "close_unlink")
  /\ \/ \E t \in get_thread_by_fd(reg[p].fd) :
          /\ fd_list' = thread_remove_fd(t, reg[p].fd)
          /\ fds_ll' = DropStub(t, fd_list'[t] = <<>>)
          /\ reg' = [reg EXCEPT ![p].of = t]
     \/ /\ get_thread_by_fd(reg[p].fd) = {}
        /\ UNCHANGED <<fd_list, fds_ll, reg>>
  /\ pc' = [pc EXCEPT ![p] = "close_file"]
  /\ UNCHANGED <<live, removing_list, global_fd, rw_sema, files, disk>>

(* After file_close(): the owner's request for fd goes, and the file with  *)
(* it if every request that is left, for whatever file, has no descriptor. *)
Settle(p, fd, t) ==
  LET mine == {i \in DOMAIN removing_list : removing_list[i].fd = fd /\ removing_list[i].t = t}
  IN  IF mine = {} THEN UNCHANGED <<removing_list, dir>>
      ELSE /\ removing_list' = RemoveAt(removing_list, Min(mine))
           /\ dir' = IF \A i \in DOMAIN removing_list' : removing_list'[i].fd = NONE
                     THEN Unlinked(Text[p][removing_list[Min(mine)].name]) ELSE dir

MutCloseFile(p) ==
  /\ In(p, "close_file")
  /\ Settle(p, reg[p].fd, reg[p].of)
  /\ pc' = [pc EXCEPT ![p] = "user"] /\ reg' = [reg EXCEPT ![p] = Idle]
  /\ UNCHANGED <<live, fd_list, fds_ll, global_fd, rw_sema, files, size>>

CloseFile(p) ==
  /\ In(p, "close_file")
  /\ files' = [f \in DOMAIN files \ {reg[p].fd} |-> files[f]]
  /\ Settle(p, reg[p].fd, reg[p].of)
  /\ pc' = [pc EXCEPT ![p] = "user"] /\ reg' = [reg EXCEPT ![p] = Idle]
  /\ UNCHANGED <<live, fd_list, fds_ll, global_fd, rw_sema, size>>

-----------------------------------------------------------------------------
Next ==
  \E p \in Page :
    \/ Start(p) \/ exit(p) \/ kill(p)
    \/ \E a \in Addr : remove(p, a) \/ open(p, a)
    \/ \E a \in Addr, s \in 1 .. MAX_FILE_CREATION_SIZE + 1 : create(p, a, s)
    \/ OpenLocked(p)
    \/ \E fd \in Fd : read_write(p, fd) \/ close(p, fd)
    \/ \E fd \in Fd, n \in 0 .. MAX_FILE_CREATION_SIZE : seek(p, fd, n)
    \/ sema_down(p) \/ Unlink(p) \/ CloseFile(p)
    \/ \E n \in 1 .. MAX_FILE_CREATION_SIZE : Transfer(p, n)

Spec == Init /\ [][Next]_vars

-----------------------------------------------------------------------------
(* The file p is between thread_remove_fd() and file_close() with.         *)
Closing == {reg[p].fd : p \in {q \in Page : pc[q] = "close_file"}}

(* Every descriptor of a running process is reached through fds_ll, has    *)
(* one owner, and leads to its own file: what get_file_p() and             *)
(* get_thread_by_fd() rely on after any sequence of opens and closes.      *)
Findable ==
  \A p \in live : \A fd \in Fds(p) :
    /\ get_file_p(fd) = "found" /\ get_thread_by_fd(fd) = {p}
    /\ tell(fd) # NONE /\ filesize(fd) \in 0 .. MAX_FILE_CREATION_SIZE

(* The open struct files are exactly the ones in the fd_list of a running  *)
(* process or being closed, and every stub leads to a running process:     *)
(* close() and exit() leave nothing behind, and open() stores what it has  *)
(* opened.                                                                 *)
FilesHeld ==
  /\ DOMAIN files = UNION {Fds(p) : p \in live} \cup Closing
  /\ \A i \in DOMAIN fds_ll : fds_ll[i] \in live /\ fd_list[fds_ll[i]] # <<>>

(* No call still holds, across its wait for rw_sema or between the steps   *)
(* of close(), a struct file that has been freed.                          *)
NoUseAfterClose ==
  \A p \in Page :
    pc[p] \in {"rw", "io", "close_unlink", "close_file"} => reg[p].fd \in DOMAIN files

(* A request to remove a file that names a descriptor names one that its   *)
(* process still holds: close() settles it, so no later file is removed in *)
(* its stead.                                                              *)
RequestsHeld ==
  \A i \in DOMAIN removing_list :
    LET r == removing_list[i] IN r.fd # NONE => r.fd \in Fds(r.t) \cup Closing
=============================================================================
