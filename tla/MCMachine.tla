----------------------------- MODULE MCMachine -----------------------------
(***************************************************************************)
(* Parts of the kernel that are checked on their own: blocks of memory,    *)
(* interrupts, the drivers of devices, and the sequential algorithms of    *)
(* the library.  Each behaviour is about one of them: part says which.     *)
(* The part "ide" is module Ide itself, whose variables stay as they are   *)
(* initially in the other parts.  The variables of another part are the    *)
(* first of v1, v2, ...; the rest are 0.                                   *)
(***************************************************************************)
EXTENDS Ide, FiniteSets, TLC

VARIABLES part, v1, v2, v3, v4, v5, v6, v7, v8, v9, v10, v11, v12, v13, v14, v15

vs == <<v1, v2, v3, v4, v5, v6, v7, v8, v9, v10, v11, v12, v13, v14, v15>>

\* The variables after the first n, where only n are used.
Rest1 == <<v2, v3, v4, v5, v6, v7, v8, v9, v10, v11, v12, v13, v14, v15>>
Rest4 == <<v5, v6, v7, v8, v9, v10, v11, v12, v13, v14, v15>>
Rest5 == <<v6, v7, v8, v9, v10, v11, v12, v13, v14, v15>>
Rest6 == <<v7, v8, v9, v10, v11, v12, v13, v14, v15>>
Rest7 == <<v8, v9, v10, v11, v12, v13, v14, v15>>
Rest8 == <<v9, v10, v11, v12, v13, v14, v15>>
Rest9 == <<v10, v11, v12, v13, v14, v15>>

Idle9 == v10 = 0 /\ v11 = 0 /\ v12 = 0 /\ v13 = 0 /\ v14 = 0 /\ v15 = 0
Idle8 == v9 = 0 /\ Idle9
Idle7 == v8 = 0 /\ Idle8
Idle6 == v7 = 0 /\ Idle7
Idle5 == v6 = 0 /\ Idle6
Idle4 == v5 = 0 /\ Idle5
Idle1 == v2 = 0 /\ v3 = 0 /\ v4 = 0 /\ Idle4
Idle0 == v1 = 0 /\ Idle1

Symmetry == Permutations(Thread)

-----------------------------------------------------------------------------
(* Blocks: two sizes, two blocks and one in an arena, three pages.         *)
Ma == INSTANCE Malloc WITH Page <- {1, 2, 3}, PGSIZE <- 14, ARENA <- 7,
       MinBlock <- 3, SIZE_MAX <- 255, Sizes <- {3, 4}, Factors <- {3},
       arena <- v1, avail <- v2, free_list <- v3, lock <- v4, live <- v5, pc <- v6, req <- v7,
       blk <- v8, d <- v9

(* The serial port: one thread writes and one reads.                       *)
S == INSTANCE Serial WITH Writer <- {"w"}, Reader <- {"r"}, INTQ_BUFSIZE <- 3, MaxOut <- 4,
       MaxIn <- 4, mode <- v1, txq <- v2, buffer <- v3, lock <- v4, waiter <- v5, sleepers <- v6, pc <- v7,
       ier <- v8, thr <- v9, rbr <- v10, put <- v11, wire <- v12, come <- v13, got <- v14,
       panic <- v15

\* Two readers.
R == INSTANCE Serial WITH Writer <- {}, Reader <- {"r", "s"}, INTQ_BUFSIZE <- 3, MaxOut <- 0,
       MaxIn <- 5, mode <- v1, txq <- v2, buffer <- v3, lock <- v4, waiter <- v5, sleepers <- v6, pc <- v7,
       ier <- v8, thr <- v9, rbr <- v10, put <- v11, wire <- v12, come <- v13, got <- v14,
       panic <- v15

(* The console: calls nest twice, panics three times.                      *)
C == INSTANCE Console WITH MaxChars <- 2, MaxNest <- 2, MaxLevel <- 3,
       use_console_lock <- v1, holder <- v2, console_lock_depth <- v3, calls <- v4, level <- v5,
       panicked <- v6, halted <- v7, failed <- v8

(* The keyboard: a letter, a digit, Delete plain and prefixed,             *)
(* Caps Lock, the shift keys, and a prefixed key whose plain twin is one.  *)
Keys == {2, 30, 58, 83, 57344 + 83, 57344 + 42, 42, 54, 56, 57344 + 56, 29}

K == INSTANCE Kbd WITH Key <- Keys,
       state_var <- v1, caps_lock <- v2, rebooted <- v3, held <- v4, caps <- v5, typed <- v6

(* Interrupts: the timer's, which preempts, one without a handler, and one *)
(* of the second controller.                                               *)
I == INSTANCE Intr WITH Threads <- Thread, Irqs <- {32, 39, 40}, Handled <- {32, 40}, Preempts <- {32}, MaxDepth <- 2,
       cur <- v1, IF_ <- v2, frames <- v3, level <- v4, in_external_intr <- v5,
       yield_on_return <- v6, pending <- v7, service <- v8, panic <- v9

(* Sleeping: the low word of the count wraps at three.                     *)
Z == INSTANCE Sleep WITH LOW <- 3, Wants <- {0, 1, 2, 4}, MaxTicks <- 7,
       low <- v1, high <- v2, pc <- v3, want <- v4, start <- v5, called <- v6

(* Partitions: a disk of six sectors with every table of two entries in    *)
(* sector 0, and one more table, which an extended partition may point to. *)
Entry == [type : {"extended", "filesys", "empty"}, offset : {0, 1, 3, 6, 7}, size : {0, 1, 3, 6, 7}]

Table(mbr, s, pt) == [i \in 0 .. 5 |-> IF i = 0 THEN mbr ELSE IF i = s THEN pt ELSE <<>>]

Logical == <<[type |-> "swap", offset |-> 1, size |-> 2]>>

PartitionDisks == {Table(<<x, y>>, 3, Logical) : x \in Entry, y \in Entry} \cup {Table(<<>>, 3, Logical)}

B == INSTANCE Partition WITH Disks <- PartitionDisks, WORD <- 8, MaxDepth <- 4,
       disk <- v1, frames <- v2, part_nr <- v3, all_blocks <- v4

(* Calibration: machines of a thousand to two thousand loops a tick.       *)
TimerSpeeds == 1024 .. 2100

T == INSTANCE Timer WITH Speeds <- TimerSpeeds, TIMER_FREQ <- 100,
       TrueLoops <- v1, loops_per_tick <- v2, high_bit <- v3, test_bit <- v4, pc <- v5

(* Lists: four elements with two pairs of equal keys.                      *)
ListsKey == <<1, 2, 1, 2>>

Li == INSTANCE Lists WITH N <- 4, Key <- ListsKey, heap <- v1

(* Hash tables: five elements, two of them equal; keys 0 and 1 collide up  *)
(* to four buckets.                                                        *)
HashKey == <<0, 1, 2, 3, 1>>
HashOfKey == [k \in 0 .. 5 |-> <<0, 4, 3, 1, 2, 6>>[k + 1]]

Ha == INSTANCE Hash WITH N <- 5, Key <- HashKey, HashOf <- HashOfKey,
       MinBuckets <- 1, BEST_ELEMS_PER_BUCKET <- 1,
       buckets <- v1, bucket_cnt <- v2, elem_cnt <- v3, iter <- v4, seen <- v5, destructed <- v6

(* Bitmaps: three bits in words of two.                                    *)
Bi == INSTANCE Bitmap WITH ELEM_BITS <- 2, bit_cnt <- 3,
       bits <- v1, file <- v2, saved <- v3, ret <- v4

(* Division of all pairs of bytes with words of four bits.                 *)
Ar == INSTANCE Arith WITH W <- 4, n <- v1, d <- v2, q <- v3, r <- v4, sq <- v5, sr <- v6, done <- v7

(* Sorting of all arrays of up to six elements of three values.            *)
So == INSTANCE Stdlib WITH MaxCnt <- 6, Value <- {1, 2, 3},
       arr <- v1, input <- v2, i <- v3, phase <- v4, key <- v5, found <- v6

(* All strings in a memory of five bytes of three values.                   *)
St == INSTANCE Strings WITH M <- 5, Char <- {0, 1, 2},
       mem <- v1, before <- v2, op <- v3, ret <- v4, save_ptr <- v5, tokens <- v6

(* Formats: two argument types, values at the ends of both.                *)
PrintfBits == [CHAR |-> 8, INT |-> 14]
PrintfValues == {0, 128, -1, -8192}

Pr == INSTANCE Printf WITH Bits <- PrintfBits, BufSize <- 16, PerLine <- 4, Values <- PrintfValues,
       Widths <- {0, 7, -7}, Precisions <- {-1, 0, 20}, Flags <- {"-", "+", " ", "#", "0", "'"},
       Sizes <- {0, 6},
       fmt <- v1, arg <- v2, size <- v3, out <- v4, buffer <- v5, ret <- v6, rows <- v7, done <- v8

-----------------------------------------------------------------------------
\* What comes to an end: a scan for partitions, a calibration, a machine that
\* restarts or panics, the bytes of the serial port, and what computes one
\* result.
MayStop == {"partition", "timer", "kbd", "console", "serial", "readers",
            "arith", "sort", "strings", "printf"}

MCInit ==
  /\ Init
  /\ \/ part = "ide" /\ (kind[0] = "ata" \/ kind[1] # "faulty") /\ Idle0
     \/ /\ kind = [d \in Disk |-> "ata"]
        /\ \/ part = "malloc" /\ Ma!Init /\ Idle9
           \/ part = "serial" /\ S!Init
           \/ part = "readers" /\ R!Init
           \/ part = "console" /\ C!Init /\ Idle8
           \/ part = "kbd" /\ K!Init /\ Idle6
           \/ part = "intr" /\ I!Init /\ Idle9
           \/ part = "sleep" /\ Z!Init /\ Idle6
           \/ part = "partition" /\ B!Init /\ Idle4
           \/ part = "timer" /\ T!Init /\ Idle5
           \/ part = "lists" /\ Li!Init /\ Idle1
           \/ part = "hash" /\ Ha!Init /\ Idle6
           \/ part = "bitmap" /\ Bi!Init /\ Idle4
           \/ part = "arith" /\ Ar!Init /\ Idle7
           \/ part = "sort" /\ So!Init /\ Idle6
           \/ part = "strings" /\ St!Init /\ Idle6
           \/ part = "printf" /\ Pr!Init /\ Idle8

MCNext ==
  /\ UNCHANGED part
  /\ \/ part = "ide" /\ Next /\ UNCHANGED vs
     \/ part = "ide" /\ (panicked \/ registered = {}) /\ boot = "done" /\ UNCHANGED <<vars, vs>>
     \/ part \in MayStop /\ UNCHANGED <<vars, vs>>
     \/ /\ UNCHANGED vars
        /\ \/ part = "malloc" /\ Ma!Next /\ UNCHANGED Rest9
           \/ part = "serial" /\ S!Next
           \/ part = "readers" /\ R!Next
           \/ part = "console" /\ C!Next /\ UNCHANGED Rest8
           \/ part = "kbd" /\ K!Next /\ UNCHANGED Rest6
           \/ part = "intr" /\ I!Next /\ UNCHANGED Rest9
           \/ part = "sleep" /\ Z!Next /\ UNCHANGED Rest6
           \/ part = "partition" /\ B!Next /\ UNCHANGED Rest4
           \/ part = "timer" /\ T!Next /\ UNCHANGED Rest5
           \/ part = "lists" /\ Li!Next /\ UNCHANGED Rest1
           \/ part = "hash" /\ Ha!Next /\ UNCHANGED Rest6
           \/ part = "bitmap" /\ Bi!Next /\ UNCHANGED Rest4
           \/ part = "arith" /\ Ar!Next /\ UNCHANGED Rest7
           \/ part = "sort" /\ So!Next /\ UNCHANGED Rest6
           \/ part = "strings" /\ St!Next /\ UNCHANGED Rest6
           \/ part = "printf" /\ Pr!Next /\ UNCHANGED Rest8

MCSpec == MCInit /\ [][MCNext]_<<part, vars, vs>>

\* States are told apart by the lists in both directions: what an element that
\* is in no list points to is never read.  Nor is the last result of a scan of
\* a bitmap.
View ==
  CASE part = "ide" -> <<part, vars>>
    [] part = "lists" ->
         <<part, [l \in Li!List |-> <<Li!seq(v1, l), Li!WalkBack(v1, Li!list_back(v1, l), 5)>>]>>
    [] part = "bitmap" -> <<part, v1, v2, v3>>
    [] OTHER -> <<part, vs>>

-----------------------------------------------------------------------------
(* No byte belongs to two blocks of malloc(), used or free, or to a header *)
(* or a free page, and a block has the bytes its caller asked for.         *)
(* free_cnt counts the free blocks of an arena, none is lost, and a page   *)
(* without a block in use is back with the page allocator.  The descriptor *)
(* free() read without the lock is still the arena's when it has the lock, *)
(* and no assertion of block_to_arena() fails.                             *)
BlocksSound ==
  part = "malloc" => /\ Ma!TypeOK /\ Ma!Disjoint /\ Ma!AtLeastSize
                     /\ Ma!Counted /\ Ma!Reclaimed /\ Ma!DescStable /\ Ma!NoPanic

(* Every byte given to serial_putc() goes out once and in order, through   *)
(* wrapping, polling when the queue is full, and flushing, and every byte  *)
(* that comes in is returned once and in order by input_getc().  The port  *)
(* is told to interrupt whenever there is output to send or room for       *)
(* input.  A thread sleeps in the wait() of an interrupt queue only while  *)
(* there is a reason to, and with one reader no assertion of the queue     *)
(* fails.                                                                  *)
SerialSound ==
  /\ part = "serial" => /\ S!TypeOK /\ S!OutputInOrder /\ S!InputInOrder
                        /\ S!Enabled /\ S!NoLostWakeup /\ S!NoPanic
  /\ part = "readers" => R!TypeOK /\ R!InputInOrder /\ R!NoLostWakeup

(* While one thread is in the middle of its output no other prints, unless *)
(* the kernel panics.  console_lock_depth counts the calls of the thread   *)
(* that holds the lock, and no assertion of the console fails, panics      *)
(* included.                                                               *)
ConsoleSound ==
  /\ [](part = "console" => C!TypeOK /\ C!DepthMatches /\ C!NoAssertionFails)
  /\ [][part = "console" => C!NotMixed]_<<part, vs>>

(* The keyboard driver knows which shift keys are held, the machine        *)
(* restarts only on Ctrl, Alt and Delete, and a letter comes out in the    *)
(* case Shift and Caps Lock give it, with the marks of Ctrl and Alt.       *)
KeyboardRight ==
  /\ [](part = "kbd" => K!TypeOK /\ K!ShiftsFollowKeys /\ K!RebootsOnCtrlAltDel)
  /\ [][part = "kbd" => K!LettersRight]_<<part, vs>>

(* No assertion on the context of an interrupt fails, and in_external_intr *)
(* is set exactly while the running thread is in an external handler.  An  *)
(* interrupt is acknowledged before another thread runs, and a thread      *)
(* switched out in one gets its flag back.                                 *)
InterruptsSound ==
  part = "intr" => /\ I!TypeOK /\ I!NoPanic /\ I!ContextIsCurrent
                   /\ I!Acknowledged /\ I!OnlyExternalMasked

(* timer_sleep() does not return before the ticks asked for have passed,   *)
(* also when the low word of the count wraps meanwhile.  timer_calibrate() *)
(* ends within a factor of two of the machine's speed, and a delay         *)
(* computed from it is right up to rounding.                               *)
TimerRight ==
  /\ [](part = "sleep" => Z!TypeOK)
  /\ [](part = "timer" => T!TypeOK /\ T!WithinFactorTwo /\ T!DelayRight)
  /\ [][part = "sleep" => Z!SleepsLongEnough]_<<part, vs>>

(* The sectors of a registered partition are those of the disk that the    *)
(* table says; a scan finds the partitions of the table, in its order, and *)
(* no two block devices have one name (devices/partition.c).               *)
PartitionsRight ==
  part = "partition" => B!TypeOK /\ B!InDevice /\ B!FindsPrimary /\ B!NamesDiffer

(* After any sequence of list operations both directions of a list agree,  *)
(* no element is in two lists, and the code's assertions hold; list_max()  *)
(* and list_min() return the first of the largest and smallest elements.   *)
(* Inserting, removing and splicing move exactly the elements they name    *)
(* and keep the order of all others.  list_sort() sorts stably,            *)
(* list_insert_ordered() inserts after equals, list_unique() keeps the     *)
(* first of equal neighbours (lib/kernel/list.c).                          *)
ListsRight ==
  part = "lists" => Li!Linked /\ Li!Extremes /\ Li!Moves /\ Li!Sorts /\ Li!Filters

(* Whatever operations and rehashes came before, with memory or without,   *)
(* hash_find() finds every element, no two are equal, elem_cnt is right,   *)
(* and an iterator returns every element once.  Each operation adds and    *)
(* removes what it says, rehash() nothing (lib/kernel/hash.c).             *)
HashRight ==
  /\ [](part = "hash" => Ha!TypeOK /\ Ha!Findable /\ Ha!Iterates)
  /\ [][part = "hash" => Ha!SetOps]_<<part, vs>>

(* Bitmap operations on words change exactly the bits they name, and       *)
(* bitmap_scan_and_flip() takes the first group that fits, the last place  *)
(* included, and fails only when there is none (lib/kernel/bitmap.c).      *)
BitmapRight ==
  /\ [](part = "bitmap" => Bi!TypeOK)
  /\ [][part = "bitmap" => Bi!BitOps /\ Bi!ScanFirst]_<<part, vs>>

(* 64-bit division: the unsigned quotient is exact and never traps, the    *)
(* signed one truncates, a remainder that fits in a word is returned       *)
(* (lib/arithmetic.c).  No step of sort() loses or duplicates an element,  *)
(* between steps the array is a heap followed by a sorted rest that is no  *)
(* smaller, and binary_search() then finds a key exactly when it is there  *)
(* (lib/stdlib.c).                                                         *)
AlgorithmsRight ==
  /\ part = "arith" => Ar!TypeOK /\ Ar!UnsignedQuotient /\ Ar!SignedQuotient /\ Ar!WordRemainder
  /\ part = "sort" => So!Permutes /\ So!HeapAndRest /\ So!SortedAndFound

(* lib/string.c for every overlap and every buffer: strlcpy() and          *)
(* strlcat() stay in SIZE bytes and terminate, the searches return the     *)
(* place they are about, strtok_r() all tokens in order.  lib/stdio.c:     *)
(* atoi() reads back what %d printed, the least number included, digits    *)
(* stay in the buffer of format_integer(), vsnprintf() writes at most SIZE *)
(* bytes, and hex_dump() shows every byte once.                            *)
TextRight ==
  /\ part = "strings" => St!Copies /\ St!Bounded /\ St!Searches /\ St!AllTokens
  /\ part = "printf" =>
       Pr!ReadBack /\ Pr!FieldWidth /\ Pr!BufferHolds /\ Pr!Truncates /\ Pr!DumpsAll
=============================================================================
