------------------------------- MODULE Inode -------------------------------
(***************************************************************************)
(* The bytes of files: inode_read_at() and inode_write_at() (filesys/      *)
(* inode.c), which go through the disk a sector at a time, directly or     *)
(* through a bounce buffer, and file_read(), file_write(), file_seek() and *)
(* file_tell() (file.c).  Two files lie next to each other on disk; each   *)
(* is open once.                                                           *)
(***************************************************************************)
EXTENDS Integers, SequencesExt

CONSTANTS
  BLOCK_SECTOR_SIZE,
  Length,            \* Length[k]: the bytes of file k, a sequence of two
  Byte,
  MaxSize,           \* bound on the size of a transfer
  Oom                \* whether malloc() of the bounce buffer can fail

VARIABLES
  disk,              \* the sectors, each a sequence of bytes
  pos,               \* pos[k] of the struct file
  deny_write_cnt,
  done               \* the last transfer: what it was asked and what it did

vars == <<disk, pos, deny_write_cnt, done>>

bytes_to_sectors(size) == (size + BLOCK_SECTOR_SIZE - 1) \div BLOCK_SECTOR_SIZE

start(k) == IF k = 1 THEN 1 ELSE 1 + bytes_to_sectors(Length[1])

byte_to_sector(k, p) == start(k) + p \div BLOCK_SECTOR_SIZE

Sectors == bytes_to_sectors(Length[1]) + bytes_to_sectors(Length[2])

None == [op |-> "none"]

(* The sectors hold bytes, and a file denies writes at most once.          *)
TypeOK ==
  /\ disk \in [1 .. Sectors -> [1 .. BLOCK_SECTOR_SIZE -> Byte]]
  /\ pos \in [1 .. 2 -> Nat] /\ deny_write_cnt \in [1 .. 2 -> 0 .. 1]

(* inode_create() has written zeros.                                       *)
Init ==
  /\ disk = [s \in 1 .. Sectors |-> [b \in 1 .. BLOCK_SECTOR_SIZE |-> 0]]
  /\ pos = <<0, 0>> /\ deny_write_cnt = <<0, 0>> /\ done = None

-----------------------------------------------------------------------------
Least(a, b) == IF a < b THEN a ELSE b

(* The bytes to copy in one sector.                                        *)
chunk_size(k, size, offset) ==
  Least(size, Least(Length[k] - offset, BLOCK_SECTOR_SIZE - (offset % BLOCK_SECTOR_SIZE)))

Direct(offset, chunk) == offset % BLOCK_SECTOR_SIZE = 0 /\ chunk = BLOCK_SECTOR_SIZE

(* The loop of inode_read_at().  mem tells whether malloc() succeeds.      *)
RECURSIVE inode_read_at(_, _, _, _)
inode_read_at(k, size, offset, mem) ==
  LET chunk == chunk_size(k, size, offset)
      at == offset % BLOCK_SECTOR_SIZE
  IN  IF size <= 0 \/ chunk <= 0 \/ (~mem /\ ~Direct(offset, chunk)) THEN <<>>
      ELSE SubSeq(disk[byte_to_sector(k, offset)], at + 1, at + chunk)
             \o inode_read_at(k, size - chunk, offset + chunk, mem)

(* The sector after a chunk is written: read first if it holds other data, *)
(* else zeros.                                                             *)
MutBounce(old, at, bytes) ==
  LET base == IF at > 0 THEN old ELSE [b \in 1 .. BLOCK_SECTOR_SIZE |-> 0]
  IN  [b \in 1 .. BLOCK_SECTOR_SIZE |->
         IF b \in at + 1 .. at + Len(bytes) THEN bytes[b - at] ELSE base[b]]

Bounce(old, at, bytes) ==
  LET base == IF at > 0 \/ Len(bytes) < BLOCK_SECTOR_SIZE - at THEN old
              ELSE [b \in 1 .. BLOCK_SECTOR_SIZE |-> 0]
  IN  [b \in 1 .. BLOCK_SECTOR_SIZE |->
         IF b \in at + 1 .. at + Len(bytes) THEN bytes[b - at] ELSE base[b]]

(* The loop of inode_write_at() on the sectors d: the sectors after it,    *)
(* and the bytes written.                                                  *)
RECURSIVE WriteLoop(_, _, _, _, _, _)
WriteLoop(d, k, buffer, offset, n, mem) ==
  LET chunk == chunk_size(k, Len(buffer) - n, offset)
      s == byte_to_sector(k, offset)
  IN  IF n >= Len(buffer) \/ chunk <= 0 \/ (~mem /\ ~Direct(offset, chunk)) THEN <<d, n>>
      ELSE WriteLoop([d EXCEPT ![s] = Bounce(@, offset % BLOCK_SECTOR_SIZE,
                                            SubSeq(buffer, n + 1, n + chunk))],
                     k, buffer, offset + chunk, n + chunk, mem)

inode_write_at(k, buffer, offset, mem) ==
  IF deny_write_cnt[k] > 0 THEN <<disk, 0>> ELSE WriteLoop(disk, k, buffer, offset, 0, mem)

-----------------------------------------------------------------------------
file_read(k, size, mem) ==
  LET bytes == inode_read_at(k, size, pos[k], mem)
  IN  /\ pos' = [pos EXCEPT ![k] = @ + Len(bytes)]
      /\ done' = [op |-> "read", k |-> k, size |-> size, at |-> pos[k], bytes |-> bytes]
      /\ UNCHANGED <<disk, deny_write_cnt>>

file_write(k, buffer, mem) ==
  LET result == inode_write_at(k, buffer, pos[k], mem)
  IN  /\ disk' = result[1]
      /\ pos' = [pos EXCEPT ![k] = @ + result[2]]
      /\ done' = [op |-> "write", k |-> k, size |-> Len(buffer), at |-> pos[k],
                  bytes |-> SubSeq(buffer, 1, result[2])]
      /\ UNCHANGED deny_write_cnt

file_seek(k, new_pos) ==
  /\ pos' = [pos EXCEPT ![k] = new_pos] /\ done' = None
  /\ UNCHANGED <<disk, deny_write_cnt>>

file_deny_write(k) ==
  /\ deny_write_cnt[k] = 0
  /\ deny_write_cnt' = [deny_write_cnt EXCEPT ![k] = 1] /\ done' = None
  /\ UNCHANGED <<disk, pos>>

file_allow_write(k) ==
  /\ deny_write_cnt[k] = 1
  /\ deny_write_cnt' = [deny_write_cnt EXCEPT ![k] = 0] /\ done' = None
  /\ UNCHANGED <<disk, pos>>

Next ==
  \E k \in 1 .. 2 :
    \/ \E size \in 0 .. MaxSize, mem \in {TRUE, ~Oom} :
         \/ file_read(k, size, mem)
         \/ \E buffer \in [1 .. size -> Byte] : file_write(k, buffer, mem)
    \/ \E p \in 0 .. Length[k] + 1 : file_seek(k, p)
    \/ file_deny_write(k) \/ file_allow_write(k)

Spec == Init /\ [][Next]_vars

-----------------------------------------------------------------------------
(* The content of file k, byte by byte.                                    *)
Content(k) ==
  [p \in 1 .. Length[k] |->
     disk[byte_to_sector(k, p - 1)][((p - 1) % BLOCK_SECTOR_SIZE) + 1]]

Slice(s, at, n) == SubSeq(s, at + 1, at + n)

(* What a transfer moves: all it was asked, up to the end of the file.     *)
Within(k, size, at) == Least(size, IF at < Length[k] THEN Length[k] - at ELSE 0)

(* A read returns the content of the file from the position on, whichever  *)
(* sectors it spans, and advances the position by as much.                 *)
ReadsContent ==
  done'.op = "read" =>
    /\ done'.bytes = Slice(Content(done'.k), done'.at, Len(done'.bytes))
    /\ pos' = [pos EXCEPT ![done'.k] = done'.at + Len(done'.bytes)]

(* A transfer is short only at the end of the file (a write also where     *)
(* writes are denied).                                                     *)
ShortOnlyAtEnd ==
  done'.op # "none" =>
    \/ Len(done'.bytes) = Within(done'.k, done'.size, done'.at)
    \/ done'.op = "write" /\ done'.bytes = <<>> /\ deny_write_cnt[done'.k] > 0

(* A write changes the bytes it reports as written and nothing else:       *)
(* neither the rest of the sectors it goes through nor the other file.     *)
WritesOnlyItsBytes ==
  \A k \in 1 .. 2 :
    LET wrote == done'.op = "write" /\ done'.k = k
    IN  \A p \in 1 .. Length[k] :
          Content(k)'[p] = IF wrote /\ p \in done'.at + 1 .. done'.at + Len(done'.bytes)
                           THEN done'.bytes[p - done'.at] ELSE Content(k)[p]
=============================================================================
