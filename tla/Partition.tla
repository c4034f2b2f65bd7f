----------------------------- MODULE Partition -----------------------------
(***************************************************************************)
(* Partitions (devices/partition.c) and block devices (devices/block.c):   *)
(* partition_scan() walks the partition tables of a disk, one entry a      *)
(* step, and registers a block device for each partition it accepts.       *)
(* Sector numbers are 32-bit in the code, WORD values here.                *)
(***************************************************************************)
EXTENDS Integers, SequencesExt, FiniteSetsExt

CONSTANTS
  Disks,      \* disks: functions from sectors to tables, <<>> for a bad signature
  WORD,       \* sector numbers are taken modulo WORD
  MaxDepth    \* bound on nested tables

Type == {"empty", "extended", "kernel", "filesys", "scratch", "swap", "foreign"}

VARIABLES
  disk,
  frames,     \* calls of read_partition_table(): sector, primary_extended_sector, i, pt
  part_nr,
  all_blocks  \* the block devices registered for partitions

vars == <<disk, frames, part_nr, all_blocks>>

block_size == Cardinality(DOMAIN disk)

Plus(a, b) == (a + b) % WORD

-----------------------------------------------------------------------------
(* A call of read_partition_table(): none if the sector is past the end of *)
(* the device or the signature is wrong.                                   *)
read_partition_table(sector, primary) ==
  IF sector >= block_size \/ disk[0] = <<>> THEN <<>>
  ELSE <<[sector |-> sector, primary |-> primary, i |-> 1, pt |-> disk[0]]>>

(* read_partition_table() only reads tables inside the device, one entry   *)
(* at a time.                                                              *)
TypeOK ==
  /\ part_nr \in Nat
  /\ \A f \in Range(frames) : f.sector \in 0 .. block_size - 1 /\ f.i \in 1 .. Len(f.pt) + 1

(* partition_scan() begins.                                                *)
Init ==
  /\ disk \in Disks
  /\ frames = read_partition_table(0, 0)
  /\ part_nr = 0 /\ all_blocks = {}

f == Last(frames)
e == f.pt[f.i]

Advanced == [frames EXCEPT ![Len(frames)].i = @ + 1]

AtEntry(types) == frames # <<>> /\ f.i <= Len(f.pt) /\ e.type \in types

(* An entry that is empty.                                                 *)
SkipEntry ==
  /\ AtEntry(Type) /\ (e.size = 0 \/ e.type = "empty")
  /\ frames' = Advanced
  /\ UNCHANGED <<disk, part_nr, all_blocks>>

(* An extended partition: the offset is absolute in sector 0, else         *)
(* relative to the extended partition that sector 0 points to.             *)
EnterExtended ==
  /\ AtEntry({"extended"}) /\ e.size # 0 /\ Len(frames) < MaxDepth
  /\ frames' = Advanced \o
       (IF f.sector = 0 THEN read_partition_table(e.offset, e.offset)
                        ELSE read_partition_table(Plus(e.offset, f.primary), f.primary))
  /\ UNCHANGED <<disk, part_nr, all_blocks>>

\* Mutant: an end that wraps around is not noticed.
MutAccepted(start, size) == start < block_size /\ Plus(start, size) <= block_size

(* What found_partition() accepts.                                         *)
Accepted(start, size) ==
  start < block_size /\ Plus(start, size) >= start /\ Plus(start, size) <= block_size

(* block_register() of a partition.                                        *)
block_register(nr, type, start, size) == [nr |-> nr, type |-> type, start |-> start, size |-> size]

found_partition ==
  /\ AtEntry(Type \ {"empty", "extended"}) /\ e.size # 0
  /\ LET start == Plus(e.offset, f.sector)
     IN  /\ part_nr' = part_nr + 1
         /\ all_blocks' = IF Accepted(start, e.size)
                          THEN all_blocks \cup {block_register(part_nr + 1, e.type, start, e.size)}
                          ELSE all_blocks
  /\ frames' = Advanced
  /\ UNCHANGED disk

ReturnFromTable ==
  /\ frames # <<>> /\ f.i > Len(f.pt)
  /\ frames' = Front(frames)
  /\ UNCHANGED <<disk, part_nr, all_blocks>>

Next == SkipEntry \/ EnterExtended \/ found_partition \/ ReturnFromTable

Spec == Init /\ [][Next]_vars

-----------------------------------------------------------------------------
(* Which sector of the disk partition_read() and partition_write() use for *)
(* sector s of b, or -1 where check_sector() panics.                       *)
partition_access(b, s) ==
  IF s >= b.size THEN -1
  ELSE IF Plus(b.start, s) >= block_size THEN -1 ELSE Plus(b.start, s)

(* Every sector of a partition that is registered is a sector of the disk, *)
(* the one the table says: nothing that block_read() lets pass panics      *)
(* below or wraps around to the start of the disk.                         *)
InDevice ==
  \A b \in all_blocks : \A s \in 0 .. b.size - 1 : partition_access(b, s) = b.start + s

(* A scan of a disk without extended partitions finds the partitions of    *)
(* its table, numbered in the order of the table, bad ones counted.        *)
FindsPrimary ==
  LET pt == disk[0]
      data == {i \in DOMAIN pt : pt[i].size # 0 /\ pt[i].type \notin {"empty", "extended"}}
      nr(i) == Cardinality({j \in data : j <= i})
  IN  frames = <<>> /\ (\A i \in DOMAIN pt : pt[i].type # "extended") =>
        all_blocks = {block_register(nr(i), pt[i].type, pt[i].offset, pt[i].size) :
                        i \in {j \in data : pt[j].offset + pt[j].size <= block_size}}

(* No two block devices have the same number, and so the same name.        *)
NamesDiffer == \A b, c \in all_blocks : b.nr = c.nr => b = c
=============================================================================
