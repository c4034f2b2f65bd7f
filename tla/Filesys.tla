------------------------------ MODULE Filesys ------------------------------
(***************************************************************************)
(* The metadata of the file system: the free map (filesys/free-map.c), the *)
(* root directory (directory.c), inodes on disk and in memory (inode.c),   *)
(* struct files (file.c), and filesys_create(), filesys_open() and         *)
(* filesys_remove() (filesys.c), whose steps another process may           *)
(* interrupt, because nothing here takes a lock, and after each of which   *)
(* the machine may stop and be started again.                              *)
(*                                                                         *)
(* Sector 0 holds the inode of the free map, sector 1 that of the root     *)
(* directory, and formatting gives each one sector of data.  Lengths are   *)
(* counted in sectors; module Inode is about bytes.                        *)
(***************************************************************************)
EXTENDS Integers, FiniteSets, Sequences, FiniteSetsExt

CONSTANTS
  Proc, Name,
  BADNAME,        \* an empty or too long name
  N,              \* sectors of the device
  MaxSlots,       \* entries of the root directory
  MaxFiles,       \* bound on the open files
  MaxLength,      \* bound on the length of a file
  Oom             \* whether allocations of memory can fail

ASSUME FilesysAssumption ==
  /\ N \in Nat /\ N >= 4 /\ MaxSlots \in Nat /\ MaxFiles \in Nat /\ MaxLength \in Nat \ {0}
  /\ Oom \in BOOLEAN /\ BADNAME \notin Name

FREE_MAP_SECTOR == 0
ROOT_DIR_SECTOR == 1
Sector == 0 .. N - 1
Base == 0 .. 3            \* the sectors in use after do_format()
NONE == -1
Slot == 1 .. MaxSlots
File == 1 .. MaxFiles
Id == 1 .. MaxFiles + 2 + 2 * Cardinality(Proc)   \* blocks for struct inodes
Free == [sector |-> NONE, open_cnt |-> 0, removed |-> FALSE, deny_write_cnt |-> 0,
         data |-> [start |-> 0, length |-> 0]]
Unused == [in_use |-> FALSE, name |-> BADNAME, sector |-> NONE]
Closed == [inode |-> 0, deny_write |-> FALSE]
Idle == [op |-> "none", name |-> BADNAME, length |-> 0, root |-> 0, sector |-> NONE,
         start |-> NONE, slot |-> 0, inode |-> 0]

VARIABLES
  disk_map, disk_inode, entries,   \* on disk: the free map, inodes, the directory
  free_map,                        \* in memory: the sectors marked
  inode, open_inodes,              \* struct inodes by the block they are in, and the list
  files,
  pc, loc,                         \* where a call is, and its local variables
  panic                            \* an assertion has failed

disk == <<disk_map, disk_inode, entries>>
memory == <<free_map, inode, open_inodes, files>>
vars == <<disk, memory, pc, loc, panic>>

(* The free map, the inodes, the directory and each call stay in range.    *)
TypeOK ==
  /\ disk_map \subseteq Sector /\ free_map \subseteq Sector
  /\ disk_inode \in [Sector -> [start : Sector, length : 0 .. MaxLength]]
  /\ entries \in [Slot -> [in_use : BOOLEAN, name : Name \cup {BADNAME}, sector : Sector \cup {NONE}]]
  /\ open_inodes \in Seq(Id) /\ panic \in BOOLEAN
  /\ \A i \in Id : inode[i].open_cnt \in Nat /\ inode[i].deny_write_cnt \in Nat
  /\ files \in [File -> [inode : Id \cup {0}, deny_write : BOOLEAN]]

(* The struct inodes after filesys_init(): the free map's file is open.    *)
BootInodes ==
  [i \in Id |-> IF i = 1 THEN [Free EXCEPT !.sector = FREE_MAP_SECTOR, !.open_cnt = 1,
                                           !.data = [start |-> 2, length |-> 1]] ELSE Free]

(* After do_format() and free_map_open().                                  *)
Init ==
  /\ disk_map = Base /\ free_map = Base
  /\ disk_inode = [s \in Sector |-> CASE s = FREE_MAP_SECTOR -> [start |-> 2, length |-> 1]
                                      [] s = ROOT_DIR_SECTOR -> [start |-> 3, length |-> 1]
                                      [] OTHER -> [start |-> 0, length |-> 0]]
  /\ entries = [s \in Slot |-> Unused]
  /\ inode = BootInodes /\ open_inodes = <<1>> /\ files = [f \in File |-> Closed]
  /\ pc = [p \in Proc |-> "idle"] /\ loc = [p \in Proc |-> Idle] /\ panic = FALSE

(* The machine stops, at any moment, and starts again on the same disk.    *)
Reboot ==
  /\ free_map' = disk_map
  /\ inode' = BootInodes /\ open_inodes' = <<1>> /\ files' = [f \in File |-> Closed]
  /\ pc' = [p \in Proc |-> "idle"] /\ loc' = [p \in Proc |-> Idle] /\ panic' = FALSE
  /\ UNCHANGED disk

-----------------------------------------------------------------------------
Run(start, cnt) == start .. start + cnt - 1

Space(sector, data) == {sector} \cup Run(data.start, data.length)

(* bitmap_scan() of the free map: the first cnt sectors free in a row.     *)
Scan(cnt) ==
  LET at == {s \in 0 .. N - cnt : Run(s, cnt) \cap free_map = {}}
  IN  IF at = {} THEN NONE ELSE Min(at)

(* Whether an allocation of memory, or the bitmap_write() that needs one,  *)
(* succeeds.                                                               *)
Luck == {TRUE, ~Oom}

Goto(p, place) == pc' = [pc EXCEPT ![p] = place]

free_map_release(start, cnt, ok) ==
  /\ panic' = (panic \/ ~ Run(start, cnt) \subseteq free_map)
  /\ free_map' = free_map \ Run(start, cnt)
  /\ disk_map' = IF ok THEN free_map' ELSE disk_map

(* list_remove() of e.                                                     *)
Without(q, e) ==
  LET k == CHOOSE k \in DOMAIN q : q[k] = e
  IN  SubSeq(q, 1, k - 1) \o SubSeq(q, k + 1, Len(q))

(* inode_close() of the struct inode in block i, 0 for a null pointer.     *)
MutInodeClose(i, ok) ==
  /\ inode' = CASE i = 0 -> inode
                [] i # 0 /\ inode[i].open_cnt = 1 -> [inode EXCEPT ![i] = Free]
                [] OTHER -> [inode EXCEPT ![i].open_cnt = @ - 1]
  /\ open_inodes' = SelectSeq(open_inodes, LAMBDA j : j # i \/ inode[i].open_cnt > 1)
  /\ UNCHANGED <<free_map, disk_map, panic>>

inode_close(i, ok) ==
  LET gone == Space(inode[i].sector, inode[i].data)
  IN  IF i # 0 /\ inode[i].open_cnt = 1
      THEN /\ open_inodes' = Without(open_inodes, i)
           /\ inode' = [inode EXCEPT ![i] = Free]
           /\ IF inode[i].removed
              THEN /\ panic' = (panic \/ ~ gone \subseteq free_map)
                   /\ free_map' = free_map \ gone
                   /\ disk_map' = IF ok THEN free_map' ELSE disk_map
              ELSE UNCHANGED <<free_map, disk_map, panic>>
      ELSE /\ inode' = IF i = 0 THEN inode ELSE [inode EXCEPT ![i].open_cnt = @ - 1]
           /\ UNCHANGED <<open_inodes, free_map, disk_map, panic>>

-----------------------------------------------------------------------------
(* A call begins with dir_open_root().                                     *)
Call(p, op, n, length) ==
  /\ pc[p] = "idle"
  /\ loc' = [loc EXCEPT ![p] = [Idle EXCEPT !.op = op, !.name = n, !.length = length]]
  /\ Goto(p, "root_find")
  /\ UNCHANGED <<disk, memory, panic>>

filesys_create(p, n, initial_size) == Call(p, "create", n, initial_size)
filesys_open(p, n) == Call(p, "open", n, 0)
filesys_remove(p, n) == Call(p, "remove", n, 0)

(* inode_open(), in two steps, for the root directory and for a file.      *)
Wanted(p) == IF pc[p] \in {"root_find", "root_insert"} THEN ROOT_DIR_SECTOR ELSE loc[p].sector

(* Where a call goes on with its inode i, or with none.                    *)
Opened(p, i) ==
  IF pc[p] \in {"root_find", "root_insert"}
  THEN /\ loc' = [loc EXCEPT ![p].root = i]
       /\ Goto(p, IF i = 0 THEN "done" ELSE "dir_open")
  ELSE /\ loc' = [loc EXCEPT ![p].inode = i]
       /\ Goto(p, IF loc[p].op = "remove" /\ i # 0 THEN "erase" ELSE "dir_close")

inode_find(p) ==
  /\ pc[p] \in {"root_find", "inode_find"}
  /\ LET same == {k \in DOMAIN open_inodes : inode[open_inodes[k]].sector = Wanted(p)}
         i == open_inodes[Min(same)]
     IN  IF same = {}
         THEN /\ Goto(p, IF pc[p] = "root_find" THEN "root_insert" ELSE "inode_insert")
              /\ UNCHANGED <<inode, loc>>
         ELSE /\ inode' = [inode EXCEPT ![i].open_cnt = @ + 1]
              /\ Opened(p, i)
  /\ UNCHANGED <<disk, free_map, open_inodes, files, panic>>

inode_insert(p, ok) ==
  /\ pc[p] \in {"root_insert", "inode_insert"}
  /\ IF ok
     THEN LET i == Min({j \in Id : inode[j] = Free})
          IN  /\ inode' = [inode EXCEPT ![i] =
                             [Free EXCEPT !.sector = Wanted(p), !.open_cnt = 1,
                                          !.data = disk_inode[Wanted(p)]]]
              /\ open_inodes' = <<i>> \o open_inodes
              /\ Opened(p, i)
     ELSE UNCHANGED <<inode, open_inodes>> /\ Opened(p, 0)
  /\ UNCHANGED <<disk, free_map, files, panic>>

dir_open(p, ok) ==
  /\ pc[p] = "dir_open"
  /\ IF ok
     THEN /\ Goto(p, IF loc[p].op = "create" THEN "alloc_inode" ELSE "lookup")
          /\ UNCHANGED <<disk_map, free_map, inode, open_inodes, loc, panic>>
     ELSE /\ inode_close(loc[p].root, ok)
          /\ loc' = [loc EXCEPT ![p].root = 0] /\ Goto(p, "done")
  /\ UNCHANGED <<disk_inode, entries, files>>

-----------------------------------------------------------------------------
(* filesys_create(): free_map_allocate() scans, then flips and writes the  *)
(* map; first for the inode's sector, then, in inode_create(), for data.   *)

alloc_scan(p, ok) ==
  /\ pc[p] \in {"alloc_inode", "alloc_data"}
  /\ IF pc[p] = "alloc_inode"
     THEN /\ loc' = [loc EXCEPT ![p].sector = Scan(1)]
          /\ Goto(p, IF Scan(1) = NONE THEN "dir_close" ELSE "flip_inode")
     ELSE /\ loc' = [loc EXCEPT ![p].start = Scan(loc[p].length)]
          /\ Goto(p, IF ~ok \/ Scan(loc[p].length) = NONE THEN "release" ELSE "flip_data")
  /\ UNCHANGED <<disk, memory, panic>>

flip_inode(p, ok) ==
  /\ pc[p] = "flip_inode"
  /\ free_map' = IF ok THEN free_map \cup {loc[p].sector} ELSE free_map \ {loc[p].sector}
  /\ disk_map' = IF ok THEN free_map' ELSE disk_map
  /\ loc' = IF ok THEN loc ELSE [loc EXCEPT ![p].sector = NONE]
  /\ Goto(p, IF ok THEN "alloc_data" ELSE "dir_close")
  /\ UNCHANGED <<disk_inode, entries, inode, open_inodes, files, panic>>

MutFlipData(p, ok) ==
  /\ pc[p] = "flip_data"
  /\ free_map' = free_map
  /\ disk_inode' = [disk_inode EXCEPT ![loc[p].sector] = [start |-> loc[p].start, length |-> loc[p].length]]
  /\ Goto(p, "add_check")
  /\ UNCHANGED <<disk_map, entries, inode, open_inodes, files, loc, panic>>

flip_data(p, ok) ==
  /\ pc[p] = "flip_data"
  /\ LET run == Run(loc[p].start, loc[p].length)
     IN  free_map' = IF ok THEN free_map \cup run ELSE free_map \ run
  /\ disk_map' = IF ok THEN free_map' ELSE disk_map
  /\ Goto(p, IF ok THEN "inode_write" ELSE "release")
  /\ UNCHANGED <<disk_inode, entries, inode, open_inodes, files, loc, panic>>

inode_write(p) ==
  /\ pc[p] = "inode_write"
  /\ disk_inode' = [disk_inode EXCEPT ![loc[p].sector] =
                      [start |-> loc[p].start, length |-> loc[p].length]]
  /\ Goto(p, "add_check")
  /\ UNCHANGED <<disk_map, entries, memory, loc, panic>>

lookup(n) == {s \in Slot : entries[s].in_use /\ entries[s].name = n}

(* dir_add(): the checks and the search for a slot, then the write.  At    *)
(* the end of the directory there is nothing to write to.                  *)
dir_add(p) ==
  /\ pc[p] = "add_check"
  /\ LET room == {s \in Slot : ~entries[s].in_use}
         good == loc[p].name \in Name /\ lookup(loc[p].name) = {} /\ room # {}
     IN  /\ loc' = IF good THEN [loc EXCEPT ![p].slot = Min(room)] ELSE loc
         /\ Goto(p, IF good THEN "add_write" ELSE "release")
  /\ UNCHANGED <<disk, memory, panic>>

add_write(p) ==
  /\ pc[p] = "add_write"
  /\ entries' = [entries EXCEPT ![loc[p].slot] =
                   [in_use |-> TRUE, name |-> loc[p].name, sector |-> loc[p].sector]]
  /\ Goto(p, "dir_close")
  /\ UNCHANGED <<disk_map, disk_inode, memory, loc, panic>>

create_release(p, ok) ==
  /\ pc[p] = "release"
  /\ free_map_release(loc[p].sector, 1, ok)
  /\ Goto(p, "dir_close")
  /\ UNCHANGED <<disk_inode, entries, inode, open_inodes, files, loc>>

-----------------------------------------------------------------------------
(* dir_lookup() of filesys_open(), and dir_remove().                       *)
dir_lookup(p) ==
  /\ pc[p] = "lookup"
  /\ IF lookup(loc[p].name) = {}
     THEN Goto(p, "dir_close") /\ UNCHANGED loc
     ELSE LET s == Min(lookup(loc[p].name))
          IN  /\ loc' = [loc EXCEPT ![p].slot = s, ![p].sector = entries[s].sector]
              /\ Goto(p, "inode_find")
  /\ UNCHANGED <<disk, memory, panic>>

erase(p) ==
  /\ pc[p] = "erase"
  /\ entries' = [entries EXCEPT ![loc[p].slot].in_use = FALSE]
  /\ Goto(p, "mark")
  /\ UNCHANGED <<disk_map, disk_inode, memory, loc, panic>>

(* inode_remove() and inode_close().                                       *)
inode_remove(p) ==
  /\ pc[p] = "mark"
  /\ inode' = [inode EXCEPT ![loc[p].inode].removed = TRUE]
  /\ Goto(p, "inode_close")
  /\ UNCHANGED <<disk, free_map, open_inodes, files, loc, panic>>

close_removed(p, ok) ==
  /\ pc[p] = "inode_close"
  /\ inode_close(loc[p].inode, ok)
  /\ loc' = [loc EXCEPT ![p].inode = 0]
  /\ Goto(p, "dir_close")
  /\ UNCHANGED <<disk_inode, entries, files>>

dir_close(p, ok) ==
  /\ pc[p] = "dir_close"
  /\ inode_close(loc[p].root, ok)
  /\ loc' = [loc EXCEPT ![p].root = 0]
  /\ Goto(p, "done")
  /\ UNCHANGED <<disk_inode, entries, files>>

(* The end of a call; filesys_open() ends with file_open().                *)
file_open(p, ok) ==
  /\ pc[p] = "done"
  /\ LET i == loc[p].inode
         room == {f \in File : files[f] = Closed}
     IN  IF i # 0 /\ ok /\ room # {}
         THEN /\ files' = [files EXCEPT ![Min(room)] = [Closed EXCEPT !.inode = i]]
              /\ UNCHANGED <<inode, open_inodes, free_map, disk_map, panic>>
         ELSE inode_close(i, ok) /\ UNCHANGED files
  /\ loc' = [loc EXCEPT ![p] = Idle] /\ Goto(p, "idle")
  /\ UNCHANGED <<disk_inode, entries>>

-----------------------------------------------------------------------------
file_deny_write(p, f) ==
  /\ pc[p] = "idle" /\ files[f] # Closed /\ ~files[f].deny_write
  /\ LET i == files[f].inode
     IN  /\ inode' = [inode EXCEPT ![i].deny_write_cnt = @ + 1]
         /\ panic' = (panic \/ inode'[i].deny_write_cnt > inode[i].open_cnt)
  /\ files' = [files EXCEPT ![f].deny_write = TRUE]
  /\ UNCHANGED <<disk, free_map, open_inodes, pc, loc>>

file_allow_write(p, f) ==
  /\ pc[p] = "idle" /\ files[f] # Closed /\ files[f].deny_write
  /\ LET i == files[f].inode
     IN  /\ panic' = (panic \/ inode[i].deny_write_cnt \notin 1 .. inode[i].open_cnt)
         /\ inode' = [inode EXCEPT ![i].deny_write_cnt = @ - 1]
  /\ files' = [files EXCEPT ![f].deny_write = FALSE]
  /\ UNCHANGED <<disk, free_map, open_inodes, pc, loc>>

(* file_close() first allows writes again, if the file denied them.        *)
file_close(p, f, ok) ==
  /\ pc[p] = "idle" /\ files[f] # Closed /\ ~files[f].deny_write
  /\ inode_close(files[f].inode, ok)
  /\ files' = [files EXCEPT ![f] = Closed]
  /\ UNCHANGED <<disk_inode, entries, pc, loc>>

-----------------------------------------------------------------------------
Next ==
  \/ Reboot
  \/ \E p \in Proc :
       \/ \E n \in Name \cup {BADNAME}, l \in 0 .. MaxLength : filesys_create(p, n, l)
       \/ \E n \in Name : filesys_open(p, n) \/ filesys_remove(p, n)
       \/ inode_find(p) \/ inode_write(p) \/ dir_add(p) \/ add_write(p)
       \/ dir_lookup(p) \/ erase(p) \/ inode_remove(p)
       \/ \E ok \in Luck : \/ inode_insert(p, ok) \/ dir_open(p, ok) \/ alloc_scan(p, ok)
                           \/ flip_inode(p, ok) \/ flip_data(p, ok)
                           \/ create_release(p, ok) \/ close_removed(p, ok)
                           \/ dir_close(p, ok) \/ file_open(p, ok)
       \/ \E f \in File : \/ file_deny_write(p, f) \/ file_allow_write(p, f)
                          \/ \E ok \in Luck : file_close(p, f, ok)

Spec == Init /\ [][Next]_vars

-----------------------------------------------------------------------------
InUse == {s \in Slot : entries[s].in_use}

(* The files that hold sectors: by a name in the directory, or by being    *)
(* open, removed or not.                                                   *)
Holders ==
  {[sector |-> entries[s].sector, data |-> disk_inode[entries[s].sector]] : s \in InUse}
    \cup {[sector |-> inode[i].sector, data |-> inode[i].data] :
            i \in {j \in Id : inode[j].sector \notin {NONE, FREE_MAP_SECTOR, ROOT_DIR_SECTOR}}}

(* No two files share a sector, none shares one with the free map or the   *)
(* directory, and every sector of a file is marked in the free map: of a   *)
(* named file on disk, too, so that it is safe when the machine stops.     *)
NoOverlap ==
  /\ \A h \in Holders : Space(h.sector, h.data) \subseteq free_map \ Base
  /\ \A h, k \in Holders : h # k => Space(h.sector, h.data) \cap Space(k.sector, k.data) = {}
  /\ \A s, t \in InUse : s # t => entries[s].sector # entries[t].sector
  /\ \A s \in InUse : Space(entries[s].sector, disk_inode[entries[s].sector]) \subseteq disk_map

(* A name has one entry.                                                   *)
UniqueNames == \A s, t \in InUse : entries[s].name = entries[t].name => s = t

(* Opening a single inode twice returns the same struct inode.             *)
OneInode ==
  \A i, j \in DOMAIN open_inodes :
    inode[open_inodes[i]].sector = inode[open_inodes[j]].sector => i = j

(* The counts of an inode are the files and calls that have it open and    *)
(* the files that deny writes to it, so it is freed by its last closer,    *)
(* and no assertion fails.                                                 *)
CountsMatch ==
  /\ ~panic
  /\ \A i \in Id \ {1} :
       /\ inode[i].open_cnt = Cardinality({f \in File : files[f].inode = i})
                                + Cardinality({p \in Proc : loc[p].root = i})
                                + Cardinality({p \in Proc : loc[p].inode = i})
       /\ inode[i].deny_write_cnt =
            Cardinality({f \in File : files[f].inode = i /\ files[f].deny_write})

(* The sectors p has taken from the free map and not yet given to a file.  *)
Taken(p) ==
  CASE pc[p] \in {"alloc_data", "flip_data", "release"} -> {loc[p].sector}
    [] pc[p] \in {"inode_write", "add_check", "add_write"} ->
         {loc[p].sector} \cup Run(loc[p].start, loc[p].length)
    [] OTHER -> {}

Lost == free_map \ (Base \cup (UNION {Space(h.sector, h.data) : h \in Holders})
                           \cup (UNION {Taken(p) : p \in Proc}))

(* Sectors are lost only when the machine stops, or when filesys_create()  *)
(* fails in dir_add(): then it releases the inode's sector and not the     *)
(* data.  Otherwise what is allocated is freed.                            *)
LostOnlyByFailedAdd ==
  Lost' \subseteq Lost \/ Reboot \/ \E p \in Proc : pc[p] = "add_check" /\ pc'[p] = "release"

(* A name has one entry in the directory, and a sector one open inode.     *)
(* The counts of an inode are those of the files and calls that use it, so *)
(* that its last closer frees it, and no assertion fails.  Sectors are     *)
(* lost only when the machine stops, or when filesys_create() fails in     *)
(* dir_add().                                                              *)
SectorsAccounted ==
  /\ [](TypeOK /\ UniqueNames /\ OneInode /\ CountsMatch)
  /\ [][LostOnlyByFailedAdd]_vars
=============================================================================
