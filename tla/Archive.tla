------------------------------- MODULE Archive -------------------------------
(***************************************************************************)
(* Moving files between the file system and a tar archive on the scratch   *)
(* device: fsutil_extract() and fsutil_append() of filesys/fsutil.c, one   *)
(* sector at a time.  The machine may stop between any two sectors; the    *)
(* static positions of both functions start at 0 again when it boots.      *)
(*                                                                         *)
(* A sector holds zeros, a header, a chunk of a file, or anything else;    *)
(* the file system is what filesys_create() and file_write() promise of    *)
(* it, and has room.  A chunk is named by its file and number, and file f  *)
(* has Chunks[f] of them.                                                  *)
(***************************************************************************)
EXTENDS Integers, Sequences, FiniteSets, SequencesExt

CONSTANTS
  Files,    \* names of files
  Chunks,   \* file -> sectors its contents take
  DevSize,  \* sectors of the scratch device
  Archives, \* the archives the device may hold at first: sequences of files
            \* and of "d", a directory
  Actions,  \* the actions of the command line: "extract" and "append"
  MaxRuns   \* actions that are run

VARIABLES
  dev,      \* sector -> contents
  fs,       \* file -> sequence of its chunks, Missing if there is no file
  ex,       \* fsutil_extract()'s sector
  ap,       \* fsutil_append()'s sector
  pc,       \* "idle" or where the action is
  cur,      \* the file that is copied
  pos,      \* how many chunks of it are copied
  runs,     \* actions begun
  appended, \* files appended since the machine started, in order
  clean,    \* whether an extraction ended and nothing was appended since
  panic

vars == <<dev, fs, ex, ap, pc, cur, pos, runs, appended, clean, panic>>

Zeros == <<"zeros">>
Junk == <<"junk">>
Directory == <<"directory">>
Header(f) == <<"header", f>>
Chunk(f, k) == <<"chunk", f, k>>
Missing == <<"missing">>
Contents(f) == [k \in 1 .. Chunks[f] |-> Chunk(f, k)]
Unwritten(f) == [k \in 1 .. Chunks[f] |-> Zeros]
Sectors == 0 .. DevSize - 1

(* What an archive of files s looks like, with its two sectors of zeros.   *)
Packed(s) ==
  FlattenSeq([i \in DOMAIN s |-> IF s[i] = "d" THEN <<Directory>>
                                 ELSE <<Header(s[i])>> \o Contents(s[i])])
  \o <<Zeros, Zeros>>

(* An archive that the pintos script put there, and old contents after it. *)
Init ==
  /\ \E s \in Archives :
       LET image == IF s = <<>> THEN <<>> ELSE Packed(s)
       IN  dev = [n \in Sectors |-> IF n < Len(image) THEN image[n + 1] ELSE Junk]
  /\ \E have \in SUBSET Files : fs = [f \in Files |-> IF f \in have THEN Contents(f) ELSE Missing]
  /\ ex = 0 /\ ap = 0
  /\ pc = "idle"
  /\ cur \in Files
  /\ pos = 0
  /\ runs = 0
  /\ appended = <<>>
  /\ clean = FALSE
  /\ panic = FALSE

Panic == panic' = TRUE /\ UNCHANGED <<dev, fs, ex, ap, pc, cur, pos, runs, appended, clean>>

(* "`extract' should precede all `append's": the positions are independent *)
(* and an extraction erases what was appended.                             *)
Extract ==
  /\ pc = "idle" /\ "extract" \in Actions /\ runs < MaxRuns
  /\ ap = 0
  /\ runs' = runs + 1
  /\ pc' = "header"
  /\ UNCHANGED <<dev, fs, ex, ap, cur, pos, appended, clean, panic>>

(* Reading and parsing a header, and creating its file.                    *)
ReadHeader ==
  /\ pc = "header"
  /\ IF ex \notin Sectors THEN Panic
     ELSE \/ /\ dev[ex] = Zeros
             /\ ex' = ex + 1
             /\ pc' = "erase0"
             /\ UNCHANGED <<dev, fs, ap, cur, pos, runs, appended, clean, panic>>
          \/ \E f \in Files :
               /\ dev[ex] = Header(f) /\ fs[f] = Missing
               /\ ex' = ex + 1
               /\ cur' = f /\ pos' = 0
               /\ fs' = [fs EXCEPT ![f] = Unwritten(f)]
               /\ pc' = "copy"
               /\ UNCHANGED <<dev, ap, runs, appended, clean, panic>>
          \/ /\ dev[ex] = Directory
             /\ ex' = ex + 1
             /\ UNCHANGED <<dev, fs, ap, pc, cur, pos, runs, appended, clean, panic>>
          \/ /\ dev[ex] \notin {Zeros, Directory}
             /\ \A f \in Files : dev[ex] = Header(f) => fs[f] # Missing
             /\ Panic

(* One turn of the loop that copies into the file.                         *)
Copy ==
  /\ pc = "copy"
  /\ IF pos = Chunks[cur]
       THEN pc' = "header" /\ UNCHANGED <<fs, ex, pos, panic>>
       ELSE IF ex \notin Sectors THEN panic' = TRUE /\ UNCHANGED <<fs, ex, pos, pc>>
       ELSE /\ fs' = [fs EXCEPT ![cur][pos + 1] = dev[ex]]
            /\ ex' = ex + 1
            /\ pos' = pos + 1
            /\ UNCHANGED <<pc, panic>>
  /\ UNCHANGED <<dev, ap, cur, runs, appended, clean>>

MutErase(n) ==
  /\ pc = IF n = 0 THEN "erase0" ELSE "erase1"
  /\ dev' = [dev EXCEPT ![1] = Zeros]
  /\ pc' = IF n = 0 THEN "erase1" ELSE "idle"
  /\ clean' = (n = 1)
  /\ UNCHANGED <<fs, ex, ap, cur, pos, runs, appended, panic>>

(* The archive is erased from sector 0 and then sector 1.                  *)
Erase(n) ==
  /\ pc = IF n = 0 THEN "erase0" ELSE "erase1"
  /\ dev' = [dev EXCEPT ![n] = Zeros]
  /\ pc' = IF n = 0 THEN "erase1" ELSE "idle"
  /\ clean' = (n = 1)
  /\ UNCHANGED <<fs, ex, ap, cur, pos, runs, appended, panic>>

(* fsutil_append() of a file: it must exist and its header must fit.       *)
Append_(f) ==
  /\ pc = "idle" /\ "append" \in Actions /\ runs < MaxRuns
  /\ runs' = runs + 1
  /\ IF fs[f] = Missing \/ ap \notin Sectors
       THEN panic' = TRUE /\ UNCHANGED <<dev, ap, pc, cur, pos, clean>>
       ELSE /\ dev' = [dev EXCEPT ![ap] = Header(f)]
            /\ ap' = ap + 1
            /\ cur' = f /\ pos' = 0
            /\ pc' = "write"
            /\ clean' = FALSE
            /\ UNCHANGED panic
  /\ UNCHANGED <<fs, ex, appended>>

(* One turn of the loop that copies out of the file.                       *)
Write ==
  /\ pc = "write" /\ pos < Chunks[cur]
  /\ IF ap >= DevSize THEN panic' = TRUE /\ UNCHANGED <<dev, ap, pos>>
     ELSE /\ dev' = [dev EXCEPT ![ap] = fs[cur][pos + 1]]
          /\ ap' = ap + 1
          /\ pos' = pos + 1
          /\ UNCHANGED panic
  /\ UNCHANGED <<fs, ex, pc, cur, runs, appended, clean>>

(* The end of the archive: both writes go to the same sector, and the      *)
(* position stays there for the next file.  The second is of the bytes     *)
(* from buffer + 1, the last of which is the byte after the buffer: it may *)
(* be anything.                                                            *)
End ==
  /\ pc = "write" /\ pos = Chunks[cur]
  /\ IF ap \notin Sectors THEN panic' = TRUE /\ UNCHANGED <<dev, pc, appended>>
     ELSE /\ \E last \in {Zeros, Junk} : dev' = [dev EXCEPT ![ap] = last]
          /\ appended' = Append(appended, cur)
          /\ pc' = "idle"
          /\ UNCHANGED panic
  /\ UNCHANGED <<fs, ex, ap, cur, pos, runs, clean>>

(* The machine stops, in an action or between two, and boots again.        *)
Boot ==
  /\ ex' = 0 /\ ap' = 0 /\ pos' = 0
  /\ pc' = "idle"
  /\ appended' = <<>>
  /\ panic' = FALSE
  /\ UNCHANGED <<dev, fs, cur, runs, clean>>

Idle == pc = "idle" /\ UNCHANGED vars

Next ==
  \/ ~panic /\ (\/ Extract \/ ReadHeader \/ Copy \/ Erase(0) \/ Erase(1)
                \/ \E f \in Files : Append_(f)
                \/ Write \/ End)
  \/ Boot
  \/ Idle

Spec == Init /\ [][Next]_vars

-----------------------------------------------------------------------------
(* The files of the archive at the start of the device, by its headers, as *)
(* far as they hold what the file system holds.                            *)
Listing ==
  LET from[n \in 0 .. DevSize] ==
        IF n = DevSize \/ \A f \in Files : dev[n] # Header(f) THEN <<>>
        ELSE LET f == dev[n][2]
             IN  IF n + Chunks[f] < DevSize
                    /\ fs[f] = [k \in 1 .. Chunks[f] |-> dev[n + k]]
                   THEN <<f>> \o from[n + Chunks[f] + 1]
                   ELSE <<f, "damaged">>
  IN  from[0]

(* No position is more than one past the device, so that the access that   *)
(* follows stops the machine instead of reaching another partition.        *)
TypeOK ==
  /\ ex \in 0 .. DevSize /\ ap \in 0 .. DevSize
  /\ pos \in 0 .. Chunks[cur]

(* The archive lists the appended files and no other, in order and with    *)
(* the contents they have, whatever the device held before and wherever    *)
(* earlier runs of the machine were stopped.                               *)
ArchiveReadable == pc = "idle" /\ appended # <<>> /\ ~panic => Listing = appended

(* When fsutil_extract() is about to erase the archive, every file whose   *)
(* header it has passed is in the file system with the archive's contents. *)
Extracted ==
  pc = "erase0" =>
    \A n \in 0 .. ex - 1, f \in Files :
      dev[n] = Header(f) => fs[f] = [k \in 1 .. Chunks[f] |-> dev[n + k]]

(* After an extraction ended, extracting again in another run of the       *)
(* machine finds an empty archive and leaves the files as they are.        *)
AgainAfterBoot ==
  (clean /\ ex = 0 /\ pc = "header") => (dev[0] = Zeros /\ fs' = fs)
=============================================================================
