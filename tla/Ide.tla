-------------------------------- MODULE Ide --------------------------------
(***************************************************************************)
(* A channel of the ATA driver (devices/ide.c): detection of its two       *)
(* disks, then reads and writes of sectors by threads that share it.  The  *)
(* controller and the disks are modelled as the driver uses them: a        *)
(* command makes the selected disk busy; it then asks for or offers data,  *)
(* and interrupts when it is ready or done.                                *)
(***************************************************************************)
EXTENDS Integers, Sequences

CONSTANTS
  Thread, NULL,
  Sector,    \* sectors in use, natural numbers of 28 bits
  Value,     \* contents of a sector
  Blank,     \* of these, what a blank disk holds
  Kinds      \* what a device may be: some of "none", "ata", "atapi", "big", "faulty"

Disk == {0, 1}

(* Sector numbers have 28 bits.                                            *)
SectorLimit == 268435456

(* "big" is an ATA disk over 1 GB; commands of a "faulty" one may fail, or *)
(* take longer than the driver waits.                                      *)
ASSUME IdeAssumption ==
  /\ NULL \notin Thread /\ Sector \subseteq Nat /\ (\A s \in Sector : s < SectorLimit) /\ Blank \in Value
  /\ Kinds \subseteq {"none", "ata", "atapi", "big", "faulty"}

VARIABLES
  boot, is_ata, registered,             \* ide_init(): where it is, what it found
  lock, expecting_interrupt, completion_wait,
  pc, op, result,                       \* threads: where they are, at what
  regs,                                 \* device and address registers
  cmd, phase, data,                     \* the selected disk
  irq, kind, contents, clash, panicked  \* clash: a command to a disk that is not idle

driver == <<lock, expecting_interrupt, completion_wait>>
detected == <<is_ata, registered>>
threads == <<pc, op, result>>
device == <<regs, cmd, phase, data, irq, contents>>
vars == <<boot, detected, driver, threads, device, kind, clash, panicked>>

Op ==
  [write : {TRUE}, d : Disk, s : Sector, v : Value] \cup [write : {FALSE}, d : Disk, s : Sector, v : {Blank}]

(* The driver, the registers and the disk are each in a state the code or  *)
(* the ATA protocol knows.                                                 *)
TypeOK ==
  /\ lock \in Thread \cup {NULL} /\ completion_wait \in 0 .. 2
  /\ registered \subseteq Disk /\ is_ata \in [Disk -> BOOLEAN]
  /\ pc \in [Thread -> {"idle", "lock", "select", "issue", "down", "busy", "data", "end"}]
  /\ phase \in {"idle", "busy", "ask", "offer", "store"}

Init ==
  /\ boot = "reset" /\ is_ata = [d \in Disk |-> FALSE] /\ registered = {}
  /\ lock = NULL /\ expecting_interrupt = FALSE /\ completion_wait = 0
  /\ pc = [t \in Thread |-> "idle"] /\ result = [t \in Thread |-> NULL]
  /\ op = [t \in Thread |-> NULL]
  /\ regs = [device |-> 0, lbal |-> 0, lbam |-> 0, lbah |-> 0, top |-> 0]
  /\ cmd = "none" /\ phase = "idle" /\ data = NULL /\ irq = FALSE
  /\ kind \in [Disk -> Kinds]
  /\ contents = [d \in Disk |-> [s \in Sector |-> Blank]]
  /\ clash = FALSE /\ panicked = FALSE

-----------------------------------------------------------------------------
(* The disk.                                                               *)

Address == regs.lbal + 256 * regs.lbam + 65536 * regs.lbah + 16777216 * regs.top

(* A command that finds the disk not idle is lost.                         *)
Command(c) ==
  /\ clash' = (clash \/ phase # "idle")
  /\ cmd' = IF phase = "idle" THEN c ELSE cmd
  /\ phase' = IF phase = "idle" THEN "busy" ELSE phase

DiskWorks ==
  /\ \/ /\ phase = "busy" /\ cmd = "read"
        /\ phase' = "offer" /\ data' = contents[regs.device][Address]
        /\ irq' = TRUE /\ UNCHANGED contents
     \/ /\ phase = "busy" /\ cmd = "write"
        /\ phase' = "ask" /\ UNCHANGED <<data, irq, contents>>
     \/ /\ phase = "store"
        /\ contents' = [contents EXCEPT ![regs.device][Address] = data]
        /\ phase' = "idle" /\ irq' = TRUE /\ data' = NULL
     \/ /\ phase = "busy" /\ cmd = "identify"
        /\ phase' = IF kind[regs.device] = "atapi" THEN "idle" ELSE "offer"
        /\ irq' = TRUE /\ UNCHANGED <<data, contents>>
  /\ UNCHANGED <<boot, detected, driver, threads, regs, cmd, kind, clash, panicked>>

(* A command fails: the disk is ready, and does not ask for or offer data. *)
DiskFails ==
  /\ kind[regs.device] = "faulty" /\ phase = "busy"
  /\ phase' = "idle" /\ irq' = TRUE
  /\ UNCHANGED <<boot, detected, driver, threads, regs, cmd, data, contents, kind, clash, panicked>>

interrupt_handler ==
  /\ irq
  /\ irq' = FALSE
  /\ completion_wait' = IF expecting_interrupt THEN completion_wait + 1 ELSE completion_wait
  /\ UNCHANGED <<boot, detected, lock, expecting_interrupt, threads, regs, cmd, phase, data,
                 contents, kind, clash, panicked>>

-----------------------------------------------------------------------------
(* ide_init().                                                             *)

(* reset_channel() waits until the disks have come up.                     *)
reset_channel ==
  /\ boot = "reset" /\ boot' = "check"
  /\ UNCHANGED <<detected, driver, threads, device, kind, clash, panicked>>

(* What the error, lbam, lbah and status registers show after a reset.     *)
Signature(d) ==
  [error |-> IF d = 0 /\ kind[1] = "none" THEN 129 ELSE IF kind[d] = "none" THEN 0 ELSE 1,
   lbam |-> IF kind[d] = "atapi" THEN 20 ELSE 0, lbah |-> IF kind[d] = "atapi" THEN 235 ELSE 0,
   DRDY |-> kind[d] \notin {"none", "atapi"}, BSY |-> FALSE]

NotReady(d) ==
  LET r == Signature(d)
  IN  \/ r.error # 1 /\ (r.error # 129 \/ d = 1)
      \/ ~r.DRDY \/ r.BSY

check_is_ata(d) ==
  LET r == Signature(d)
  IN  /\ ~NotReady(d)
      /\ (r.lbam = 0 /\ r.lbah = 0) \/ (r.lbam = 60 /\ r.lbah = 195)

(* Whether a slave may exist.                                              *)
check_slave == ~NotReady(0) \/ Signature(0).error # 129

check_device_type ==
  /\ boot = "check"
  /\ is_ata' = [d \in Disk |-> check_is_ata(d) /\ (d = 1 => check_slave)]
  /\ boot' = "identify0"
  /\ UNCHANGED <<registered, driver, threads, device, kind, clash, panicked>>

(* The disk ide_init() identifies, and what comes after it.                *)
Booting == IF boot \in {"identify0", "wait0"} THEN 0 ELSE 1

AfterBoot == IF Booting = 0 THEN "identify1" ELSE "done"

(* identify_ata_device() up to sema_down().                                *)
identify_issue ==
  /\ boot \in {"identify0", "identify1"}
  /\ IF is_ata[Booting]
     THEN /\ boot' = IF Booting = 0 THEN "wait0" ELSE "wait1"
          /\ regs' = [regs EXCEPT !.device = Booting]
          /\ expecting_interrupt' = TRUE /\ irq' = FALSE
          /\ Command("identify")
     ELSE /\ boot' = AfterBoot
          /\ UNCHANGED <<regs, expecting_interrupt, irq, clash, cmd, phase>>
  /\ UNCHANGED <<detected, lock, completion_wait, threads, data, contents, kind, panicked>>

(* The rest of it: a disk that does not answer, or is too large, is left   *)
(* alone.                                                                  *)
identify_ata_device ==
  /\ boot \in {"wait0", "wait1"} /\ completion_wait > 0
  /\ completion_wait' = completion_wait - 1
  /\ phase # "busy"
  /\ LET small == phase = "offer" /\ kind[Booting] # "big"
     IN  /\ is_ata' = [is_ata EXCEPT ![Booting] = small]
         /\ registered' = IF small THEN registered \cup {Booting} ELSE registered
  /\ phase' = "idle" /\ boot' = AfterBoot
  /\ UNCHANGED <<lock, expecting_interrupt, threads, regs, cmd, data, irq, contents, kind, clash,
                 panicked>>

-----------------------------------------------------------------------------
(* ide_read() and ide_write().                                             *)

Start(t, o) ==
  /\ boot = "done" /\ pc[t] = "idle" /\ o.d \in registered
  /\ op' = [op EXCEPT ![t] = o] /\ pc' = [pc EXCEPT ![t] = "lock"]
  /\ UNCHANGED <<boot, detected, driver, result, device, kind, clash, panicked>>

MutLock(t) ==
  /\ pc[t] = "lock"
  /\ lock' = t /\ pc' = [pc EXCEPT ![t] = "select"]
  /\ UNCHANGED <<boot, detected, expecting_interrupt, completion_wait, op, result, device, kind,
                 clash, panicked>>

AcquireLock(t) ==
  /\ pc[t] = "lock" /\ lock = NULL
  /\ lock' = t /\ pc' = [pc EXCEPT ![t] = "select"]
  /\ UNCHANGED <<boot, detected, expecting_interrupt, completion_wait, op, result, device, kind,
                 clash, panicked>>

(* The registers that name device d and sector s: eight bits each, the     *)
(* last four in the device register.                                       *)
SectorRegs(d, s) ==
  [device |-> d, lbal |-> s % 256, lbam |-> (s \div 256) % 256, lbah |-> (s \div 65536) % 256,
   top |-> (s \div 16777216) % 16]

(* select_sector() waits only so long for the disk to be idle, and goes on *)
(* in any case; reading the status clears a pending interrupt.             *)
select_sector(t) ==
  /\ pc[t] = "select"
  /\ irq' = FALSE
  /\ regs' = SectorRegs(op[t].d, op[t].s)
  /\ pc' = [pc EXCEPT ![t] = "issue"]
  /\ UNCHANGED <<boot, detected, driver, op, result, cmd, phase, data, contents, kind, clash,
                 panicked>>

issue_pio_command(t) ==
  /\ pc[t] = "issue"
  /\ expecting_interrupt' = TRUE
  /\ Command(IF op[t].write THEN "write" ELSE "read")
  /\ pc' = [pc EXCEPT ![t] = IF op[t].write THEN "busy" ELSE "down"]
  /\ UNCHANGED <<boot, detected, lock, completion_wait, op, result, regs, data, irq, contents,
                 kind, panicked>>

(* sema_down() of completion_wait: a read waits for it before the data, a  *)
(* write after it.                                                         *)
Completed(t) ==
  /\ pc[t] = "down" /\ completion_wait > 0
  /\ completion_wait' = completion_wait - 1
  /\ pc' = [pc EXCEPT ![t] = IF op[t].write THEN "end" ELSE "busy"]
  /\ UNCHANGED <<boot, detected, lock, expecting_interrupt, op, result, device, kind, clash,
                 panicked>>

wait_while_busy(t) ==
  /\ pc[t] = "busy"
  /\ \/ phase \in {"ask", "offer"} /\ pc' = [pc EXCEPT ![t] = "data"] /\ UNCHANGED panicked
     \/ phase = "idle" /\ panicked' = TRUE /\ UNCHANGED pc
     \/ kind[op[t].d] = "faulty" /\ phase \in {"busy", "store"} /\ panicked' = TRUE /\ UNCHANGED pc
  /\ UNCHANGED <<boot, detected, driver, op, result, device, kind, clash>>

input_sector(t) ==
  /\ pc[t] = "data" /\ ~op[t].write
  /\ result' = [result EXCEPT ![t] = data]
  /\ phase' = "idle" /\ data' = NULL /\ pc' = [pc EXCEPT ![t] = "end"]
  /\ UNCHANGED <<boot, detected, driver, op, regs, cmd, irq, contents, kind, clash, panicked>>

output_sector(t) ==
  /\ pc[t] = "data" /\ op[t].write
  /\ data' = op[t].v
  /\ phase' = "store" /\ pc' = [pc EXCEPT ![t] = "down"]
  /\ UNCHANGED <<boot, detected, driver, op, result, regs, cmd, irq, contents, kind, clash, panicked>>

ReleaseLock(t) ==
  /\ pc[t] = "end"
  /\ lock' = NULL /\ pc' = [pc EXCEPT ![t] = "idle"]
  /\ op' = [op EXCEPT ![t] = NULL] /\ result' = [result EXCEPT ![t] = NULL]
  /\ UNCHANGED <<boot, detected, expecting_interrupt, completion_wait, device, kind, clash,
                 panicked>>

Step(t) ==
  \/ AcquireLock(t) \/ select_sector(t) \/ issue_pio_command(t) \/ Completed(t)
  \/ wait_while_busy(t) \/ input_sector(t) \/ output_sector(t) \/ ReleaseLock(t)

Boot == reset_channel \/ check_device_type \/ identify_issue \/ identify_ata_device

Next ==
  \/ ~panicked /\ reset_channel
  \/ ~panicked /\ check_device_type
  \/ ~panicked /\ identify_issue
  \/ ~panicked /\ identify_ata_device
  \/ ~panicked /\ DiskWorks
  \/ ~panicked /\ DiskFails
  \/ ~panicked /\ interrupt_handler
  \/ \E t \in Thread, o \in Op : ~panicked /\ Start(t, o)
  \/ \E t \in Thread : ~panicked /\ Step(t)

Spec == Init /\ [][Next]_vars

-----------------------------------------------------------------------------
(* A read returns what the sector asked for holds, a write leaves it       *)
(* there, whatever other threads do on either disk of the channel, and     *)
(* changes no other sector: "Internally synchronizes accesses to disks".   *)
DataRight ==
  \A t \in Thread :
    /\ pc[t] = "end" /\ ~op[t].write => result[t] = contents[op[t].d][op[t].s]
    /\ pc[t] = "end" /\ op[t].write => contents[op[t].d][op[t].s] = op[t].v
    /\ contents' # contents =>
         \E u \in Thread : /\ lock = u /\ op[u].write
                           /\ contents' = [contents EXCEPT ![op[u].d][op[u].s] = op[u].v]

(* No command is given to a disk that has not finished the last: though    *)
(* wait_until_idle() gives up early, the disk is idle when the lock is     *)
(* free, and no completion is left over for the next command.              *)
IdleWhenFree ==
  ~clash /\ (lock = NULL /\ boot = "done" => phase = "idle" /\ completion_wait = 0 /\ ~irq)

(* Detection ends with the disks that are there, and no others: not        *)
(* packet devices, not disks over 1 GB, not an absent slave.  Only a disk  *)
(* that does not answer may be missed.                                     *)
DetectionRight ==
  boot = "done" => \A d \in Disk : /\ kind[d] = "ata" => d \in registered
                                   /\ d \in registered => kind[d] \in {"ata", "faulty"}

(* A read of a disk returns what the sector holds and a write leaves it    *)
(* there, whatever other threads do on either disk of the channel.  No     *)
(* command is given to a disk that has not finished the last, and no       *)
(* completion is left over for the next command.  Detection ends with the  *)
(* ATA disks that are there.                                               *)
DisksSound ==
  /\ [](TypeOK /\ IdleWhenFree /\ DetectionRight)
  /\ [][DataRight]_vars
=============================================================================
