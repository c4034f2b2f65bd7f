----------------------------- MODULE IdeProofs -----------------------------
(***************************************************************************)
(* Proof that module Ide has the property DisksSound, for any number of    *)
(* threads, any sectors and any mix of disks on the channel.               *)
(*                                                                         *)
(* The invariant follows one command through the channel.  While nobody    *)
(* has the lock, the channel is quiet: the disk is idle, no interrupt is   *)
(* pending and the semaphore is 0.  Once a command is issued, exactly one  *)
(* completion belongs to it, pending at the controller or counted in the   *)
(* semaphore; the owner consumes it before it releases the lock.           *)
(***************************************************************************)
EXTENDS Ide, TLAPS

Boots == {"reset", "check", "identify0", "wait0", "identify1", "wait1", "done"}
Places == {"idle", "lock", "select", "issue", "down", "busy", "data", "end"}

(* No command is in progress.                                              *)
Quiet == phase = "idle" /\ completion_wait = 0 /\ ~irq

(* The command in progress has not completed, or its one completion has    *)
(* not been consumed.                                                      *)
Unsignalled == ~irq /\ completion_wait = 0
Signalled == (irq /\ completion_wait = 0) \/ (~irq /\ completion_wait = 1)

Types ==
  /\ boot \in Boots /\ is_ata \in [Disk -> BOOLEAN] /\ registered \subseteq Disk
  /\ lock \in Thread \cup {NULL} /\ completion_wait \in 0 .. 1
  /\ expecting_interrupt \in BOOLEAN /\ irq \in BOOLEAN
  /\ pc \in [Thread -> Places]
  /\ op \in [Thread -> Op \cup {NULL}]
  /\ result \in [Thread -> Value \cup {NULL}]
  /\ regs \in [device : Disk, lbal : Nat, lbam : Nat, lbah : Nat, top : Nat]
  /\ phase \in {"idle", "busy", "ask", "offer", "store"}
  /\ kind \in [Disk -> Kinds]
  /\ contents \in [Disk -> [Sector -> Value]]
  /\ clash = FALSE

Works(d) == kind[d] \in {"ata", "big", "faulty"}

(* What detection knows of disk d before and after it is identified.       *)
Unidentified(d) == (is_ata[d] <=> Works(d)) /\ d \notin registered
Identified(d) ==
  /\ kind[d] = "ata" => d \in registered
  /\ d \in registered => kind[d] \in {"ata", "faulty"}

BootInv ==
  /\ boot # "done" => lock = NULL /\ \A t \in Thread : pc[t] = "idle"
  /\ boot \in {"reset", "check", "identify0", "identify1"} => Quiet
  /\ boot \in {"wait0", "wait1"} =>
       /\ expecting_interrupt /\ cmd = "identify" /\ regs.device = Booting /\ is_ata[Booting]
       /\ \/ phase = "busy" /\ Unsignalled
          \/ phase = "offer" /\ Signalled
          \/ phase = "idle" /\ Signalled /\ kind[Booting] = "faulty"
  /\ boot \in {"reset", "check"} => registered = {}
  /\ boot \in {"identify0", "wait0"} => Unidentified(0) /\ Unidentified(1)
  /\ boot \in {"identify1", "wait1"} => Identified(0) /\ Unidentified(1)
  /\ boot = "done" => Identified(0) /\ Identified(1)

(* The sector the operation of t is about.                                 *)
Here(t) == contents[op[t].d][op[t].s]

(* How far the command of a read, and of a write, has come when its thread *)
(* is at each place.                                                       *)
Reading(t) ==
  /\ pc[t] = "down" => \/ phase = "busy" /\ Unsignalled
                       \/ phase = "offer" /\ Signalled /\ data = Here(t)
                       \/ phase = "idle" /\ Signalled
  /\ pc[t] = "busy" => Unsignalled /\ (phase = "idle" \/ (phase = "offer" /\ data = Here(t)))
  /\ pc[t] = "data" => Unsignalled /\ phase = "offer" /\ data = Here(t)
  /\ pc[t] = "end" => Quiet /\ result[t] = Here(t)

Writing(t) ==
  /\ pc[t] = "busy" => \/ phase \in {"busy", "ask"} /\ Unsignalled
                       \/ phase = "idle" /\ Signalled
  /\ pc[t] = "data" => Unsignalled /\ phase = "ask"
  /\ pc[t] = "down" => \/ phase = "store" /\ Unsignalled /\ data = op[t].v
                       \/ phase = "idle" /\ Signalled /\ Here(t) = op[t].v
  /\ pc[t] = "end" => Quiet /\ Here(t) = op[t].v

Owning(t) ==
  /\ op[t] \in Op
  /\ pc[t] \in {"select", "issue"} => Quiet
  /\ pc[t] \in {"issue", "down", "busy", "data"} => regs = SectorRegs(op[t].d, op[t].s)
  /\ pc[t] \in {"down", "busy", "data"} =>
       expecting_interrupt /\ cmd = (IF op[t].write THEN "write" ELSE "read")
  /\ IF op[t].write THEN Writing(t) ELSE Reading(t)

LockInv ==
  /\ \A t \in Thread : pc[t] = "lock" => op[t] \in Op
  /\ \A t \in Thread : pc[t] \notin {"idle", "lock"} <=> lock = t
  /\ boot = "done" /\ lock = NULL => Quiet
  /\ \A t \in Thread : lock = t => Owning(t)

IInv == Types /\ BootInv /\ LockInv

-----------------------------------------------------------------------------
(* Writing a sector number to the registers byte by byte and reading it    *)
(* back gives the number.                                                  *)
LEMMA AddressRight ==
  ASSUME NEW d, NEW s \in Nat, s < SectorLimit, regs = SectorRegs(d, s)
  PROVE  Address = s /\ regs.device = d
<1> DEFINE a == s \div 256  b == s \div 65536  c == s \div 16777216
<1>1. s \in Nat /\ s < 268435456 BY SMTT(30) DEF SectorLimit
<1>2. a \in Nat /\ b \in Nat /\ c \in Nat /\ c < 16 BY <1>1, SMTT(30)
<1>3. s = 256 * a + (s % 256) /\ s % 256 \in 0 .. 255 BY <1>1, SMTT(30)
<1>4. a = 256 * b + (a % 256) /\ a % 256 \in 0 .. 255 BY <1>1, SMTT(30)
<1>5. b = 256 * c + (b % 256) /\ b % 256 \in 0 .. 255 BY <1>1, SMTT(30)
<1>6. c % 16 = c BY <1>2, SMTT(30)
<1>7. /\ regs.device = d /\ regs.lbal = s % 256 /\ regs.lbam = a % 256
      /\ regs.lbah = b % 256 /\ regs.top = c % 16
  BY SMTT(30) DEF SectorRegs
<1> HIDE DEF a, b, c
<1> QED BY <1>1, <1>2, <1>3, <1>4, <1>5, <1>6, <1>7, SMTT(30) DEF Address

LEMMA RegsTyped ==
  ASSUME NEW d \in Disk, NEW s \in Nat, s < SectorLimit
  PROVE  SectorRegs(d, s) \in [device : Disk, lbal : Nat, lbam : Nat, lbah : Nat, top : Nat]
BY SMTT(30) DEF SectorRegs, SectorLimit

USE SMTT(20), ZenonT(20)

LEMMA OpFields ==
  ASSUME NEW o \in Op
  PROVE  /\ o.write \in BOOLEAN /\ o.d \in Disk /\ o.s \in Sector /\ o.s \in Nat /\ o.s < SectorLimit
         /\ o.v \in Value
BY IdeAssumption, Zenon DEF Op

LEMMA InitIInv == Init => IInv
<1> SUFFICES ASSUME Init PROVE IInv
  OBVIOUS
<1>1. Types
  <2>1. kind \in [Disk -> Kinds] /\ contents \in [Disk -> [Sector -> Value]]
    <3>1. [s \in Sector |-> Blank] \in [Sector -> Value] BY IdeAssumption
    <3>2. contents = [d \in Disk |-> [s \in Sector |-> Blank]] BY DEF Init
    <3>3. kind \in [Disk -> Kinds] BY DEF Init
    <3> HIDE DEF Init
    <3> QED BY <3>1, <3>2, <3>3, Zenon
  <2>2. regs \in [device : Disk, lbal : Nat, lbam : Nat, lbah : Nat, top : Nat]
    BY DEF Init, Disk
  <2>3. /\ pc \in [Thread -> Places] /\ op \in [Thread -> Op \cup {NULL}]
        /\ result \in [Thread -> Value \cup {NULL}] /\ is_ata \in [Disk -> BOOLEAN]
    BY DEF Init, Places
  <2>4. /\ completion_wait \in 0 .. 1 /\ boot \in Boots
        /\ phase \in {"idle", "busy", "ask", "offer", "store"}
    BY DEF Init, Boots
  <2>5. /\ registered \subseteq Disk /\ lock \in Thread \cup {NULL} /\ clash = FALSE
        /\ expecting_interrupt \in BOOLEAN /\ irq \in BOOLEAN
    BY Zenon DEF Init
  <2> QED BY <2>1, <2>2, <2>3, <2>4, <2>5, Zenon DEF Types
<1>2. BootInv BY DEF Init, BootInv, Quiet
<1>3. LockInv BY IdeAssumption DEF Init, LockInv
<1> QED BY <1>1, <1>2, <1>3 DEF IInv

(* After ide_init() a step of a thread leaves what was detected alone.     *)
LEMMA BootKept ==
  ASSUME BootInv, boot = "done", UNCHANGED <<boot, detected, kind>>
  PROVE  BootInv'
BY DEF BootInv, detected, Identified, Unidentified, Works

(* Only the thread that has the lock is past it, and then ide_init() has   *)
(* ended.                                                                  *)
LEMMA OwnerAlone ==
  ASSUME IInv, NEW t \in Thread, pc[t] \notin {"idle", "lock"}
  PROVE  lock = t /\ boot = "done" /\ Owning(t) /\ t # NULL
BY IdeAssumption DEF IInv, BootInv, LockInv

(* A step of the owner that keeps the lock: only what the place of the     *)
(* owner says must be shown again.                                         *)
LEMMA OwnerMoves ==
  ASSUME IInv, NEW t \in Thread, pc[t] \notin {"idle", "lock"}, UNCHANGED <<lock, op>>,
         NEW c \in Places \ {"idle", "lock"}, pc' = [pc EXCEPT ![t] = c], Owning(t)'
  PROVE  LockInv'
<1>1. lock' = t /\ t # NULL BY OwnerAlone
<1>2. ASSUME NEW u \in Thread
      PROVE  /\ pc'[u] \notin {"idle", "lock"} <=> lock' = u
             /\ pc'[u] = "lock" => op'[u] \in Op
  BY <1>1 DEF IInv, Types, LockInv
<1> QED BY <1>1, <1>2, Zenon DEF LockInv

(* A step of ide_init(): no thread has the lock.                           *)
LEMMA NobodyOwns ==
  ASSUME IInv, boot # "done", UNCHANGED <<lock, threads>>, boot' # "done" \/ Quiet'
  PROVE  LockInv'
<1>1. lock' = NULL /\ (\A t \in Thread : pc'[t] = "idle") BY DEF IInv, BootInv, threads
<1>2. \A t \in Thread : lock' # t BY <1>1, IdeAssumption
<1> QED BY <1>1, <1>2 DEF LockInv

LEMMA StepStart ==
  ASSUME IInv, NEW t \in Thread, NEW o \in Op, Start(t, o)
  PROVE  IInv'
<1>1. Types' BY DEF IInv, Types, Start, detected, driver, device, Places, Disk
<1>2. BootInv' BY BootKept DEF IInv, Start
<1>3. LockInv'
  BY DEF IInv, Types, LockInv, Start, driver, device, Owning, Reading, Writing, Here, Quiet,
         Signalled, Unsignalled, Places
<1> QED BY <1>1, <1>2, <1>3 DEF IInv

LEMMA Step_AcquireLock ==
  ASSUME IInv, NEW t \in Thread, AcquireLock(t)
  PROVE  IInv'
<1>0. boot = "done" BY DEF IInv, BootInv, AcquireLock
<1>1. Types'
  BY OpFields, RegsTyped DEF IInv, Types, AcquireLock, Owning, Reading, Writing, Here, Quiet,
                             Signalled, Unsignalled, Places, driver, device, detected, Disk,
                             Command
<1>2. BootInv' BY <1>0, BootKept DEF IInv, AcquireLock, detected
<1>3. LockInv'
  <2>1. op[t] \in Op /\ Quiet /\ op[t].write \in BOOLEAN
    BY <1>0, OpFields DEF IInv, LockInv, AcquireLock
  <2>2. pc' = [pc EXCEPT ![t] = "select"] /\ lock' = t /\ op' = op /\ boot' = boot
    BY DEF AcquireLock
  <2>3. Owning(t)'
    BY <2>1, <2>2 DEF IInv, Types, AcquireLock, Owning, Reading, Writing, Quiet, device
  <2>4. \A u \in Thread : pc[u] \in {"idle", "lock"}
    BY IdeAssumption DEF IInv, LockInv, AcquireLock
  <2>5. ASSUME NEW u \in Thread PROVE pc'[u] \notin {"idle", "lock"} <=> u = t
    BY <2>2, <2>4 DEF IInv, Types
  <2>6. ASSUME NEW u \in Thread, pc'[u] = "lock" PROVE op'[u] \in Op
    BY <2>2, <2>6 DEF IInv, Types, LockInv
  <2> QED BY <2>2, <2>3, <2>5, <2>6, IdeAssumption DEF LockInv
<1> QED BY <1>1, <1>2, <1>3 DEF IInv

LEMMA Step_select_sector ==
  ASSUME IInv, NEW t \in Thread, select_sector(t)
  PROVE  IInv'
<1>0. boot = "done" BY DEF IInv, BootInv, select_sector
<1>o. lock = t /\ Owning(t) /\ t # NULL BY OwnerAlone DEF select_sector
<1>1. Types'
  BY <1>o, OpFields, RegsTyped, Zenon
     DEF IInv, Types, select_sector, Owning, Quiet, Places, driver, device, detected, Disk
<1>2. BootInv' BY <1>0, BootKept DEF IInv, select_sector, detected
<1>3. LockInv'
  <2>1. Owning(t)'
    BY <1>o, OpFields DEF IInv, Types, select_sector, Owning, Reading, Writing, Quiet, driver
  <2> QED BY <1>o, OpFields, <2>1, OwnerMoves, Zenon DEF select_sector, driver, Places, Owning
<1> QED BY <1>1, <1>2, <1>3 DEF IInv

LEMMA Step_issue_pio_command ==
  ASSUME IInv, NEW t \in Thread, issue_pio_command(t)
  PROVE  IInv'
<1>0. boot = "done" BY DEF IInv, BootInv, issue_pio_command
<1>o. lock = t /\ Owning(t) /\ t # NULL BY OwnerAlone DEF issue_pio_command
<1>1. Types'
  BY <1>o, OpFields, RegsTyped
     DEF IInv, Types, issue_pio_command, Command, Owning, Quiet, Places, driver, device,
         detected, Disk
<1>2. BootInv' BY <1>0, BootKept DEF IInv, issue_pio_command, detected
<1>3. LockInv'
  <2>1. Owning(t)'
    BY <1>o, OpFields, Zenon
       DEF IInv, Types, issue_pio_command, Command, Owning, Reading, Writing,
                          Quiet, Unsignalled
  <2> QED BY <1>o, OpFields, <2>1, OwnerMoves, Zenon DEF issue_pio_command, driver, Places, Owning
<1> QED BY <1>1, <1>2, <1>3 DEF IInv

LEMMA Step_Completed ==
  ASSUME IInv, NEW t \in Thread, Completed(t)
  PROVE  IInv'
<1>0. boot = "done" BY DEF IInv, BootInv, Completed
<1>o. lock = t /\ Owning(t) /\ t # NULL BY OwnerAlone DEF Completed
<1>1. Types'
  BY <1>o, OpFields, RegsTyped
     DEF IInv, Types, Completed, Owning, Quiet, Places, driver, device, detected, Disk
<1>2. BootInv' BY <1>0, BootKept DEF IInv, Completed, detected
<1>3. LockInv'
  <2>1. Owning(t)'
    <3>1. completion_wait = 1 /\ completion_wait' = 0 BY DEF IInv, Types, Completed
    <3>2. pc[t] = "down" /\ op[t].write \in BOOLEAN BY <1>o, OpFields DEF Completed, Owning
    <3>3. /\ ~irq' /\ UNCHANGED <<op, contents, result, data, phase, irq, regs, cmd, expecting_interrupt>>
          /\ phase \in {"idle", "offer"} /\ (phase = "offer" => ~op[t].write /\ data = Here(t))
          /\ (op[t].write => phase = "idle" /\ Here(t) = op[t].v)
      BY <1>o, <3>1, <3>2 DEF Completed, Owning, Reading, Writing, Signalled, Unsignalled, device
    <3>4. pc'[t] = IF op[t].write THEN "end" ELSE "busy" BY DEF IInv, Types, Completed
    <3> QED BY <1>o, <3>1, <3>2, <3>3, <3>4 DEF Owning, Reading, Writing, Here, Quiet, Unsignalled
  <2> QED BY <1>o, OpFields, <2>1, OwnerMoves, Zenon DEF Completed, driver, Places, Owning
<1> QED BY <1>1, <1>2, <1>3 DEF IInv

LEMMA Step_wait_while_busy ==
  ASSUME IInv, NEW t \in Thread, wait_while_busy(t)
  PROVE  IInv'
<1>0. boot = "done" BY DEF IInv, BootInv, wait_while_busy
<1>o. lock = t /\ Owning(t) /\ t # NULL BY OwnerAlone DEF wait_while_busy
<1>1. Types'
  BY <1>o, OpFields, RegsTyped
     DEF IInv, Types, wait_while_busy, Owning, Quiet, Places, driver, device, detected, Disk
<1>2. BootInv' BY <1>0, BootKept DEF IInv, wait_while_busy, detected
<1>3. LockInv'
  <2>1. UNCHANGED <<phase, completion_wait, irq, data, result, contents, op, lock, regs, cmd>>
        /\ expecting_interrupt' = expecting_interrupt
    BY DEF wait_while_busy, driver, device
  <2>2. CASE pc' = pc
    BY <2>1, <2>2
       DEF IInv, LockInv, Owning, Reading, Writing, Here, Quiet, Signalled, Unsignalled,
                      wait_while_busy
  <2>3. CASE phase \in {"ask", "offer"} /\ pc' = [pc EXCEPT ![t] = "data"]
    <3>1. Owning(t)'
      BY <1>o, OpFields, <2>1, <2>3
         DEF IInv, Types, wait_while_busy, Owning, Reading, Writing, Here,
                                        Signalled, Unsignalled
    <3> QED BY <2>1, <2>3, <3>1, OwnerMoves, Zenon DEF wait_while_busy, Places
  <2> QED BY <2>2, <2>3 DEF wait_while_busy
<1> QED BY <1>1, <1>2, <1>3 DEF IInv

LEMMA Step_input_sector ==
  ASSUME IInv, NEW t \in Thread, input_sector(t)
  PROVE  IInv'
<1>0. boot = "done" BY DEF IInv, BootInv, input_sector
<1>o. lock = t /\ Owning(t) /\ t # NULL BY OwnerAlone DEF input_sector
<1>1. Types'
  BY <1>o, OpFields, RegsTyped
     DEF IInv, Types, input_sector, Owning, Reading, Here, Places, driver, device, detected, Disk
<1>2. BootInv' BY <1>0, BootKept DEF IInv, input_sector, detected
<1>3. LockInv'
  <2>1. Owning(t)'
    BY <1>o, OpFields
       DEF IInv, Types, input_sector, Owning, Reading, Writing, Here, Quiet, Signalled,
                          Unsignalled, driver, device
  <2> QED BY <1>o, OpFields, <2>1, OwnerMoves, Zenon DEF input_sector, driver, Places, Owning
<1> QED BY <1>1, <1>2, <1>3 DEF IInv

LEMMA Step_output_sector ==
  ASSUME IInv, NEW t \in Thread, output_sector(t)
  PROVE  IInv'
<1>0. boot = "done" BY DEF IInv, BootInv, output_sector
<1>o. lock = t /\ Owning(t) /\ t # NULL BY OwnerAlone DEF output_sector
<1>1. Types'
  BY <1>o, OpFields, RegsTyped
     DEF IInv, Types, output_sector, Owning, Quiet, Places, driver, device, detected, Disk
<1>2. BootInv' BY <1>0, BootKept DEF IInv, output_sector, detected
<1>3. LockInv'
  <2>1. Owning(t)'
    BY <1>o, OpFields, Zenon
       DEF IInv, Types, output_sector, Owning, Reading, Writing, Here, Quiet, Signalled,
                          Unsignalled, driver, device
  <2> QED BY <1>o, OpFields, <2>1, OwnerMoves, Zenon DEF output_sector, driver, Places, Owning
<1> QED BY <1>1, <1>2, <1>3 DEF IInv

LEMMA Step_ReleaseLock ==
  ASSUME IInv, NEW t \in Thread, ReleaseLock(t)
  PROVE  IInv'
<1>0. boot = "done" BY DEF IInv, BootInv, ReleaseLock
<1>o. lock = t /\ Owning(t) /\ t # NULL BY OwnerAlone DEF ReleaseLock
<1>1. Types'
  BY <1>o, OpFields, RegsTyped DEF IInv, Types, ReleaseLock, Owning, Reading, Writing, Here,
                                   Quiet, Signalled, Unsignalled, Places, driver, device,
                                   detected, Disk, Command
<1>2. BootInv' BY <1>0, BootKept DEF IInv, ReleaseLock, detected
<1>3. LockInv'
  BY <1>o, OpFields, IdeAssumption DEF IInv, Types, LockInv, ReleaseLock, Owning, Reading,
                                       Writing, Quiet, Signalled, Unsignalled, Places, driver,
                                       device
<1> QED BY <1>1, <1>2, <1>3 DEF IInv

LEMMA Step_reset_channel ==
  ASSUME IInv, reset_channel
  PROVE  IInv'
<1>1. Types' BY DEF IInv, Types, reset_channel, driver, device, threads, detected, Boots
<1>2. BootInv' BY DEF IInv, BootInv, reset_channel, Quiet, driver, device, threads, detected
<1>3. LockInv' BY NobodyOwns DEF reset_channel, driver
<1> QED BY <1>1, <1>2, <1>3 DEF IInv

(* What the registers show after a reset tells the disks from the rest.    *)
LEMMA Detects ==
  ASSUME kind \in [Disk -> Kinds], NEW d \in Disk
  PROVE  check_is_ata(d) /\ (d = 1 => check_slave) <=> Works(d)
<1> DEFINE all == {"none", "ata", "atapi", "big", "faulty"}
<1>1. kind[0] \in all /\ kind[1] \in all BY IdeAssumption, Zenon DEF Disk
<1> DEFINE r(e) == Signature(e)
<1>2. ASSUME NEW e
      PROVE  /\ r(e).error = (IF e = 0 /\ kind[1] = "none" THEN 129 ELSE IF kind[e] = "none" THEN 0 ELSE 1)
             /\ r(e).lbam = (IF kind[e] = "atapi" THEN 20 ELSE 0)
             /\ r(e).lbah = (IF kind[e] = "atapi" THEN 235 ELSE 0)
             /\ r(e).DRDY = (kind[e] \notin {"none", "atapi"}) /\ r(e).BSY = FALSE
  BY DEF Signature
<1> HIDE DEF r
<1>3. ASSUME NEW e \in Disk
      PROVE  NotReady(e) <=> ~Works(e)
  <2>1. NotReady(e) <=> \/ r(e).error # 1 /\ (r(e).error # 129 \/ e = 1)
                       \/ ~r(e).DRDY \/ r(e).BSY
    BY DEF NotReady, r
  <2>2. kind[e] \in all BY <1>1 DEF Disk
  <2>3. CASE e = 0 BY <1>2, <2>1, <2>2, <2>3, ZenonT(30) DEF Works
  <2>4. CASE e = 1 BY <1>2, <2>1, <2>2, <2>4, ZenonT(30) DEF Works
  <2> QED BY <2>3, <2>4 DEF Disk
<1>4. check_is_ata(d) <=> Works(d)
  <2>1. check_is_ata(d) <=> /\ ~NotReady(d)
                            /\ (r(d).lbam = 0 /\ r(d).lbah = 0) \/ (r(d).lbam = 60 /\ r(d).lbah = 195)
    BY DEF check_is_ata, r
  <2> QED BY <1>2, <1>3, <2>1, ZenonT(30) DEF Works
<1>5. d = 1 /\ Works(1) => check_slave
  <2>1. check_slave <=> ~NotReady(0) \/ r(0).error # 129 BY DEF check_slave, r
  <2>2. kind[1] # "none" => r(0).error \in {0, 1} BY <1>2, Zenon
  <2>3. r(0).error \in {0, 1} => r(0).error # 129 OBVIOUS
  <2>4. Works(1) => kind[1] # "none" BY DEF Works
  <2> QED BY <2>1, <2>2, <2>3, <2>4
<1> QED BY <1>4, <1>5

LEMMA Step_check_device_type ==
  ASSUME IInv, check_device_type
  PROVE  IInv'
<1>1. Types' BY DEF IInv, Types, check_device_type, driver, device, threads, Boots
<1>2. BootInv'
  <2>1. Unidentified(0)' /\ Unidentified(1)'
    <3>1. boot = "check" /\ registered' = {}
      BY DEF IInv, BootInv, check_device_type
    <3>2. ASSUME NEW d \in Disk PROVE is_ata'[d] <=> Works(d)'
      <4>1. is_ata'[d] = (check_is_ata(d) /\ (d = 1 => check_slave)) BY DEF check_device_type
      <4>2. Works(d)' = Works(d) BY DEF check_device_type, Works
      <4> QED BY <4>1, <4>2, Detects, Zenon DEF IInv, Types
    <3> QED BY <3>1, <3>2 DEF Unidentified, Disk
  <2>2. boot = "check" /\ boot' = "identify0" BY DEF check_device_type
  <2>3. Quiet' /\ lock' = NULL /\ \A t \in Thread : pc'[t] = "idle"
    BY <2>2 DEF check_device_type, IInv, BootInv, Quiet, driver, threads, device
  <2> QED BY <2>1, <2>2, <2>3 DEF BootInv
<1>3. LockInv' BY NobodyOwns DEF check_device_type, driver
<1> QED BY <1>1, <1>2, <1>3 DEF IInv

LEMMA Step_identify_issue ==
  ASSUME IInv, identify_issue
  PROVE  IInv'
<1>1. Types'
  <2>1. phase = "idle" /\ Booting \in Disk
    BY DEF IInv, BootInv, Quiet, identify_issue, Booting, Disk
  <2>2. regs' \in [device : Disk, lbal : Nat, lbam : Nat, lbah : Nat, top : Nat]
    <3>1. regs \in [device : Disk, lbal : Nat, lbam : Nat, lbah : Nat, top : Nat]
      BY Zenon DEF IInv, Types
    <3>2. regs' = regs \/ regs' = [regs EXCEPT !.device = Booting]
      BY Zenon DEF identify_issue
    <3> QED BY <2>1, <3>1, <3>2
  <2>3. clash' = FALSE /\ phase' \in {"idle", "busy", "ask", "offer", "store"}
    <3>1. clash = FALSE BY Zenon DEF IInv, Types
    <3>2. UNCHANGED <<clash, phase>> \/ Command("identify") BY Zenon DEF identify_issue
    <3> QED BY <2>1, <3>1, <3>2, ZenonT(30) DEF Command
  <2> QED BY <2>2, <2>3, Zenon
          DEF IInv, Types, identify_issue, AfterBoot, Boots, detected, threads
<1>2. BootInv'
  BY IdeAssumption DEF IInv, Types, BootInv, LockInv, identify_issue, Command, Quiet, Signalled,
                       Unsignalled, Identified, Unidentified, Works, Booting, AfterBoot, driver,
                       device, threads, detected, Disk, Boots
<1>3. LockInv'
  <2>1. boot' # "done" \/ Quiet' BY DEF identify_issue, IInv, BootInv, Quiet, AfterBoot
  <2> QED BY <2>1, NobodyOwns DEF identify_issue
<1> QED BY <1>1, <1>2, <1>3 DEF IInv

LEMMA Step_identify_ata_device ==
  ASSUME IInv, identify_ata_device
  PROVE  IInv'
<1>1. Types' BY DEF IInv, Types, identify_ata_device, Booting, AfterBoot, threads, Disk, Boots
<1>2. BootInv'
  BY DEF IInv, Types, BootInv, identify_ata_device, Quiet, Signalled, Unsignalled, Identified,
     Unidentified, Works, Booting, AfterBoot, threads
<1>3. LockInv'
  <2>1. boot = "wait1" => Signalled BY DEF identify_ata_device, IInv, BootInv, Unsignalled
  <2>2. boot' # "done" \/ Quiet'
    BY <2>1 DEF identify_ata_device, IInv, Types, Signalled, Quiet, Booting, AfterBoot
  <2> QED BY <2>2, NobodyOwns DEF identify_ata_device
<1> QED BY <1>1, <1>2, <1>3 DEF IInv

(* An interrupt that is pending has not been counted, and is expected.     *)
LEMMA OneCompletion ==
  ASSUME IInv, irq
  PROVE  completion_wait = 0
<1>1. CASE boot # "done"
  BY <1>1 DEF IInv, Types, Boots, BootInv, Quiet, Signalled, Unsignalled
<1>2. CASE boot = "done" /\ lock = NULL
  BY <1>2 DEF IInv, LockInv, Quiet
<1>3. CASE boot = "done" /\ lock # NULL
  <2>1. lock \in Thread /\ Owning(lock) /\ pc[lock] \in Places \ {"idle", "lock"}
    BY <1>3 DEF IInv, Types, LockInv
  <2>2. CASE op[lock].write
    BY <2>1, <2>2 DEF Owning, Writing, Quiet, Signalled, Unsignalled, Places
  <2>3. CASE ~op[lock].write
    BY <2>1, <2>3 DEF Owning, Reading, Quiet, Signalled, Unsignalled, Places
  <2> QED BY <2>2, <2>3
<1> QED BY <1>1, <1>2, <1>3

LEMMA Step_interrupt_handler ==
  ASSUME IInv, interrupt_handler
  PROVE  IInv'
<1>1. Types'
  <2>1. completion_wait = 0 BY OneCompletion DEF interrupt_handler
  <2>2. completion_wait' \in 0 .. 1 BY <2>1 DEF interrupt_handler
  <2> QED BY <2>2, Zenon DEF IInv, Types, interrupt_handler, detected, threads
<1>2. BootInv'
  BY IdeAssumption DEF IInv, Types, BootInv, LockInv, interrupt_handler, Command, Quiet,
                       Signalled, Unsignalled, Identified, Unidentified, Works, Booting,
                       AfterBoot, driver, device, threads, detected, Disk, Boots
<1>3. LockInv'
  BY IdeAssumption DEF IInv, Types, BootInv, LockInv, interrupt_handler, Owning, Reading, Writing,
                       Here, Quiet, Signalled, Unsignalled, Unidentified, Works, AfterBoot,
                       driver, device, threads
<1> QED BY <1>1, <1>2, <1>3 DEF IInv

LEMMA Step_DiskFails ==
  ASSUME IInv, DiskFails
  PROVE  IInv'
<1>1. Types'
  BY IdeAssumption DEF IInv, Types, BootInv, LockInv, DiskFails, Command, Quiet, Signalled,
                       Unsignalled, Identified, Unidentified, Works, Booting, AfterBoot, driver,
                       device, threads, detected, Disk, Boots
<1>2. BootInv'
  BY IdeAssumption DEF IInv, Types, BootInv, LockInv, DiskFails, Command, Quiet, Signalled,
                       Unsignalled, Identified, Unidentified, Works, Booting, AfterBoot, driver,
                       device, threads, detected, Disk, Boots
<1>3. LockInv'
  BY IdeAssumption DEF IInv, Types, BootInv, LockInv, DiskFails, Owning, Reading, Writing, Here,
                       Quiet, Signalled, Unsignalled, Unidentified, AfterBoot, driver, device,
                       threads
<1> QED BY <1>1, <1>2, <1>3 DEF IInv

(* The disk is at work for one command, of the thread that has the lock or *)
(* of ide_init().                                                          *)
LEMMA AtWork ==
  ASSUME IInv, phase \in {"busy", "store"}
  PROVE  \/ /\ boot \in {"wait0", "wait1"} /\ lock = NULL /\ cmd = "identify" /\ Unsignalled
            /\ phase = "busy" /\ expecting_interrupt /\ regs.device = Booting /\ is_ata[Booting]
         \/ /\ boot = "done" /\ lock \in Thread /\ op[lock] \in Op /\ Unsignalled
            /\ expecting_interrupt
            /\ regs = SectorRegs(op[lock].d, op[lock].s)
            /\ Address = op[lock].s /\ regs.device = op[lock].d
            /\ IF op[lock].write
               THEN /\ cmd = "write"
                    /\ \/ pc[lock] = "busy" /\ phase = "busy"
                       \/ pc[lock] = "down" /\ phase = "store" /\ data = op[lock].v
               ELSE cmd = "read" /\ pc[lock] = "down" /\ phase = "busy"
<1>1. CASE boot # "done"
  BY <1>1 DEF IInv, Types, Boots, BootInv, Quiet, Signalled, Unsignalled
<1>2. CASE boot = "done" /\ lock = NULL
  BY <1>2 DEF IInv, LockInv, Quiet
<1>3. CASE boot = "done" /\ lock # NULL
  <2>1. lock \in Thread /\ Owning(lock) /\ pc[lock] \in Places \ {"idle", "lock"}
    BY <1>3 DEF IInv, Types, LockInv
  <2>2. /\ op[lock] \in Op /\ op[lock].write \in BOOLEAN /\ op[lock].s \in Nat
        /\ op[lock].s < SectorLimit
    BY <2>1, OpFields DEF Owning
  <2>3. Unsignalled /\ pc[lock] \in {"busy", "down"}
    BY <2>1, <2>2 DEF Owning, Reading, Writing, Quiet, Signalled, Unsignalled, Places
  <2>4. regs = SectorRegs(op[lock].d, op[lock].s) /\ expecting_interrupt
    BY <2>1, <2>3 DEF Owning
  <2>5. Address = op[lock].s /\ regs.device = op[lock].d
    BY <2>2, <2>4, AddressRight
  <2>6. CASE op[lock].write
    BY <1>3, <2>1, <2>2, <2>3, <2>4, <2>5, <2>6 DEF Owning, Writing, Unsignalled, Signalled
  <2>7. CASE ~op[lock].write
    BY <1>3, <2>1, <2>2, <2>3, <2>4, <2>5, <2>7 DEF Owning, Reading, Unsignalled, Signalled
  <2> QED BY <2>6, <2>7
<1> QED BY <1>1, <1>2, <1>3

LEMMA Step_DiskWorks ==
  ASSUME IInv, DiskWorks
  PROVE  IInv'
<1>0. phase \in {"busy", "store"} BY DEF DiskWorks
<1>1. /\ boot' = boot /\ lock' = lock /\ pc' = pc /\ op' = op /\ result' = result /\ regs' = regs
      /\ cmd' = cmd /\ kind' = kind /\ registered' = registered /\ is_ata' = is_ata /\ clash' = clash
      /\ expecting_interrupt' = expecting_interrupt /\ completion_wait' = completion_wait
  BY DEF DiskWorks, detected, driver, threads
<1>2. CASE boot # "done"
  <2>1. /\ boot \in {"wait0", "wait1"} /\ lock = NULL /\ cmd = "identify" /\ Unsignalled
        /\ phase = "busy" /\ expecting_interrupt /\ regs.device = Booting /\ is_ata[Booting]
    BY <1>0, <1>2, AtWork
  <2>2. Works(Booting)
    BY <2>1 DEF IInv, BootInv, Unidentified, Booting
  <2>3. phase' = "offer" /\ irq' = TRUE /\ contents' = contents
    BY <2>1, <2>2 DEF DiskWorks, Works
  <2>4. Types' BY <1>1, <2>3 DEF IInv, Types
  <2>5. BootInv'
    BY <1>1, <2>1, <2>3 DEF IInv, BootInv, Booting, Unsignalled, Signalled, Unidentified,
                            Identified, Works
  <2>6. LockInv'
    BY <1>1, <2>1, <1>2, IdeAssumption DEF IInv, LockInv
  <2> QED BY <2>4, <2>5, <2>6 DEF IInv
<1>3. CASE boot = "done"
  <2> DEFINE t == lock
  <2>1. /\ lock \in Thread /\ op[t] \in Op /\ Unsignalled /\ expecting_interrupt
        /\ regs = SectorRegs(op[t].d, op[t].s) /\ Address = op[t].s /\ regs.device = op[t].d
        /\ IF op[t].write
           THEN /\ cmd = "write"
                /\ \/ pc[t] = "busy" /\ phase = "busy"
                   \/ pc[t] = "down" /\ phase = "store" /\ data = op[t].v
           ELSE cmd = "read" /\ pc[t] = "down" /\ phase = "busy"
    BY <1>0, <1>3, AtWork
  <2>2. op[t].d \in Disk /\ op[t].s \in Sector /\ op[t].v \in Value /\ op[t].write \in BOOLEAN
    BY <2>1, OpFields
  <2>3. /\ contents' \in [Disk -> [Sector -> Value]] /\ phase' \in {"offer", "ask", "idle"}
        /\ irq' \in BOOLEAN /\ Owning(t)'
    <3>1. CASE ~op[t].write
      <4>1. phase' = "offer" /\ irq' = TRUE /\ contents' = contents /\ data' = contents[op[t].d][op[t].s]
        BY <2>1, <3>1 DEF DiskWorks
      <4>2. Reading(t)'
        BY <1>1, <2>1, <3>1, <4>1 DEF Reading, Here, Signalled, Unsignalled
      <4> QED BY <1>1, <2>1, <3>1, <4>1, <4>2 DEF IInv, Types, Owning
    <3>2. CASE op[t].write /\ phase = "busy"
      <4>1. phase' = "ask" /\ irq' = irq /\ contents' = contents
        BY <2>1, <3>2 DEF DiskWorks
      <4>2. Writing(t)'
        BY <1>1, <2>1, <3>2, <4>1 DEF Writing, Signalled, Unsignalled
      <4> QED BY <1>1, <2>1, <3>2, <4>1, <4>2 DEF IInv, Types, Owning
    <3>3. CASE op[t].write /\ phase = "store"
      <4>1. /\ phase' = "idle" /\ irq' = TRUE /\ pc[t] = "down"
            /\ contents' = [contents EXCEPT ![op[t].d][op[t].s] = op[t].v]
        BY <2>1, <3>3 DEF DiskWorks
      <4>2. contents' \in [Disk -> [Sector -> Value]] /\ contents'[op[t].d][op[t].s] = op[t].v
        BY <2>2, <4>1 DEF IInv, Types
      <4>3. Writing(t)'
        BY <1>1, <2>1, <3>3, <4>1, <4>2 DEF Writing, Here, Signalled, Unsignalled
      <4> QED BY <1>1, <2>1, <3>3, <4>1, <4>2, <4>3 DEF IInv, Types, Owning
    <3> QED BY <2>1, <2>2, <3>1, <3>2, <3>3
  <2>4. Types' BY <1>1, <2>3 DEF IInv, Types
  <2>5. BootInv' BY <1>1, <1>3 DEF IInv, BootInv, Identified
  <2>6. LockInv'
    BY <1>1, <2>1, <2>3, IdeAssumption DEF IInv, LockInv
  <2> QED BY <2>4, <2>5, <2>6 DEF IInv
<1> QED BY <1>2, <1>3

-----------------------------------------------------------------------------
LEMMA NextIInv == IInv /\ [Next]_vars => IInv'
<1>1. ASSUME IInv, Next PROVE IInv'
  <2>1. CASE \E t \in Thread : Step(t)
    BY <1>1, <2>1, Step_AcquireLock, Step_select_sector, Step_issue_pio_command, Step_Completed,
       Step_wait_while_busy, Step_input_sector, Step_output_sector, Step_ReleaseLock DEF Step
  <2> QED
    BY <1>1, <2>1, Step_reset_channel, Step_check_device_type, Step_identify_issue,
       Step_identify_ata_device, Step_DiskWorks, Step_DiskFails, Step_interrupt_handler, StepStart
       DEF Next
<1>2. ASSUME IInv, UNCHANGED vars PROVE IInv'
  <2>1. Types' BY <1>2 DEF IInv, Types, vars, detected, driver, threads, device
  <2>2. BootInv'
    BY <1>2 DEF IInv, BootInv, vars, detected, driver, threads, device, Quiet, Unsignalled,
                Signalled,
                Booting, Unidentified, Identified, Works
  <2>3. \A t : Owning(t)' <=> Owning(t)
    <3>1. (Quiet' <=> Quiet) /\ (Unsignalled' <=> Unsignalled) /\ (Signalled' <=> Signalled)
      BY <1>2 DEF vars, driver, device, Quiet, Unsignalled, Signalled
    <3>2. \A t : (Reading(t)' <=> Reading(t)) /\ (Writing(t)' <=> Writing(t))
      BY <1>2, <3>1, ZenonT(30) DEF vars, threads, device, Reading, Writing, Here
    <3> QED BY <1>2, <3>1, <3>2, ZenonT(30) DEF vars, driver, threads, device, Owning
  <2>4. LockInv'
    BY <1>2, <2>3, Zenon DEF IInv, LockInv, vars, detected, driver, threads, device, Quiet
  <2> QED BY <2>1, <2>2, <2>4 DEF IInv
<1> QED BY <1>1, <1>2

(* The invariant gives the three state parts of DisksSound.                *)
LEMMA IInvSound == IInv => TypeOK /\ IdleWhenFree /\ DetectionRight
<1> SUFFICES ASSUME IInv PROVE TypeOK /\ IdleWhenFree /\ DetectionRight
  OBVIOUS
<1>1. TypeOK BY DEF IInv, Types, TypeOK, Places
<1>2. IdleWhenFree BY DEF IInv, Types, LockInv, IdleWhenFree, Quiet
<1>3. DetectionRight BY DEF IInv, BootInv, DetectionRight, Identified, Disk
<1> QED BY <1>1, <1>2, <1>3

(* A step changes a sector only for the write of the thread that has the   *)
(* lock, and only the sector that write names.                             *)
LEMMA StepDataRight == IInv /\ [Next]_vars => [DataRight]_vars
<1> SUFFICES ASSUME IInv, Next PROVE DataRight
  OBVIOUS
<1>1. ASSUME NEW t \in Thread, pc[t] = "end"
      PROVE  IF op[t].write THEN contents[op[t].d][op[t].s] = op[t].v
                            ELSE result[t] = contents[op[t].d][op[t].s]
  <2>1. Owning(t) BY <1>1 DEF IInv, LockInv
  <2> QED BY <1>1, <2>1 DEF Owning, Reading, Writing, Here
<1>2. ASSUME contents' # contents
      PROVE  \E u \in Thread : /\ lock = u /\ op[u].write
                               /\ contents' = [contents EXCEPT ![op[u].d][op[u].s] = op[u].v]
  <2>1. DiskWorks
    BY <1>2 DEF Next, Step, Start, AcquireLock, select_sector, issue_pio_command, Completed,
      wait_while_busy, input_sector, output_sector, ReleaseLock, reset_channel, check_device_type,
      identify_issue, identify_ata_device, DiskFails, interrupt_handler, device
  <2>2. phase = "store" /\ contents' = [contents EXCEPT ![regs.device][Address] = data]
    BY <1>2, <2>1 DEF DiskWorks
  <2>3. /\ lock \in Thread /\ op[lock] \in Op /\ Address = op[lock].s /\ regs.device = op[lock].d
        /\ op[lock].write /\ data = op[lock].v
    BY <2>2, AtWork, OpFields
  <2> QED BY <2>2, <2>3, Zenon
<1> QED BY <1>1, <1>2 DEF DataRight

(* For any threads, sectors and mix of disks, a read returns what its      *)
(* sector holds and a write leaves its value there and touches nothing     *)
(* else, no command meets a disk that has not finished the last, and       *)
(* detection registers the ATA disks that are there: what ide_read() and   *)
(* ide_write() promise under the lock of their channel.                    *)
THEOREM DisksAreSound == Spec => DisksSound
<1>1. Spec => []IInv BY InitIInv, NextIInv, PTL DEF Spec
<1>2. Spec => [](TypeOK /\ IdleWhenFree /\ DetectionRight) BY <1>1, IInvSound, PTL
<1>3. Spec => [][DataRight]_vars BY <1>1, StepDataRight, PTL DEF Spec
<1> QED BY <1>2, <1>3 DEF DisksSound
=============================================================================
