---------------------------------- MODULE Ata ----------------------------------
(***************************************************************************)
(* The ATA driver dev/ata.c against the drive (external): ATA_probe, which *)
(* identifies the drive and registers it as a block device, and            *)
(* ATA_read_block, a polled read of one block.  The drive works while the  *)
(* driver polls.  Partitions (fs/part.c) are block devices whose blocks    *)
(* are blocks of the drive.                                                *)
(*                                                                         *)
(* The drive keeps the last two values of each address register; a block   *)
(* number goes out as six digits of base ByteBase (256 in the code).  A    *)
(* buffer is described by the block of the drive its contents came from.   *)
(***************************************************************************)
EXTENDS KMalloc

CONSTANTS
    ByteBase,
    NumSectors,         \* blocks of the drive
    DriveKinds,         \* what may be on the bus
    PromptIdentify,     \* the drive raises DRQ together with the end of BSY after IDENTIFY
    Buffers,            \* where blocks are read to
    SizeOfDev,          \* sizeof(ATA_block_dev_t)
    NULL

(* What each of the six digits of a block number counts for. *)
Weight ==
    LET b == ByteBase
    IN <<1, b, b * b, b * b * b, b * b * b * b, b * b * b * b * b>>

ASSUME AtaAssumption ==
    /\ ByteBase \in Nat /\ ByteBase > 1
    /\ NumSectors \in 1..(ByteBase * Weight[6])
    /\ DriveKinds \subseteq {"floating", "absent", "packet", "error", "lba28", "ata"}
    /\ PromptIdentify \in BOOLEAN
    /\ Fits(SizeOfDev)
    /\ NULL \notin Nat

VARIABLES
    kind, work, status, regs,   \* drive: what it is, the command in progress, registers
    probe,          \* ATA_probe: "start", "busy", "found" or "none"
    drive,          \* ... the ATA_block_dev_t it returns
    devs,           \* block device -> its fields
    blk,            \* the list of block devices: head, tail, next
    rd,             \* ATA_read_block: where it is, where it reads to, what it returns
    buf,            \* buffer -> the block its contents came from
    heap

ataVars == <<kind, work, status, regs, probe, drive, devs, blk, rd, buf, heap>>

Idle == [pc |-> "idle", dst |-> NULL, ret |-> 0]
Returned(ret) == [pc |-> "back", dst |-> NULL, ret |-> ret]

AtaTypeOK ==
    /\ kind \in DriveKinds
    /\ work \in {"none", "identify", "read"}
    /\ status \subseteq {"BSY", "DRQ", "ERR"}
    /\ regs \in [{"num", "low", "high"} -> (0..(ByteBase - 1)) \X (0..(ByteBase - 1))]
    /\ probe \in {"start", "busy", "found", "none"}
    /\ rd.pc \in {"idle", "poll", "poll2", "data", "back", "panic"}
    /\ buf \in [Buffers -> 0..(NumSectors - 1) \cup {NULL}]

AtaInit ==
    /\ kind \in DriveKinds
    /\ work = "none" /\ status = {}
    /\ regs = [r \in {"num", "low", "high"} |-> <<0, 0>>]
    /\ probe = "start" /\ drive = NULL
    /\ devs = << >>
    /\ blk = [head |-> NULL, tail |-> NULL, next |-> << >>]
    /\ rd = Idle
    /\ buf = [b \in Buffers |-> NULL]
    /\ heap = EmptyHeap

(* BLK_register: LL_APPEND on the list of block devices. *)
BLK_register(l, d) ==
    IF l.head = NULL THEN [l EXCEPT !.head = d, !.tail = d]
                     ELSE [l EXCEPT !.next[l.tail] = d, !.tail = d]

-----------------------------------------------------------------------------
(* ATA_probe up to its first poll. *)
ATA_probe ==
    /\ probe = "start"
    /\ IF kind = "floating"
         THEN probe' = "none" /\ UNCHANGED <<work, status, regs>>
         ELSE /\ regs' = [r \in DOMAIN regs |-> <<regs[r][2], 0>>]
              /\ IF kind = "absent"
                   THEN probe' = "none" /\ UNCHANGED <<work, status>>
                   ELSE probe' = "busy" /\ work' = "identify" /\ status' = {"BSY"}
    /\ UNCHANGED <<kind, drive, devs, blk, rd, buf, heap>>

(* ... BSY is clear.  The second poll goes on only while DRQ and ERR are   *)
(* both set, so it does not wait: without DRQ the words read mean nothing. *)
ATA_identify(lba48, sectors) ==
    /\ probe = "busy" /\ "BSY" \notin status
    /\ "DRQ" \in status => lba48 = (kind # "lba28") /\ sectors = NumSectors
    /\ IF kind = "packet" \/ "ERR" \in status \/ ~lba48
         THEN probe' = "none" /\ UNCHANGED <<drive, devs, blk, heap>>
         ELSE LET m == kmalloc(heap, SizeOfDev)
              IN /\ probe' = "found"
                 /\ heap' = m.heap
                 /\ drive' = m.block
                 /\ devs' = Put(devs, m.block, [type |-> "MASS_STORAGE", tot_len |-> sectors,
                                                lba_offset |-> 0, num_sectors |-> 0])
                 /\ blk' = BLK_register([blk EXCEPT !.next = Put(@, m.block, NULL)], m.block)
    /\ status' = {} /\ work' = "none"
    /\ UNCHANGED <<kind, regs, rd, buf>>

-----------------------------------------------------------------------------
Digit(n, i) == (n \div Weight[i]) % ByteBase

(* Which block the drive takes the registers to mean. *)
Addressed ==
    LET part(r, i) == regs[r][2] * Weight[i] + regs[r][1] * Weight[i + 3]
    IN part("num", 1) + part("low", 2) + part("high", 3)

(* The six bytes of the block number, the upper three first. *)
SendAddress(n) ==
    regs' = [num |-> <<Digit(n, 4), Digit(n, 1)>>,
             low |-> <<Digit(n, 5), Digit(n, 2)>>,
             high |-> <<Digit(n, 6), Digit(n, 3)>>]

(* ATA_read_block as far as its poll. *)
ATA_read_block(d, n, dst) ==
    IF n >= devs[d].tot_len
      THEN rd' = Returned(-1) /\ UNCHANGED <<work, status, regs>>
      ELSE /\ SendAddress(n)
           /\ work' = "read" /\ status' = {"BSY"}
           /\ rd' = [pc |-> "poll", dst |-> dst, ret |-> 0]

part_read_block(d, n, dst) ==
    IF n >= devs[d].num_sectors
      THEN rd' = Returned(-1) /\ UNCHANGED <<work, status, regs>>
      ELSE ATA_read_block(d, n + devs[d].lba_offset, dst)

(* dev->read_block(dev, n, dst): the call; its return is rd.pc = "back". *)
read_block(d, n, dst) ==
    /\ rd.pc = "idle"
    /\ IF devs[d].type = "PARTITION" THEN part_read_block(d, n, dst)
                                     ELSE ATA_read_block(d, n, dst)
    /\ UNCHANGED <<kind, probe, drive, buf>>

(* ATA_poll: the end of the first loop, and the end of the second. *)
ATA_poll ==
    /\ \/ /\ rd.pc = "poll" /\ "BSY" \notin status
          /\ rd' = [rd EXCEPT !.pc = "poll2"]
       \/ /\ rd.pc = "poll2"
          /\ \/ "ERR" \in status /\ rd' = [rd EXCEPT !.pc = "panic"]
             \/ "ERR" \notin status /\ "DRQ" \in status /\ rd' = [rd EXCEPT !.pc = "data"]
    /\ UNCHANGED <<kind, work, status, regs, probe, drive, devs, blk, buf, heap>>

(* The words of the block, and the last look at the status.  The words are *)
(* in dst also when ATA_read_block returns -1.  Status and address are not *)
(* looked at again before they are written anew, and are cleared here.     *)
ATA_transfer(bad_status) ==
    /\ rd.pc = "data"
    /\ buf' = [buf EXCEPT ![rd.dst] = Addressed]
    /\ rd' = Returned(IF bad_status THEN -1 ELSE 1)
    /\ status' = {}
    /\ regs' = [r \in DOMAIN regs |-> <<0, 0>>]
    /\ UNCHANGED <<kind, work, probe, drive, devs, blk, heap>>

-----------------------------------------------------------------------------
(* The drive (external) ends a command, with data or with an error; BSY    *)
(* may fall before DRQ rises.                                              *)
drive_done(failed) ==
    /\ work # "none"
    /\ work = "identify" => failed = (kind \in {"error", "packet"})
    /\ work' = "none"
    /\ status' = IF failed THEN {"ERR"} ELSE {"DRQ"}
    /\ UNCHANGED <<kind, regs, probe, drive, devs, blk, rd, buf, heap>>

drive_not_busy ==
    /\ work = "read" \/ (work = "identify" /\ ~PromptIdentify)
    /\ "BSY" \in status
    /\ status' = {}
    /\ UNCHANGED <<kind, work, regs, probe, drive, devs, blk, rd, buf, heap>>

AtaNext ==
    \/ ATA_probe
    \/ \E lba48 \in BOOLEAN, sectors \in {0, NumSectors} : ATA_identify(lba48, sectors)
    \/ ATA_poll
    \/ \E bad_status \in BOOLEAN : ATA_transfer(bad_status)
    \/ \E failed \in BOOLEAN : drive_done(failed)
    \/ drive_not_busy
===============================================================================
