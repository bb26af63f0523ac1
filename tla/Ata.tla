-------------------------------- MODULE Ata --------------------------------
(***************************************************************************)
(* The polled PIO disk driver of TinyOS (src/src/ata.cpp) and the two      *)
(* disks it talks to: the primary slave (ata_read, ata_write) and the      *)
(* secondary master (ata_read_sec, ata_write_sec).                         *)
(*                                                                         *)
(* A call programs a device, then polls its status register a bounded      *)
(* number of times for each sector.  The device works at its own pace: any *)
(* number of polls may pass before it goes on.  The 256 word transfers of  *)
(* a sector are one step.  The devices are the disks of QEMU, for which    *)
(* the kernel is built: while a command is in progress (BSY or DRQ) they   *)
(* ignore the registers and new commands, and data moved without DRQ is    *)
(* ignored (written) or junk (read).                                       *)
(***************************************************************************)
EXTENDS Naturals, Sequences

CONSTANTS
  POLLS,      \* tries of a polling loop (100000 in the code)
  LastLba,    \* last sector of a disk; a caller may ask for one past it
  MaxCount,   \* largest count asked for
  Calls,      \* the calls that are made
  LBA_LIMIT,  \* first LBA the driver refuses (0x10000000 in the code)
  Values      \* contents a caller may write

ASSUME AtaAssumption ==
  /\ POLLS \in Nat \ {0}
  /\ LastLba \in Nat /\ MaxCount \in Nat /\ LBA_LIMIT \in Nat

Buses == {"primary", "secondary"}
Lbas == 0..LastLba
Zero == <<"zero", 0>>   \* a sector nobody has written
Junk == <<"junk", 0>>   \* what the data port gives without DRQ
SectorsOf(v) == {<<v, i>> : i \in 1..MaxCount}
Sectors == {Zero} \cup UNION {SectorsOf(v) : v \in Values}

Reads == [fn: {"read"}, bus: Buses, lba: 0..LBA_LIMIT, count: 0..MaxCount]
Writes == [fn: {"write"}, bus: Buses, lba: 0..LBA_LIMIT, count: 0..MaxCount,
           val: Values]
NoCall == [fn |-> "none"]

ASSUME CallsAssumption == Calls \subseteq Reads \cup Writes

VARIABLES
  call,     \* the call being served, or the last one
  pc,       \* where the driver is in it
  done,     \* s: sectors the driver has moved
  polls,    \* tries of the current polling loop
  buf,      \* what a read has stored
  ret,      \* what the last call returned
  late,     \* history: a loop on the primary disk ran out, and no call
            \* has found that disk at rest since
  dev,      \* the devices: st, cmd, lba, left, err and the sector taken
  platter   \* what is on each disk

driver == <<call, pc, done, polls, buf, ret>>
vars == <<driver, late, dev, platter>>

Devices ==
  [st: {"idle", "busy", "drq"},
   cmd: {"none", "reset", "read", "write", "store"},
   lba: 0..(LBA_LIMIT + MaxCount), left: 0..MaxCount, err: BOOLEAN,
   data: Sectors]
Rest == [st |-> "idle", cmd |-> "none", lba |-> 0, left |-> 0, err |-> FALSE,
         data |-> Zero]
Busy(c, l, n) == [st |-> "busy", cmd |-> c, lba |-> l, left |-> n,
                  err |-> FALSE, data |-> Zero]

BSY(b) == dev[b].st = "busy"
DRQ(b) == dev[b].st = "drq"
ERR(b) == dev[b].err

(* ata_wait_not_busy polls the primary status port, whatever bus the call  *)
(* is for.                                                                 *)
SlipReadyBus == "secondary"     \* polls the other bus
ReadyBus == "primary"

(* The counter of a polling loop after one more try.                       *)
SlipPolled(n) == n     \* never counts
Polled(n) == n + 1

(* What the loop before a sector waits for.                                *)
SlipHasData(b) == TRUE     \* moves the sector at once
HasData(b) == DRQ(b)

(***************************************************************************)
(* The start: ata_init resets the primary disk and waits for it, but does  *)
(* not look at the answer.  It is not called without a framebuffer.        *)
(***************************************************************************)
SkipInit ==
  /\ pc = "boot"
  /\ pc' = "idle"
  /\ UNCHANGED <<call, done, polls, buf, ret, late, dev, platter>>

Reset ==
  /\ pc = "boot"
  /\ dev' = [dev EXCEPT !["primary"] = Busy("reset", 0, 0)]
  /\ pc' = "reset"
  /\ UNCHANGED <<call, done, polls, buf, ret, late, platter>>

ResetWait ==
  /\ pc = "reset"
  /\ IF BSY(ReadyBus) /\ Polled(polls) < POLLS
     THEN polls' = Polled(polls) /\ UNCHANGED <<pc, late>>
     ELSE pc' = "idle" /\ polls' = 0 /\ late' = BSY(ReadyBus)
  /\ UNCHANGED <<call, done, buf, ret, dev, platter>>

(***************************************************************************)
(* A call.                                                                 *)
(***************************************************************************)
Return(r) ==
  /\ pc' = "idle"
  /\ ret' = r
  /\ polls' = 0
  /\ UNCHANGED <<call, done>>

Call ==
  /\ pc = "idle"
  /\ call' \in Calls
  /\ pc' = "check"
  /\ done' = 0 /\ polls' = 0 /\ buf' = <<>> /\ ret' = "none"
  /\ late' = (late /\ dev["primary"].st # "idle")
  /\ UNCHANGED <<dev, platter>>

SlipRefused(c) == c.lba >= LBA_LIMIT     \* takes an empty call
Refused(c) == c.count = 0 \/ c.lba >= LBA_LIMIT

CheckArguments ==
  /\ pc = "check"
  /\ IF Refused(call)
     THEN Return("invalid")
     ELSE pc' = "ready" /\ UNCHANGED <<call, done, polls, ret>>
  /\ UNCHANGED <<buf, late, dev, platter>>

(* A command register write: the device starts, unless it is at work.      *)
Programmed(d, c) ==
  IF d.st # "idle" THEN d ELSE Busy(c.fn, c.lba, c.count)

Issue ==
  /\ pc = "ready" /\ ~BSY(ReadyBus)
  /\ dev' = [dev EXCEPT ![call.bus] = Programmed(@, call)]
  /\ pc' = "drq"
  /\ polls' = 0
  /\ UNCHANGED <<call, done, buf, ret, late, platter>>

NotReady ==
  /\ pc = "ready" /\ BSY(ReadyBus)
  /\ IF Polled(polls) < POLLS
     THEN polls' = Polled(polls) /\ UNCHANGED <<call, pc, done, ret>>
     ELSE Return("error")
  /\ UNCHANGED <<buf, late, dev, platter>>

(* One try of the loop before a sector.                                    *)
SeesError ==
  /\ pc = "drq" /\ ERR(call.bus)
  /\ Return("error")
  /\ UNCHANGED <<buf, late, dev, platter>>

SeesData ==
  /\ pc = "drq" /\ ~ERR(call.bus) /\ HasData(call.bus)
  /\ pc' = "move"
  /\ UNCHANGED <<call, done, polls, buf, ret, late, dev, platter>>

(* ata_read fails when the loop runs out; the other three go on and move   *)
(* the sector all the same.                                                *)
ChecksTimeout(c) == c.fn = "read" /\ c.bus = "primary"

SeesNothing ==
  /\ pc = "drq" /\ ~ERR(call.bus) /\ ~HasData(call.bus)
  /\ IF Polled(polls) < POLLS
     THEN /\ polls' = Polled(polls)
          /\ UNCHANGED <<call, pc, done, ret, late>>
     ELSE /\ late' = (late \/ call.bus = "primary")
          /\ IF ChecksTimeout(call) THEN Return("error")
             ELSE pc' = "move" /\ UNCHANGED <<call, done, polls, ret>>
  /\ UNCHANGED <<buf, dev, platter>>

(* 512 bytes through the data port.  A read that takes the last sector     *)
(* ends the command; a sector written makes the device busy storing it.    *)
TakenFrom(d) ==
  IF d.left = 1 THEN Rest ELSE Busy("read", d.lba + 1, d.left - 1)

SlipNextStep(c, n) ==     \* one sector too many
  IF n <= c.count THEN "drq" ELSE IF c.fn = "write" THEN "flush" ELSE "idle"
SlipFlush(c, n) == IF n < c.count THEN "drq" ELSE "idle"     \* no last wait
NextStep(c, n) ==
  IF n < c.count THEN "drq" ELSE IF c.fn = "write" THEN "flush" ELSE "idle"

Moved ==
  /\ done' = done + 1
  /\ polls' = 0
  /\ pc' = NextStep(call, done + 1)
  /\ ret' = IF pc' = "idle" THEN "ok" ELSE ret
  /\ UNCHANGED call

ReadSector ==
  /\ pc = "move" /\ call.fn = "read"
  /\ LET d == dev[call.bus]
         asked == d.st = "drq" /\ d.cmd = "read"
     IN  /\ buf' = Append(buf, IF asked THEN platter[call.bus][d.lba]
                              ELSE Junk)
         /\ dev' = IF asked THEN [dev EXCEPT ![call.bus] = TakenFrom(d)]
                   ELSE dev
  /\ Moved
  /\ UNCHANGED <<late, platter>>

WriteSector ==
  /\ pc = "move" /\ call.fn = "write"
  /\ LET d == dev[call.bus]
         asked == d.st = "drq" /\ d.cmd = "write"
     IN  dev' = IF asked
                THEN [dev EXCEPT ![call.bus] =
                       [Busy("store", d.lba, d.left) EXCEPT
                          !.data = <<call.val, done + 1>>]]
                ELSE dev
  /\ Moved
  /\ UNCHANGED <<buf, late, platter>>

(* The wait at the end of a write, whose answer is not looked at.          *)
Flush ==
  /\ pc = "flush"
  /\ IF BSY(ReadyBus) /\ Polled(polls) < POLLS
     THEN polls' = Polled(polls) /\ UNCHANGED <<call, pc, done, ret, late>>
     ELSE /\ late' = (late \/ BSY(ReadyBus))
          /\ Return("ok")
  /\ UNCHANGED <<buf, dev, platter>>

(***************************************************************************)
(* The devices.                                                            *)
(***************************************************************************)
(* A sector is ready to be read, or room for one to be written.            *)
Offer(b) ==
  /\ BSY(b) /\ dev[b].cmd \in {"read", "write"} /\ dev[b].lba \in Lbas
  /\ dev' = [dev EXCEPT ![b].st = "drq"]
  /\ UNCHANGED <<driver, late, platter>>

Store(b) ==
  /\ BSY(b) /\ dev[b].cmd = "store"
  /\ platter' = [platter EXCEPT ![b][dev[b].lba] = dev[b].data]
  /\ dev' = [dev EXCEPT ![b] =
              IF @.left = 1 THEN Rest ELSE Busy("write", @.lba + 1, @.left - 1)]
  /\ UNCHANGED <<driver, late>>

Ready(b) ==
  /\ BSY(b) /\ dev[b].cmd = "reset"
  /\ dev' = [dev EXCEPT ![b] = Rest]
  /\ UNCHANGED <<driver, late, platter>>

Fail(b) ==
  /\ BSY(b)
  /\ dev' = [dev EXCEPT ![b] = [Rest EXCEPT !.err = TRUE]]
  /\ UNCHANGED <<driver, late, platter>>

-----------------------------------------------------------------------------
Init ==
  /\ call = NoCall /\ pc = "boot" /\ done = 0 /\ polls = 0 /\ buf = <<>>
  /\ ret = "none" /\ late = FALSE
  /\ dev = [b \in Buses |-> Rest]
  /\ platter = [b \in Buses |-> [l \in Lbas |-> Zero]]

Driver == SkipInit \/ Reset \/ ResetWait \/ CheckArguments \/ Issue
            \/ NotReady \/ SeesError \/ SeesData \/ SeesNothing
            \/ ReadSector \/ WriteSector \/ Flush
Device(b) == Offer(b) \/ Store(b) \/ Ready(b) \/ Fail(b)

Next == Call \/ Driver \/ \E b \in Buses : Device(b)

(* The processor keeps executing the driver.  The devices owe nothing.     *)
Spec == Init /\ [][Next]_vars /\ WF_vars(Driver)

-----------------------------------------------------------------------------
Steps == {"boot", "reset", "idle", "check", "ready", "drq", "move", "flush"}

TypeOK ==
  /\ call \in Calls \cup {NoCall}
  /\ pc \in Steps
  /\ done \in 0..MaxCount
  /\ polls \in 0..POLLS
  /\ buf \in Seq(Sectors \cup {Junk})
  /\ ret \in {"none", "ok", "error", "invalid"}
  /\ late \in BOOLEAN
  /\ dev \in [Buses -> Devices]
  /\ platter \in [Buses -> [Lbas -> Sectors]]

Returned(fn, b) == pc = "idle" /\ ret = "ok" /\ call.fn = fn /\ call.bus = b
Asked == call.lba..(call.lba + call.count - 1)
OnDisk == \A l \in Asked :
  l \in Lbas /\ platter[call.bus][l] = <<call.val, l - call.lba + 1>>

(* A read of the primary disk that succeeds has stored the sectors it was  *)
(* asked for, in order, unless an earlier call left the disk behind: after *)
(* a loop ran out, a late sector goes to the next read.                    *)
PrimaryReadsDeliver ==
  Returned("read", "primary") /\ ~late =>
    /\ Asked \subseteq Lbas
    /\ buf = [i \in 1..call.count |-> platter["primary"][call.lba + i - 1]]

(* A write to the primary disk that succeeds is on the disk when it        *)
(* returns, unless a loop ran out or the device shows an error at the end, *)
(* which the driver does not look at.                                      *)
PrimaryWritesStick ==
  Returned("write", "primary") /\ ~late /\ ~ERR("primary") => OnDisk

(* Unless a loop ran out before, the primary disk never gets a command     *)
(* while it is at work on another, so none is ignored.                     *)
PrimaryCommandsTaken ==
  [][pc = "ready" /\ pc' = "drq" /\ call.bus = "primary" /\ ~late
       => dev["primary"].st = "idle"]_vars

(* Every call returns, ata_init included, however slow or broken the disks *)
(* are.                                                                    *)
CallsReturn == pc # "idle" ~> pc = "idle"

(* "Returns EFI_SUCCESS on success, EFI_DEVICE_ERROR on failure."  Not so: *)
(* a write that the device never asked data for returns success.           *)
WriteSuccessMeansWritten ==
  pc = "idle" /\ ret = "ok" /\ call.fn = "write" => OnDisk
=============================================================================
