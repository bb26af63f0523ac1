----------------------------- MODULE AtaProofs -----------------------------
(***************************************************************************)
(* Theorems about the disk driver of Ata, for every number of polls, size  *)
(* of a disk and set of calls.                                             *)
(*                                                                         *)
(* The argument: as long as no polling loop has run out, the primary disk  *)
(* and the driver are in step.  The disk rests unless a call to it is past *)
(* its command; then it is at the sector the driver has come to, or stores *)
(* the one the driver has just moved.                                      *)
(***************************************************************************)
EXTENDS AtaImplementsDisk, TLAPS

(***************************************************************************)
(* The state of a device and of the driver, whatever they do.              *)
(***************************************************************************)
DeviceOK(d) ==
  /\ d.st = "idle" => d.left = 0
  /\ d.err => d.st = "idle"
  /\ d.st = "drq" => d.cmd \in {"read", "write"}
  /\ d.st = "busy" => d.cmd # "none"
  /\ d.cmd \in {"read", "write", "store"} =>
       d.left > 0 /\ d.lba + d.left <= LBA_LIMIT + MaxCount
  /\ d.st = "drq" \/ d.cmd = "store" => d.lba \in Lbas

DriverOK ==
  /\ pc \in {"check", "ready", "drq", "move", "flush"} => call \in Calls
  /\ pc \in {"ready", "drq", "move"} =>
       call.count # 0 /\ call.lba < LBA_LIMIT /\ done < call.count
  /\ pc = "flush" => call.fn = "write" /\ call.count # 0 /\ done = call.count
  /\ pc \in {"check", "ready"} => done = 0 /\ buf = <<>>
  /\ call.fn = "write" => buf = <<>>
  /\ pc \in {"boot", "reset"} => call = NoCall /\ ret = "none" /\ ~late
  /\ pc \in {"check", "ready", "drq", "move", "flush"} => ret = "none"

Typed ==
  /\ TypeOK /\ DriverOK
  /\ \A b \in Buses : DeviceOK(dev[b])

(***************************************************************************)
(* The primary disk and the driver in step, while no loop has run out.     *)
(***************************************************************************)
P == dev["primary"]
OnPrimary == call.bus = "primary"

(* The first n sectors of the call are on the disk.                        *)
Stored(n) ==
  \A i \in 1..n : /\ call.lba + i - 1 \in Lbas
                  /\ platter["primary"][call.lba + i - 1] = <<call.val, i>>

(* The device is at sector n of the call, counted from 0.                  *)
At(n) == P.lba = call.lba + n /\ P.left = call.count - n

Delivered(n) ==
  /\ \A i \in 1..n : call.lba + i - 1 \in Lbas
  /\ buf = [i \in 1..n |-> platter["primary"][call.lba + i - 1]]

Failed == P.st = "idle" /\ P.err
Storing(n) ==
  /\ P.st = "busy" /\ P.cmd = "store" /\ n > 0
  /\ At(n - 1) /\ P.data = <<call.val, n>> /\ Stored(n - 1)

InStep ==
  /\ pc = "reset" => P.st = "idle" \/ (P.st = "busy" /\ P.cmd = "reset")
  /\ pc \in {"boot", "idle", "check", "ready"} => P.st = "idle"
  /\ pc \in {"drq", "move", "flush"} /\ ~OnPrimary => P.st = "idle"
  /\ pc = "move" /\ OnPrimary => P.st = "drq"
  /\ pc \in {"drq", "move"} /\ OnPrimary /\ call.fn = "read" =>
       /\ Delivered(done)
       /\ Failed \/ (P.st # "idle" /\ P.cmd = "read" /\ At(done))
  /\ pc \in {"drq", "move"} /\ OnPrimary /\ call.fn = "write" =>
       \/ Failed
       \/ P.st # "idle" /\ P.cmd = "write" /\ At(done) /\ Stored(done)
       \/ Storing(done)
  /\ pc = "flush" /\ OnPrimary =>
       Failed \/ (P.st = "idle" /\ Stored(done)) \/ Storing(done)
  /\ Returned("read", "primary") => Delivered(call.count)
  /\ Returned("write", "primary") => P.err \/ Stored(call.count)

Inv == Typed /\ (~late => InStep)

USE DEF driver

LEMMA CallFacts ==
  \A c \in Calls :
    /\ c.bus \in Buses /\ c.lba \in Nat /\ c.lba <= LBA_LIMIT
    /\ c.count \in 0..MaxCount
    /\ c.fn = "read" \/ (c.fn = "write" /\ c.val \in Values)
  BY CallsAssumption, AtaAssumption DEF Reads, Writes

LEMMA SectorFacts ==
  /\ Zero \in Sectors
  /\ \A v \in Values, i \in 1..MaxCount : <<v, i>> \in Sectors
  BY DEF Sectors, SectorsOf

LEMMA RestFacts ==
  /\ Rest \in Devices /\ DeviceOK(Rest)
  /\ Rest.st = "idle" /\ ~Rest.err
  BY SectorFacts, AtaAssumption DEF Rest, Devices, DeviceOK

LEMMA InitTyped == Init => Typed
<1> SUFFICES ASSUME Init PROVE Typed
  OBVIOUS
<1>1. platter \in [Buses -> [Lbas -> Sectors]]
  BY SectorFacts DEF Init
<1>2. dev \in [Buses -> Devices] /\ \A b \in Buses : DeviceOK(dev[b])
  BY RestFacts DEF Init
<1>3. <<>> \in Seq(Sectors \cup {Junk})
  OBVIOUS
<1>4. TypeOK
  <2>1. buf \in Seq(Sectors \cup {Junk}) /\ done = 0 /\ polls = 0
        /\ call = NoCall /\ pc = "boot" /\ ret = "none" /\ late = FALSE
    BY <1>3 DEF Init
  <2>2. late \in BOOLEAN
    BY <2>1
  <2>3. done \in 0..MaxCount /\ polls \in 0..POLLS
    BY <2>1, AtaAssumption
  <2>4. QED
    BY <1>1, <1>2, <2>1, <2>2, <2>3 DEF TypeOK, Steps
<1>5. DriverOK
  BY DEF Init, DriverOK, NoCall
<1>6. QED
  BY <1>2, <1>4, <1>5 DEF Typed

LEMMA InitInStep == Init => InStep
  BY RestFacts DEF Init, InStep, Returned, P, Buses

(***************************************************************************)
(* Types.                                                                  *)
(***************************************************************************)
LEMMA StartTyped ==
  Typed /\ (SkipInit \/ Reset \/ ResetWait \/ Call \/ CheckArguments) => Typed'
<1> SUFFICES ASSUME Typed,
                    SkipInit \/ Reset \/ ResetWait \/ Call \/ CheckArguments
             PROVE  Typed'
  OBVIOUS
<1> USE AtaAssumption DEF Typed, TypeOK, DriverOK, Steps
<1>1. CASE SkipInit
  BY <1>1 DEF SkipInit
<1>2. CASE Reset
  <2>1. /\ Busy("reset", 0, 0) \in Devices
        /\ DeviceOK(Busy("reset", 0, 0))
    BY SectorFacts DEF Busy, Devices, DeviceOK
  <2>2. dev' = [dev EXCEPT !["primary"] = Busy("reset", 0, 0)]
    BY <1>2 DEF Reset
  <2>3. dev' \in [Buses -> Devices] /\ \A b \in Buses : DeviceOK(dev'[b])
    BY <2>1, <2>2
  <2>4. QED
    BY <1>2, <2>3 DEF Reset
<1>3. CASE ResetWait
  <2>1. late' \in BOOLEAN
    <3>1. late' = late \/ late' = BSY(ReadyBus)
      BY <1>3 DEF ResetWait
    <3>2. QED
      BY <3>1 DEF BSY
  <2>2. /\ pc' \in {"reset", "idle"} /\ polls' \in 0..POLLS
        /\ UNCHANGED <<call, done, buf, ret, dev, platter>>
    BY <1>3 DEF ResetWait, Polled
  <2>3. QED
    BY <1>3, <2>1, <2>2 DEF ResetWait
<1>4. CASE Call
  <2>1. <<>> \in Seq(Sectors \cup {Junk})
    OBVIOUS
  <2>2. QED
    BY <1>4, <2>1 DEF Call
<1>5. CASE CheckArguments
  <2>1. call \in Calls /\ call.count \in 0..MaxCount
    BY <1>5, CallFacts DEF CheckArguments
  <2>2. QED
    BY <1>5, <2>1, CallFacts DEF CheckArguments, Refused, Return
<1>6. QED
  BY <1>1, <1>2, <1>3, <1>4, <1>5

LEMMA WaitTyped ==
  Typed /\ (Issue \/ NotReady \/ SeesError \/ SeesData \/ SeesNothing \/ Flush)
    => Typed'
<1> SUFFICES ASSUME Typed, Issue \/ NotReady \/ SeesError \/ SeesData
                             \/ SeesNothing \/ Flush
             PROVE  Typed'
  OBVIOUS
<1> USE AtaAssumption DEF Typed, TypeOK, DriverOK, Steps
<1>1. CASE Issue
  <2>1. call \in Calls /\ call.count # 0 /\ call.lba < LBA_LIMIT
    BY <1>1 DEF Issue
  <2>2. /\ call.bus \in Buses /\ call.lba \in Nat /\ call.count \in 1..MaxCount
        /\ call.fn \in {"read", "write"}
    BY <2>1, CallFacts
  <2>3. \A d \in Devices : DeviceOK(d) =>
          Programmed(d, call) \in Devices /\ DeviceOK(Programmed(d, call))
    BY <2>1, <2>2, SectorFacts DEF Programmed, Busy, Devices, DeviceOK
  <2>4. dev' = [dev EXCEPT ![call.bus] = Programmed(dev[call.bus], call)]
    BY <1>1 DEF Issue
  <2>5. dev' \in [Buses -> Devices] /\ \A b \in Buses : DeviceOK(dev'[b])
    BY <2>2, <2>3, <2>4
  <2>6. QED
    BY <1>1, <2>5 DEF Issue
<1>2. CASE NotReady
  BY <1>2 DEF NotReady, Polled, Return
<1>3. CASE SeesError
  BY <1>3 DEF SeesError, Return
<1>4. CASE SeesData
  BY <1>4 DEF SeesData
<1>5. CASE SeesNothing
  <2>1. late' \in BOOLEAN
    BY <1>5 DEF SeesNothing
  <2>2. /\ \/ pc' = "drq" /\ UNCHANGED ret
           \/ pc' = "move" /\ UNCHANGED ret
           \/ pc' = "idle" /\ ret' = "error"
        /\ polls' \in 0..POLLS /\ pc = "drq"
        /\ UNCHANGED <<call, done, buf, dev, platter>>
    BY <1>5 DEF SeesNothing, Polled, Return
  <2>3. QED
    BY <2>1, <2>2
<1>6. CASE Flush
  <2>1. late' \in BOOLEAN
    BY <1>6 DEF Flush
  <2>2. /\ \/ pc' = "flush" /\ UNCHANGED ret
           \/ pc' = "idle" /\ ret' = "ok"
        /\ polls' \in 0..POLLS /\ pc = "flush"
        /\ UNCHANGED <<call, done, buf, dev, platter>>
    BY <1>6 DEF Flush, Polled, Return
  <2>3. QED
    BY <2>1, <2>2
<1>7. QED
  BY <1>1, <1>2, <1>3, <1>4, <1>5, <1>6

LEMMA MoveTyped == Typed /\ (ReadSector \/ WriteSector) => Typed'
<1> SUFFICES ASSUME Typed, ReadSector \/ WriteSector PROVE Typed'
  OBVIOUS
<1> DEFINE d == dev[call.bus]
<1>1. /\ pc = "move" /\ call \in Calls /\ call.bus \in Buses
      /\ call.count \in 1..MaxCount /\ done \in Nat /\ done < call.count
      /\ d \in Devices /\ DeviceOK(d)
  BY CallFacts, AtaAssumption
  DEF ReadSector, WriteSector, Typed, TypeOK, DriverOK
<1>2. /\ Moved /\ UNCHANGED <<late, platter>>
  BY DEF ReadSector, WriteSector
<1>3. /\ done' = done + 1 /\ polls' = 0 /\ call' = call
      /\ \/ pc' = "drq" /\ ret' = ret /\ done + 1 < call.count
         \/ /\ pc' = "flush" /\ ret' = ret /\ call.fn = "write"
            /\ done + 1 = call.count
         \/ pc' = "idle" /\ ret' = "ok"
  BY <1>1, <1>2 DEF Moved, NextStep
<1>4. ASSUME dev' \in [Buses -> Devices], \A b \in Buses : DeviceOK(dev'[b]),
             buf' \in Seq(Sectors \cup {Junk}),
             call.fn = "write" => buf' = <<>>
      PROVE  Typed'
  <2>1. done' \in 0..MaxCount /\ polls' \in 0..POLLS
    BY <1>1, <1>3, AtaAssumption
  <2>2. TypeOK'
    BY <1>2, <1>3, <1>4, <2>1 DEF Typed, TypeOK, Steps
  <2>3. DriverOK'
    BY <1>1, <1>2, <1>3, <1>4, CallFacts DEF Typed, DriverOK
  <2>4. QED
    BY <1>4, <2>2, <2>3 DEF Typed
<1>5. CASE ReadSector
  <2>1. CASE d.st = "drq" /\ d.cmd = "read"
    <3>1. TakenFrom(d) \in Devices /\ DeviceOK(TakenFrom(d))
      BY <1>1, <2>1, RestFacts, SectorFacts, AtaAssumption
      DEF TakenFrom, Busy, Devices, DeviceOK
    <3>2. dev' = [dev EXCEPT ![call.bus] = TakenFrom(d)]
      BY <1>5, <2>1 DEF ReadSector
    <3>3. dev' \in [Buses -> Devices] /\ \A b \in Buses : DeviceOK(dev'[b])
      BY <1>1, <3>1, <3>2 DEF Typed, TypeOK
    <3>4. platter[call.bus][d.lba] \in Sectors
      BY <1>1, <2>1 DEF Typed, TypeOK, DeviceOK
    <3>5. buf' = Append(buf, platter[call.bus][d.lba])
      BY <1>5, <2>1 DEF ReadSector
    <3>6. buf' \in Seq(Sectors \cup {Junk})
      BY <3>4, <3>5 DEF Typed, TypeOK
    <3>7. QED
      BY <1>4, <1>5, <3>3, <3>6 DEF ReadSector
  <2>2. CASE ~(d.st = "drq" /\ d.cmd = "read")
    <3>1. dev' = dev /\ buf' = Append(buf, Junk)
      BY <1>5, <2>2 DEF ReadSector
    <3>2. buf' \in Seq(Sectors \cup {Junk})
      BY <3>1 DEF Typed, TypeOK
    <3>3. QED
      BY <1>4, <1>5, <3>1, <3>2 DEF ReadSector, Typed, TypeOK
  <2>3. QED
    BY <2>1, <2>2
<1>6. CASE WriteSector
  <2>0. call.fn = "write" /\ buf' = buf /\ buf = <<>>
    BY <1>6 DEF WriteSector, Typed, DriverOK
  <2>1. CASE d.st = "drq" /\ d.cmd = "write"
    <3> DEFINE e == [Busy("store", d.lba, d.left) EXCEPT
                       !.data = <<call.val, done + 1>>]
    <3>0. call.val \in Values /\ done + 1 \in 1..MaxCount
      BY <1>1, <2>0, CallFacts, AtaAssumption
    <3>1. <<call.val, done + 1>> \in Sectors
      BY <3>0, SectorFacts
    <3>2. e \in Devices /\ DeviceOK(e)
      BY <1>1, <2>1, <3>1 DEF Busy, Devices, DeviceOK
    <3>3. dev' = [dev EXCEPT ![call.bus] = e]
      BY <1>6, <2>1 DEF WriteSector
    <3> HIDE DEF e
    <3>4. dev' \in [Buses -> Devices] /\ \A b \in Buses : DeviceOK(dev'[b])
      BY <1>1, <3>2, <3>3 DEF Typed, TypeOK
    <3>5. QED
      BY <1>4, <2>0, <3>4 DEF Typed, TypeOK
  <2>2. CASE ~(d.st = "drq" /\ d.cmd = "write")
    <3>1. dev' = dev
      BY <1>6, <2>2 DEF WriteSector
    <3>2. QED
      BY <1>4, <2>0, <3>1 DEF Typed, TypeOK
  <2>3. QED
    BY <2>1, <2>2
<1>7. QED
  BY <1>5, <1>6

LEMMA DeviceTyped ==
  ASSUME Typed, NEW b \in Buses, Device(b) PROVE Typed'
<1> DEFINE d == dev[b]
<1>1. d \in Devices /\ DeviceOK(d) /\ d.st = "busy"
  BY DEF Device, Offer, Store, Ready, Fail, BSY, Typed, TypeOK
<1>2. ASSUME NEW e \in Devices, DeviceOK(e), dev' = [dev EXCEPT ![b] = e],
             platter' \in [Buses -> [Lbas -> Sectors]],
             UNCHANGED <<driver, late>>
      PROVE  Typed'
  <2>1. dev' \in [Buses -> Devices] /\ \A a \in Buses : DeviceOK(dev'[a])
    BY <1>2 DEF Typed, TypeOK
  <2>2. QED
    BY <1>2, <2>1 DEF Typed, TypeOK, DriverOK
<1>3. CASE Offer(b)
  <2>1. [d EXCEPT !.st = "drq"] \in Devices
        /\ DeviceOK([d EXCEPT !.st = "drq"])
    BY <1>1, <1>3 DEF Offer, Devices, DeviceOK
  <2>2. dev' = [dev EXCEPT ![b] = [d EXCEPT !.st = "drq"]]
    BY <1>3 DEF Offer
  <2>3. QED
    BY <1>2, <1>3, <2>1, <2>2 DEF Offer, Typed, TypeOK
<1>4. CASE Store(b)
  <2> DEFINE e == IF d.left = 1 THEN Rest
                  ELSE Busy("write", d.lba + 1, d.left - 1)
  <2>1. e \in Devices /\ DeviceOK(e)
    BY <1>1, <1>4, RestFacts, SectorFacts, AtaAssumption
    DEF Store, Busy, Devices, DeviceOK
  <2>2. dev' = [dev EXCEPT ![b] = e]
    BY <1>4 DEF Store
  <2>3. platter' \in [Buses -> [Lbas -> Sectors]]
    BY <1>1, <1>4 DEF Store, Typed, TypeOK, Devices
  <2>4. QED
    BY <1>2, <1>4, <2>1, <2>2, <2>3 DEF Store
<1>5. CASE Ready(b)
  BY <1>2, <1>5, RestFacts DEF Ready, Typed, TypeOK
<1>6. CASE Fail(b)
  <2>1. [Rest EXCEPT !.err = TRUE] \in Devices
        /\ DeviceOK([Rest EXCEPT !.err = TRUE])
    BY RestFacts DEF Rest, Devices, DeviceOK
  <2>2. QED
    BY <1>2, <1>6, <2>1 DEF Fail, Typed, TypeOK
<1>7. QED
  BY <1>3, <1>4, <1>5, <1>6 DEF Device

LEMMA NextTyped == Typed /\ [Next]_vars => Typed'
<1> SUFFICES ASSUME Typed, [Next]_vars PROVE Typed'
  OBVIOUS
<1>1. CASE UNCHANGED vars
  BY <1>1 DEF vars, Typed, TypeOK, DriverOK
<1>2. QED
  BY <1>1, StartTyped, WaitTyped, MoveTyped, DeviceTyped DEF Next, Driver

(* Whatever the disks do, no value of the driver leaves its range: it      *)
(* moves no more sectors than it was asked for and polls no longer than it *)
(* means to.                                                               *)
THEOREM TypeCorrect == Spec => []TypeOK
<1>1. Typed => TypeOK
  BY DEF Typed
<1>2. QED
  BY <1>1, InitTyped, NextTyped, PTL DEF Spec

(***************************************************************************)
(* Disk and driver in step.                                                *)
(***************************************************************************)
LEMMA SameInStep ==
  ASSUME InStep, UNCHANGED driver, P' = P,
         platter'["primary"] = platter["primary"]
  PROVE  InStep'
  BY DEF InStep, OnPrimary, Delivered, Failed, At, Stored, Storing, Returned

(* A step that leaves the driver between two calls, with no success.       *)
LEMMA RestInStep ==
  ASSUME pc' \in {"idle", "check", "ready"}, ret' # "ok", P'.st = "idle"
  PROVE  InStep'
  BY DEF InStep, Returned

(* Nothing that happens during a call to the other disk matters.           *)
LEMMA ElsewhereInStep ==
  ASSUME pc' \in Steps \ {"boot", "reset"}, call'.bus # "primary",
         P'.st = "idle"
  PROVE  InStep'
  BY DEF InStep, Returned, OnPrimary

LEMMA StartInStep ==
  ASSUME Inv, ~late',
         SkipInit \/ Reset \/ ResetWait \/ Call \/ CheckArguments \/ NotReady
  PROVE  InStep'
<1> USE DEF Inv
<1>1. CASE SkipInit
  BY <1>1, RestInStep DEF SkipInit, Typed, DriverOK, InStep, P
<1>2. CASE Reset
  <2>1. P'.st = "busy" /\ P'.cmd = "reset"
    BY <1>2 DEF Reset, P, Busy, Typed, TypeOK, Buses
  <2>2. QED
    BY <1>2, <2>1 DEF Reset, InStep, Returned
<1>3. CASE ResetWait
  <2>1. InStep /\ P' = P /\ ret # "ok"
    BY <1>3 DEF ResetWait, Typed, DriverOK, P
  <2>2. CASE pc' = "idle" /\ late' = BSY(ReadyBus)
    <3>1. P.st = "idle"
      BY <1>3, <2>1, <2>2 DEF ResetWait, InStep, BSY, ReadyBus, P
    <3>2. QED
      BY <1>3, <2>1, <2>2, <3>1, RestInStep DEF ResetWait
  <2>3. CASE UNCHANGED <<pc, late>>
    BY <1>3, <2>1, <2>3 DEF ResetWait, InStep, Returned
  <2>4. QED
    BY <1>3, <2>2, <2>3 DEF ResetWait
<1>4. CASE Call
  <2>1. P.st = "idle"
    BY <1>4 DEF Call, InStep, P
  <2>2. QED
    BY <1>4, <2>1, RestInStep DEF Call, P
<1>5. CASE CheckArguments
  <2>1. P.st = "idle" /\ P' = P
    BY <1>5 DEF CheckArguments, InStep, P
  <2>2. pc' \in {"idle", "ready"} /\ ret' # "ok"
    BY <1>5 DEF CheckArguments, Return, Typed, DriverOK
  <2>3. QED
    BY <2>1, <2>2, RestInStep
<1>6. CASE NotReady
  BY <1>6 DEF NotReady, InStep, BSY, ReadyBus, P
<1>7. QED
  BY <1>1, <1>2, <1>3, <1>4, <1>5, <1>6

LEMMA IssueInStep == ASSUME Inv, ~late', Issue PROVE InStep'
<1>1. /\ P.st = "idle" /\ done = 0 /\ buf = <<>> /\ pc' = "drq"
      /\ call \in Calls /\ UNCHANGED <<call, done, buf, ret>>
  BY DEF Issue, Inv, Typed, DriverOK, InStep
<1>2. call.lba \in Nat /\ call.count \in Nat
  BY <1>1, CallFacts, AtaAssumption
<1>3. CASE ~OnPrimary
  <2>1. P' = P
    BY <1>3 DEF Issue, P, OnPrimary, Inv, Typed, TypeOK
  <2>2. QED
    BY <1>1, <1>3, <2>1, ElsewhereInStep DEF OnPrimary, Steps
<1>4. CASE OnPrimary
  <2>1. P' = Busy(call.fn, call.lba, call.count)
    BY <1>1, <1>4
    DEF Issue, P, OnPrimary, Programmed, Inv, Typed, TypeOK, Buses
  <2>2. At(done)'
    BY <1>1, <1>2, <2>1 DEF At, Busy
  <2>3. Stored(done)' /\ Delivered(done)'
    BY <1>1 DEF Stored, Delivered
  <2>4. call.fn \in {"read", "write"}
    BY <1>1, CallFacts
  <2>5. P'.st = "busy" /\ P'.cmd = call.fn
    BY <2>1 DEF Busy
  <2>6. QED
    BY <1>1, <1>4, <2>2, <2>3, <2>4, <2>5 DEF InStep, Returned, OnPrimary
<1>5. QED
  BY <1>3, <1>4

LEMMA WaitInStep ==
  ASSUME Inv, ~late', SeesError \/ SeesData \/ SeesNothing \/ Flush
  PROVE  InStep'
<1>0. UNCHANGED <<call, done, buf, dev, platter>> /\ P' = P
  BY DEF SeesError, SeesData, SeesNothing, Flush, Return, P
<1>1. ~late /\ InStep
  BY DEF SeesError, SeesData, SeesNothing, Flush, Inv
<1>2. CASE SeesError
  <2>1. P.st = "idle"
    <3>1. CASE OnPrimary
      BY <1>2, <3>1
      DEF SeesError, OnPrimary, ERR, P, Inv, Typed, DeviceOK, Buses
    <3>2. CASE ~OnPrimary
      BY <1>1, <1>2, <3>2 DEF SeesError, InStep
    <3>3. QED
      BY <3>1, <3>2
  <2>2. QED
    BY <1>0, <1>2, <2>1, RestInStep DEF SeesError, Return
<1>3. CASE SeesData
  <2>0. pc = "drq" /\ pc' = "move" /\ ret' = ret /\ platter' = platter
    BY <1>3 DEF SeesData
  <2>1. CASE ~OnPrimary
    <3>1. P'.st = "idle"
      BY <1>0, <1>1, <2>0, <2>1 DEF InStep
    <3>2. QED
      BY <1>0, <2>0, <2>1, <3>1, ElsewhereInStep DEF OnPrimary, Steps
  <2>2. CASE OnPrimary
    <3>1. P.st = "drq"
      BY <1>3, <2>2 DEF SeesData, HasData, DRQ, OnPrimary, P
    <3>2. QED
      BY <1>0, <1>1, <2>0, <2>2, <3>1
      DEF InStep, OnPrimary, Returned, Failed, Storing, At, Stored, Delivered
  <2>3. QED
    BY <2>1, <2>2
<1>4. CASE SeesNothing
  <2>0. pc = "drq" /\ platter' = platter
    BY <1>4 DEF SeesNothing
  <2>1. CASE UNCHANGED <<call, pc, done, ret, late>>
    BY <1>0, <1>1, <2>0, <2>1
    DEF InStep, OnPrimary, Returned, Failed, Storing, At, Stored, Delivered
  <2>2. CASE late' = (late \/ call.bus = "primary") /\ pc' = "move"
    <3>1. ~OnPrimary
      BY <2>2, Zenon DEF OnPrimary
    <3>2. P'.st = "idle"
      BY <1>0, <1>1, <2>0, <3>1 DEF InStep
    <3>3. QED
      BY <1>0, <2>2, <3>1, <3>2, ElsewhereInStep DEF OnPrimary, Steps
  <2>3. CASE Return("error") /\ ChecksTimeout(call)
    <3>1. late'
      BY <1>4, <2>3 DEF SeesNothing, ChecksTimeout, Return
    <3>2. QED
      BY <3>1
  <2>4. QED
    BY <1>4, <2>1, <2>2, <2>3 DEF SeesNothing
<1>5. CASE Flush
  <2>0. pc = "flush" /\ platter' = platter
    BY <1>5 DEF Flush
  <2>1. CASE UNCHANGED <<call, pc, done, ret, late>>
    BY <1>0, <1>1, <2>0, <2>1
    DEF InStep, OnPrimary, Returned, Failed, Storing, At, Stored, Delivered
  <2>2. CASE late' = (late \/ BSY(ReadyBus)) /\ Return("ok")
    <3>1. P.st # "busy" /\ pc' = "idle"
      BY <2>2 DEF BSY, ReadyBus, P, Return
    <3>2. P.st = "idle" /\ (OnPrimary => P.err \/ Stored(done))
      BY <1>1, <2>0, <3>1 DEF InStep, Failed, Storing
    <3>3. done = call.count /\ call.fn = "write"
      BY <2>0 DEF Inv, Typed, DriverOK
    <3>4. QED
      BY <1>0, <2>0, <3>1, <3>2, <3>3
      DEF InStep, OnPrimary, Returned, Stored
  <2>3. QED
    BY <1>5, <2>1, <2>2 DEF Flush
<1>6. QED
  BY <1>2, <1>3, <1>4, <1>5

LEMMA AppendNext ==
  ASSUME NEW S, NEW n \in Nat, NEW f, \A i \in 1..(n + 1) : f[i] \in S
  PROVE  Append([i \in 1..n |-> f[i]], f[n + 1]) = [i \in 1..(n + 1) |-> f[i]]
<1>1. [i \in 1..n |-> f[i]] \in Seq(S) /\ Len([i \in 1..n |-> f[i]]) = n
  OBVIOUS
<1>2. [i \in 1..(n + 1) |-> f[i]] \in Seq(S)
  OBVIOUS
<1>3. QED
  BY <1>1, <1>2

LEMMA MoveElsewhere ==
  ASSUME Inv, ~late, ReadSector \/ WriteSector, ~OnPrimary PROVE InStep'
<1>1. InStep /\ pc = "move" /\ pc' \in {"drq", "flush", "idle"} /\ call' = call
  BY DEF Inv, ReadSector, WriteSector, Moved, NextStep
<1>2. P' = P
  BY DEF P, OnPrimary, ReadSector, WriteSector, Inv, Typed, TypeOK, Buses
<1>3. QED
  BY <1>1, <1>2, ElsewhereInStep DEF InStep, OnPrimary, Steps

LEMMA MoveFacts ==
  ASSUME Inv, ~late, ReadSector \/ WriteSector, OnPrimary
  PROVE  /\ InStep /\ pc = "move" /\ P.st = "drq" /\ At(done)
         /\ call \in Calls /\ call.lba \in Nat /\ call.count \in Nat
         /\ done \in Nat /\ done < call.count
         /\ P.lba = call.lba + done /\ P.lba \in Lbas
         /\ P.left = call.count - done /\ ~P.err
         /\ done' = done + 1 /\ UNCHANGED <<call, platter>>
<1>1. InStep /\ pc = "move" /\ P.st = "drq" /\ call.fn \in {"read", "write"}
  BY DEF Inv, ReadSector, WriteSector, InStep
<1>2. At(done)
  BY <1>1 DEF InStep, Failed, Storing
<1>3. call \in Calls /\ done < call.count /\ done \in Nat /\ DeviceOK(P)
  BY <1>1, AtaAssumption DEF Inv, Typed, TypeOK, DriverOK, P, Buses
<1>4. call.lba \in Nat /\ call.count \in Nat
  BY <1>3, CallFacts, AtaAssumption
<1>5. QED
  BY <1>1, <1>2, <1>3, <1>4
  DEF At, DeviceOK, ReadSector, WriteSector, Moved

LEMMA ReadInStep ==
  ASSUME Inv, ~late, ReadSector, OnPrimary PROVE InStep'
<1>0. /\ InStep /\ pc = "move" /\ P.st = "drq" /\ At(done)
      /\ call \in Calls /\ call.lba \in Nat /\ call.count \in Nat
      /\ done \in Nat /\ done < call.count
      /\ P.lba = call.lba + done /\ P.lba \in Lbas
      /\ P.left = call.count - done
      /\ done' = done + 1 /\ UNCHANGED <<call, platter>>
  BY MoveFacts
<1>1. call.fn = "read" /\ P.cmd = "read" /\ Delivered(done)
  BY <1>0 DEF ReadSector, InStep, Failed
<1>2. /\ buf' = Append(buf, platter["primary"][call.lba + done])
      /\ P' = TakenFrom(P)
  BY <1>0, <1>1
  DEF ReadSector, OnPrimary, P, Inv, Typed, TypeOK, Buses
<1>3. Delivered(done)'
  <2> DEFINE f == [i \in Nat |-> platter["primary"][call.lba + i - 1]]
  <2>1. \A i \in 1..(done + 1) : call.lba + i - 1 \in Lbas
    <3>1. \A i \in 1..(done + 1) : i \in 1..done \/ i = done + 1
      BY <1>0
    <3>2. call.lba + (done + 1) - 1 = P.lba
      BY <1>0
    <3>3. QED
      BY <1>0, <1>1, <3>1, <3>2 DEF Delivered
  <2>2. \A i \in 1..(done + 1) : f[i] \in Sectors
    BY <1>0, <2>1 DEF Inv, Typed, TypeOK, Buses
  <2>3. buf = [i \in 1..done |-> f[i]] /\ f[done + 1] = platter["primary"][P.lba]
    BY <1>0, <1>1 DEF Delivered
  <2>4. [i \in 1..(done + 1) |-> f[i]]
          = [i \in 1..(done + 1) |-> platter["primary"][call.lba + i - 1]]
    BY <1>0
  <2> HIDE DEF f
  <2>5. buf' = [i \in 1..(done + 1) |-> f[i]]
    BY <1>0, <1>2, <2>2, <2>3, AppendNext
  <2>6. QED
    BY <1>0, <2>1, <2>4, <2>5 DEF Delivered
<1>4. CASE done + 1 < call.count
  <2>1. P' = Busy("read", P.lba + 1, P.left - 1)
    BY <1>0, <1>2, <1>4 DEF TakenFrom
  <2>2. pc' = "drq"
    BY <1>0, <1>4 DEF ReadSector, Moved, NextStep
  <2>3. P'.st = "busy" /\ P'.cmd = "read" /\ At(done)'
    BY <1>0, <2>1 DEF Busy, At
  <2>4. QED
    BY <1>0, <1>1, <1>3, <2>2, <2>3 DEF InStep, Returned, OnPrimary
<1>5. CASE ~(done + 1 < call.count)
  <2>1. P' = Rest /\ pc' = "idle" /\ done' = call.count
    BY <1>0, <1>1, <1>2, <1>5 DEF TakenFrom, ReadSector, Moved, NextStep
  <2>2. P'.st = "idle"
    BY <2>1, RestFacts
  <2>3. QED
    BY <1>0, <1>1, <1>3, <2>1, <2>2 DEF InStep, Returned
<1>6. QED
  BY <1>4, <1>5

LEMMA WriteInStep ==
  ASSUME Inv, ~late, WriteSector, OnPrimary PROVE InStep'
<1>0. /\ InStep /\ pc = "move" /\ P.st = "drq" /\ At(done)
      /\ call \in Calls /\ call.lba \in Nat /\ call.count \in Nat
      /\ done \in Nat /\ done < call.count
      /\ P.lba = call.lba + done /\ P.lba \in Lbas
      /\ P.left = call.count - done
      /\ done' = done + 1 /\ UNCHANGED <<call, platter>>
  BY MoveFacts
<1>1. call.fn = "write" /\ P.cmd = "write" /\ Stored(done)
  BY <1>0 DEF WriteSector, InStep, Failed, Storing
<1>2. P' = [Busy("store", P.lba, P.left) EXCEPT !.data = <<call.val, done + 1>>]
  BY <1>0, <1>1
  DEF WriteSector, OnPrimary, P, Inv, Typed, TypeOK, Buses
<1>3. /\ P'.st = "busy" /\ P'.cmd = "store" /\ P'.lba = P.lba
      /\ P'.left = P.left /\ P'.data = <<call.val, done + 1>>
  BY <1>2 DEF Busy
<1>4. Storing(done)'
  <2>0. done' - 1 = done /\ done' > 0
    BY <1>0
  <2>1. Stored(done - 1)'
    BY <1>0, <1>1, <2>0 DEF Stored
  <2>2. At(done - 1)'
    BY <1>0, <1>3, <2>0 DEF At
  <2>3. QED
    BY <1>0, <1>3, <2>0, <2>1, <2>2 DEF Storing
<1>5. pc' = "drq" \/ (pc' = "flush" /\ done' = call.count)
  BY <1>0, <1>1 DEF WriteSector, Moved, NextStep
<1>6. QED
  BY <1>0, <1>1, <1>4, <1>5 DEF InStep, Returned, OnPrimary

LEMMA DeviceInStep ==
  ASSUME Inv, ~late, NEW b \in Buses, Device(b) PROVE InStep'
<1>0. InStep /\ UNCHANGED driver /\ dev[b].st = "busy"
      /\ dev \in [Buses -> Devices] /\ platter \in [Buses -> [Lbas -> Sectors]]
  BY DEF Inv, Device, Offer, Store, Ready, Fail, BSY, Typed, TypeOK
<1>1. CASE b # "primary"
  <2>1. P' = P /\ platter'["primary"] = platter["primary"]
    BY <1>0, <1>1 DEF Device, Offer, Store, Ready, Fail, P, Buses
  <2>2. QED
    BY <1>0, <2>1, SameInStep
<1>2. CASE b = "primary"
  <2>0. /\ P.st = "busy" /\ P \in Devices /\ DeviceOK(P) /\ ~P.err
        /\ call \in Calls => call.lba \in Nat /\ call.count \in Nat
        /\ done \in Nat /\ pc \in Steps
    BY <1>0, <1>2, CallFacts, AtaAssumption
    DEF P, Inv, Typed, TypeOK, DeviceOK
  <2>1. CASE pc = "reset"
    <3>1. P.cmd = "reset"
      BY <1>0, <2>0, <2>1 DEF InStep
    <3>2. P'.st = "idle"
      BY <1>0, <1>2, <3>1, RestFacts
      DEF Device, Offer, Store, Ready, Fail, P, Rest
    <3>3. QED
      BY <1>0, <2>1, <3>2 DEF InStep, Returned
  <2>2. CASE pc \in {"drq", "flush"} /\ OnPrimary
    <3>0. /\ call \in Calls /\ call.lba \in Nat /\ call.count \in Nat
          /\ pc = "drq" => done < call.count
          /\ pc = "flush" => call.fn = "write" /\ done = call.count
          /\ call.fn \in {"read", "write"}
      BY <2>0, <2>2, CallFacts DEF Inv, Typed, DriverOK
    <3>1. CASE Fail(b)
      <4>1. P' = [Rest EXCEPT !.err = TRUE] /\ platter' = platter
        BY <1>0, <1>2, <3>1 DEF Fail, P
      <4>2. Failed'
        BY <4>1 DEF Failed, Rest
      <4>3. QED
        BY <1>0, <2>2, <4>1, <4>2
        DEF InStep, Returned, OnPrimary, Delivered, Failed
    <3>2. CASE Offer(b)
      <4>1. P' = [P EXCEPT !.st = "drq"] /\ platter' = platter
            /\ P.cmd \in {"read", "write"}
        BY <1>0, <1>2, <3>2 DEF Offer, P
      <4>2. /\ P'.st = "drq" /\ P'.cmd = P.cmd
            /\ P'.lba = P.lba /\ P'.left = P.left
        BY <2>0, <4>1 DEF Devices
      <4>3. pc = "drq" /\ P.cmd = call.fn /\ At(done)
        BY <1>0, <2>0, <2>2, <3>0, <4>1
        DEF InStep, Failed, Storing
      <4>4. At(done)'
        BY <1>0, <4>2, <4>3 DEF At
      <4>5. (call.fn = "read" => Delivered(done))
            /\ (call.fn = "write" => Stored(done))
        BY <1>0, <2>0, <2>2, <4>1, <4>3 DEF InStep, Failed, Storing
      <4>6. QED
        BY <1>0, <2>2, <4>1, <4>2, <4>3, <4>4, <4>5
        DEF InStep, Returned, OnPrimary, Delivered, Stored
    <3>3. CASE Store(b)
      <4>1. /\ P.cmd = "store"
            /\ P' = IF P.left = 1 THEN Rest
                    ELSE Busy("write", P.lba + 1, P.left - 1)
            /\ platter' = [platter EXCEPT !["primary"][P.lba] = P.data]
        BY <1>0, <1>2, <3>3 DEF Store, P
      <4>2. Storing(done) /\ call.fn = "write"
        BY <1>0, <2>0, <2>2, <3>0, <4>1 DEF InStep, Failed
      <4>3. /\ done > 0 /\ Stored(done - 1) /\ P.data = <<call.val, done>>
            /\ P.lba = call.lba + (done - 1) /\ P.lba \in Lbas
            /\ P.left = call.count - (done - 1)
        BY <2>0, <4>1, <4>2 DEF Storing, At, DeviceOK
      <4>4. Stored(done)'
        <5>1. \A i \in 1..done : i \in 1..(done - 1) \/ i = done
          BY <2>0
        <5>2. \A i \in 1..(done - 1) : call.lba + i - 1 # P.lba
          BY <2>0, <3>0, <4>3
        <5>3. platter'["primary"][P.lba] = P.data
          BY <1>0, <4>1, <4>3 DEF Buses
        <5>4. \A l \in Lbas : l # P.lba =>
                platter'["primary"][l] = platter["primary"][l]
          BY <1>0, <4>1 DEF Buses
        <5>5. P.lba = call.lba + done - 1
          BY <2>0, <3>0, <4>3
        <5>6. QED
          BY <1>0, <4>3, <5>1, <5>2, <5>3, <5>4, <5>5 DEF Stored
      <4>5. CASE pc = "drq"
        <5>1. P' = Busy("write", P.lba + 1, P.left - 1)
          BY <2>0, <3>0, <4>1, <4>3, <4>5
        <5>2. P'.st = "busy" /\ P'.cmd = "write" /\ At(done)'
          BY <1>0, <2>0, <3>0, <4>3, <5>1 DEF Busy, At
        <5>3. QED
          BY <1>0, <2>2, <4>2, <4>4, <4>5, <5>2 DEF InStep, Returned, OnPrimary
      <4>6. CASE pc = "flush"
        <5>1. P' = Rest
          BY <2>0, <3>0, <4>1, <4>3, <4>6
        <5>2. P'.st = "idle"
          BY <5>1, RestFacts
        <5>3. QED
          BY <1>0, <2>2, <4>2, <4>4, <4>6, <5>2 DEF InStep, Returned, OnPrimary
      <4>7. QED
        BY <2>2, <4>5, <4>6
    <3>4. CASE Ready(b)
      <4>1. P.cmd = "reset"
        BY <1>2, <3>4 DEF Ready, P
      <4>2. QED
        BY <1>0, <2>0, <2>2, <3>0, <4>1 DEF InStep, Failed, Storing
    <3>5. QED
      BY <3>1, <3>2, <3>3, <3>4 DEF Device
  <2>3. QED
    BY <1>0, <2>0, <2>1, <2>2 DEF InStep, Steps
<1>3. QED
  BY <1>1, <1>2

LEMMA NextInv == Inv /\ [Next]_vars => Inv'
<1> SUFFICES ASSUME Inv, [Next]_vars, ~late' PROVE InStep'
  BY NextTyped DEF Inv
<1>1. CASE UNCHANGED vars
  BY <1>1, SameInStep DEF vars, P, Inv
<1>2. CASE ReadSector \/ WriteSector
  BY <1>2, MoveElsewhere, ReadInStep, WriteInStep DEF ReadSector, WriteSector
<1>3. ASSUME NEW b \in Buses, Device(b) PROVE InStep'
  BY <1>3, DeviceInStep DEF Device, Offer, Store, Ready, Fail
<1>4. QED
  BY <1>1, <1>2, <1>3, StartInStep, IssueInStep, WaitInStep DEF Next, Driver

LEMMA InitInv == Init => Inv
  BY InitTyped, InitInStep DEF Inv

(* A read of the primary disk that succeeds has stored the sectors it was  *)
(* asked for, in order, unless a polling loop ran out before.              *)
THEOREM ReadsDeliver == Spec => []PrimaryReadsDeliver
<1>1. Inv => PrimaryReadsDeliver
  <2> SUFFICES ASSUME Inv, Returned("read", "primary"), ~late
               PROVE  /\ Asked \subseteq Lbas
                      /\ buf = [i \in 1..call.count |->
                                  platter["primary"][call.lba + i - 1]]
    BY DEF PrimaryReadsDeliver
  <2>1. Delivered(call.count) /\ call \in Calls
    BY DEF Inv, InStep, Typed, TypeOK, Returned, NoCall
  <2>2. call.lba \in Nat /\ call.count \in Nat
    BY <2>1, CallFacts, AtaAssumption
  <2>3. \A l \in Asked : l - call.lba + 1 \in 1..call.count
                           /\ call.lba + (l - call.lba + 1) - 1 = l
    BY <2>2 DEF Asked
  <2>4. QED
    BY <2>1, <2>3 DEF Delivered
<1>2. QED
  BY <1>1, InitInv, NextInv, PTL DEF Spec

(* A write to the primary disk that succeeds is on the disk when it        *)
(* returns, unless a polling loop ran out or the disk shows an error.      *)
THEOREM WritesStick == Spec => []PrimaryWritesStick
<1>1. Inv => PrimaryWritesStick
  <2> SUFFICES ASSUME Inv, Returned("write", "primary"), ~late,
                      ~ERR("primary")
               PROVE  OnDisk
    BY DEF PrimaryWritesStick
  <2>1. Stored(call.count) /\ call \in Calls /\ call.bus = "primary"
    BY DEF Inv, InStep, Typed, TypeOK, Returned, NoCall, ERR, P
  <2>2. call.lba \in Nat /\ call.count \in Nat
    BY <2>1, CallFacts, AtaAssumption
  <2>3. \A l \in Asked : l - call.lba + 1 \in 1..call.count
                           /\ call.lba + (l - call.lba + 1) - 1 = l
    BY <2>2 DEF Asked
  <2>4. QED
    BY <2>1, <2>3 DEF Stored, OnDisk
<1>2. QED
  BY <1>1, InitInv, NextInv, PTL DEF Spec

(* The primary disk gets no command while it is at work on another, unless *)
(* a polling loop ran out before.                                          *)
THEOREM CommandsTaken == Spec => PrimaryCommandsTaken
<1>1. Inv /\ [Next]_vars
        => [pc = "ready" /\ pc' = "drq" /\ call.bus = "primary" /\ ~late
              => dev["primary"].st = "idle"]_vars
  BY DEF Inv, InStep, P
<1>2. QED
  BY <1>1, InitInv, NextInv, PTL DEF Spec, PrimaryCommandsTaken

(***************************************************************************)
(* The driver keeps the promise of DiskService.                            *)
(***************************************************************************)
LEMMA InitIsStart == Init => Disk!Start
  BY DEF Init, Disk!Start, Phase, Resting, Buses

LEMMA StartServes ==
  ASSUME Inv, ~late',
         SkipInit \/ Reset \/ ResetWait \/ Call \/ CheckArguments
  PROVE  Disk!Serve \/ UNCHANGED Disk!dvars
<1>1. CASE SkipInit \/ Reset \/ ResetWait
  <2>1. pc \in {"boot", "reset"} /\ pc' \in {"reset", "idle"} /\ ~late
    BY <1>1 DEF SkipInit, Reset, ResetWait, Inv, Typed, DriverOK
  <2>2. UNCHANGED <<call, ret, buf, platter>>
    BY <1>1 DEF SkipInit, Reset, ResetWait
  <2>3. QED
    BY <2>1, <2>2 DEF Disk!dvars, Phase, Resting
<1>2. CASE Call
  <2>1. Disk!Ask
    BY <1>2 DEF Call, Disk!Ask, Phase, Resting
  <2>2. QED
    BY <2>1 DEF Disk!Serve
<1>3. CASE CheckArguments
  <2>1. pc = "check" /\ buf = <<>> /\ UNCHANGED <<call, buf, late, platter>>
    BY <1>3 DEF CheckArguments, Return, Inv, Typed, DriverOK
  <2>2. CASE Refused(call)
    <3>1. pc' = "idle" /\ ret' = "invalid" /\ Disk!Refused
      BY <1>3, <2>2 DEF CheckArguments, Return, Refused, Disk!Refused
    <3>2. Disk!Refuse
      BY <2>1, <3>1 DEF Disk!Refuse, Phase, Resting
    <3>3. QED
      BY <3>2 DEF Disk!Serve
  <2>3. CASE ~Refused(call)
    <3>1. pc' = "ready" /\ ret' = ret
      BY <1>3, <2>3 DEF CheckArguments
    <3>2. QED
      BY <2>1, <3>1 DEF Disk!dvars, Phase, Resting
  <2>4. QED
    BY <2>2, <2>3
<1>4. QED
  BY <1>1, <1>2, <1>3

LEMMA WaitServes ==
  ASSUME Inv, ~late',
         Issue \/ NotReady \/ SeesError \/ SeesData \/ SeesNothing \/ Flush
  PROVE  Disk!Serve \/ UNCHANGED Disk!dvars
<1>1. ~late /\ UNCHANGED <<call, buf, platter>>
  BY DEF Issue, NotReady, SeesError, SeesData, SeesNothing, Flush, Return
<1>2. CASE pc \in {"ready", "drq"}
  <2>1. ~Disk!Refused
    <3>1. call.count # 0 /\ call.lba \in Nat /\ call.lba < LBA_LIMIT
      BY <1>2, CallFacts DEF Inv, Typed, DriverOK
    <3>2. QED
      BY <3>1, AtaAssumption DEF Disk!Refused
  <2>2. \/ pc' \in {"ready", "drq", "move"} /\ ret' = ret
        \/ pc' = "idle" /\ ret' = "error"
    BY <1>2 DEF Issue, NotReady, SeesError, SeesData, SeesNothing, Flush, Return
  <2>3. CASE pc' \in {"ready", "drq", "move"} /\ ret' = ret
    BY <1>1, <1>2, <2>3 DEF Disk!dvars, Phase, Resting
  <2>4. CASE pc' = "idle" /\ ret' = "error"
    <3>1. Disk!Fail
      BY <1>1, <1>2, <2>1, <2>4 DEF Disk!Fail, Phase, Resting
    <3>2. QED
      BY <3>1 DEF Disk!Serve
  <2>5. QED
    BY <2>2, <2>3, <2>4
<1>3. CASE Flush
  <2>1. pc = "flush" /\ buf = <<>>
    BY <1>3 DEF Flush, Inv, Typed, DriverOK
  <2>2. CASE UNCHANGED <<pc, ret>>
    BY <1>1, <2>1, <2>2 DEF Disk!dvars, Phase, Resting
  <2>3. CASE Return("ok")
    <3>1. Disk!Done
      BY <1>1, <2>1, <2>3 DEF Disk!Done, Return, Phase, Resting
    <3>2. QED
      BY <3>1 DEF Disk!Serve
  <2>4. QED
    BY <1>3, <2>2, <2>3 DEF Flush
<1>4. QED
  BY <1>2, <1>3 DEF Issue, NotReady, SeesError, SeesData, SeesNothing

LEMMA MoveServes ==
  ASSUME Inv, Inv', ~late', ReadSector \/ WriteSector
  PROVE  Disk!Serve \/ UNCHANGED Disk!dvars
<1>1. /\ ~late /\ pc = "move" /\ UNCHANGED <<call, platter>>
      /\ call \in Calls /\ call.count # 0
      /\ call.lba < LBA_LIMIT
  BY DEF ReadSector, WriteSector, Moved, Inv, Typed, DriverOK
<1>2. call.lba \in Nat /\ call.count \in Nat /\ ~Disk!Refused
  BY <1>1, CallFacts, AtaAssumption DEF Disk!Refused
<1>3. CASE pc' = "drq" /\ ret' = ret
  BY <1>1, <1>3 DEF Disk!dvars, Phase, Resting
<1>4. CASE pc' = "flush" /\ ret' = ret /\ call.fn = "write"
  <2>1. Disk!Take
    BY <1>1, <1>2, <1>4 DEF Disk!Take, Phase, Resting
  <2>2. QED
    BY <2>1 DEF Disk!Serve
<1>5. CASE pc' = "idle" /\ ret' = "ok" /\ call.fn = "read"
  <2>1. ASSUME Disk!Reading
        PROVE  Disk!Wanted \subseteq Lbas /\ buf' = Disk!Contents
    <3>1. Delivered(call.count)'
      BY <1>1, <1>5, <2>1 DEF Inv, InStep, Returned, Disk!Reading
    <3>2. \A l \in Disk!Wanted : l - call.lba + 1 \in 1..call.count
                                 /\ call.lba + (l - call.lba + 1) - 1 = l
      BY <1>2 DEF Disk!Wanted
    <3>3. QED
      BY <1>1, <3>1, <3>2 DEF Delivered, Disk!Contents
  <2>2. Disk!Deliver
    BY <1>1, <1>2, <1>5, <2>1 DEF Disk!Deliver, Phase, Resting
  <2>3. QED
    BY <2>2 DEF Disk!Serve
<1>6. call.fn \in {"read", "write"}
  BY <1>1, CallFacts
<1>7. QED
  BY <1>1, <1>3, <1>4, <1>5, <1>6
  DEF ReadSector, WriteSector, Moved, NextStep

LEMMA DeviceServes ==
  ASSUME Inv, ~late', NEW b \in Buses, Device(b)
  PROVE  Disk!Serve \/ UNCHANGED Disk!dvars
<1>1. UNCHANGED <<driver, late>> /\ ~late /\ InStep
  BY DEF Device, Offer, Store, Ready, Fail, Inv
<1>2. CASE platter'["primary"] = platter["primary"]
  BY <1>1, <1>2 DEF Disk!dvars, Phase, Resting
<1>3. CASE platter'["primary"] # platter["primary"]
  <2>1. /\ b = "primary" /\ P.st = "busy" /\ P.cmd = "store"
        /\ platter'["primary"] = [platter["primary"] EXCEPT ![P.lba] = P.data]
    BY <1>3 DEF Device, Offer, Store, Ready, Fail, BSY, P, Inv, Typed, TypeOK,
                Buses
  <2>2. /\ pc \in {"drq", "flush"} /\ OnPrimary
        /\ call.fn = "write" /\ Storing(done)
    BY <1>1, <2>1, CallFacts
    DEF InStep, Inv, Typed, TypeOK, Steps, DriverOK, Failed
  <2>3. /\ call \in Calls /\ call.lba \in Nat /\ call.count \in Nat
        /\ done \in Nat /\ done <= call.count
        /\ pc = "drq" => done < call.count
    BY <2>2, CallFacts, AtaAssumption DEF Inv, Typed, TypeOK, DriverOK
  <2>4. /\ done > 0 /\ P.data = <<call.val, done>>
        /\ P.lba = call.lba + (done - 1) /\ P.lba \in Lbas
    BY <2>1, <2>2 DEF Storing, At, Inv, Typed, DeviceOK, P, Buses
  <2>5. P.lba \in Disk!Wanted /\ Disk!New(P.lba) = P.data
    BY <2>3, <2>4 DEF Disk!Wanted, Disk!New
  <2>6. P.lba = Disk!Last => pc = "flush"
    BY <2>2, <2>3, <2>4 DEF Disk!Last
  <2>7. Disk!Replace(P.lba)
    BY <1>1, <2>1, <2>2, <2>4, <2>5, <2>6
    DEF Disk!Replace, Disk!Writing, OnPrimary, Phase, Resting
  <2>8. QED
    BY <2>4, <2>7 DEF Disk!Serve
<1>4. QED
  BY <1>2, <1>3

(* The driver implements the disk the file store relies on: as long as no  *)
(* polling loop runs out, every call to the primary disk delivers, writes  *)
(* or fails as the service says, whatever the devices' pace, their errors  *)
(* and the calls to the other disk.                                        *)
THEOREM DriverImplementsDisk == Spec => ImplementsDisk
<1>1. Inv /\ Inv' /\ [Next]_vars => [Disk!Serve]_Disk!dvars
  <2> SUFFICES ASSUME Inv, Inv', [Next]_vars
               PROVE  Disk!Serve \/ UNCHANGED Disk!dvars
    OBVIOUS
  <2>1. CASE late'
    BY <2>1 DEF Disk!Serve, Disk!Lapse
  <2>2. CASE UNCHANGED vars
    BY <2>2 DEF vars, Disk!dvars, Phase, Resting
  <2>3. CASE ~late' /\ Next
    BY <2>3, StartServes, WaitServes, MoveServes, DeviceServes
    DEF Next, Driver
  <2>4. QED
    BY <2>1, <2>2, <2>3
<1>2. QED
  BY <1>1, InitIsStart, InitInv, NextInv, PTL
  DEF Spec, ImplementsDisk, Disk!Spec
=============================================================================
