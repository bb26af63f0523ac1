---------------------------- MODULE DiskService ----------------------------
(***************************************************************************)
(* What the disk driver promises the file store about the primary disk     *)
(* (the prototypes of src/src/ata.h, as ata.cpp keeps them).  A call gets  *)
(* one answer.  A read that succeeds gives the sectors asked for.  Only a  *)
(* write changes the disk, and only the sectors it names; the last of them *)
(* never when it answers with an error.  A write that succeeds may have    *)
(* been lost.                                                              *)
(*                                                                         *)
(* Calls of one sector are thus the ReadOutcomes and WriteOutcomes of      *)
(* module Pfs.  The promise holds while the disk is on time: once a wait   *)
(* for it has run out, nothing is promised until it rests again.           *)
(***************************************************************************)
EXTENDS Naturals, Sequences

CONSTANTS
  Lbas,       \* the sectors of the disk
  LBA_LIMIT,  \* first LBA that is refused
  Calls,      \* the calls that are made
  NoCall,     \* the call before the first
  Zero        \* a sector nobody has written

VARIABLES
  call,     \* the call being served, or the last one
  phase,    \* "idle", "asked", or "taken": all data has been handed over
  answer,   \* what the last call returned
  got,      \* what the last read delivered
  sectors,  \* what is on the disk
  sound     \* the disk is on time

dvars == <<call, phase, answer, got, sectors, sound>>

Wanted == call.lba..(call.lba + call.count - 1)
Last == call.lba + call.count - 1
New(l) == <<call.val, l - call.lba + 1>>
Contents == [i \in 1..call.count |-> sectors[call.lba + i - 1]]
Refused == call.count = 0 \/ call.lba >= LBA_LIMIT

Writing == call.fn = "write" /\ call.bus = "primary"
Reading == call.fn = "read" /\ call.bus = "primary"

Start ==
  /\ call = NoCall /\ phase = "idle" /\ answer = "none" /\ got = <<>>
  /\ sectors = [l \in Lbas |-> Zero]
  /\ sound = TRUE

Ask ==
  /\ phase = "idle" /\ phase' = "asked"
  /\ call' \in Calls
  /\ answer' = "none" /\ got' = <<>>
  /\ sound' \in {sound, TRUE}
  /\ UNCHANGED sectors

(* A sector reaches the disk, in whatever order; the last one only when    *)
(* the driver can no longer answer with an error.                          *)
Replace(l) ==
  /\ sound /\ Writing /\ phase # "idle"
  /\ l \in Wanted \cap Lbas
  /\ l = Last => phase = "taken"
  /\ sectors' = [sectors EXCEPT ![l] = New(l)]
  /\ UNCHANGED <<call, phase, answer, got, sound>>

Take ==
  /\ sound /\ phase = "asked" /\ call.fn = "write" /\ ~Refused
  /\ phase' = "taken"
  /\ UNCHANGED <<call, answer, got, sectors, sound>>

Refuse ==
  /\ phase = "asked" /\ Refused
  /\ phase' = "idle" /\ answer' = "invalid" /\ got' = <<>>
  /\ UNCHANGED <<call, sectors, sound>>

Fail ==
  /\ sound /\ phase = "asked" /\ ~Refused
  /\ phase' = "idle" /\ answer' = "error"
  /\ UNCHANGED <<call, sectors, sound>>

Deliver ==
  /\ sound /\ phase = "asked" /\ call.fn = "read" /\ ~Refused
  /\ phase' = "idle" /\ answer' = "ok"
  /\ Reading => Wanted \subseteq Lbas /\ got' = Contents
  /\ UNCHANGED <<call, sectors, sound>>

Done ==
  /\ sound /\ phase = "taken"
  /\ phase' = "idle" /\ answer' = "ok" /\ got' = <<>>
  /\ UNCHANGED <<call, sectors, sound>>

(* A wait runs out, or one has: nothing is promised of this step.          *)
Lapse == ~sound'

Serve == Ask \/ (\E l \in Lbas : Replace(l)) \/ Take \/ Refuse \/ Fail
           \/ Deliver \/ Done \/ Lapse

Spec == Start /\ [][Serve]_dvars
=============================================================================
