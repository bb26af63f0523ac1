----------------------------- MODULE FileStore -----------------------------
(***************************************************************************)
(* What the pf* commands of TinyOS promise their user, with no blocks, no  *)
(* directory and no bitmap: a partial function from names to contents.     *)
(*                                                                         *)
(* The promise is weaker than a map with atomic assignment.  Overwriting a *)
(* file removes it, creates it empty and then fills it, and the machine    *)
(* may stop in between; a write that fails leaves no file.  It is stronger *)
(* than it may seem from the code: no other file is ever touched, no name  *)
(* ever has part of a content, or parts of two, and an entry is refused    *)
(* only when all are taken, never to a file that is overwritten.           *)
(***************************************************************************)
EXTENDS Naturals, Sequences, FiniteSets

CONSTANTS Names, Data, MaxChunks, BufChunks, MaxFiles

VARIABLES
  files,   \* name -> content, for the files that exist
  cmd,     \* the command being served
  answer   \* the result of the last command and what it read

vars == <<files, cmd, answer>>

Content(d, n) == [i \in 1..n |-> <<d, i>>]
Contents == {Content(d, n) : d \in Data, n \in 0..MaxChunks}

None == [kind |-> "none"]
Commands == [kind: {"mkfile", "pfrm", "pfcat"}, name: Names]
              \cup [kind: {"pfwrite"}, name: Names, data: Data, n: 0..MaxChunks]
Silent == [res |-> "none", got |-> <<>>]

Present(n) == n \in DOMAIN files
HasRoom == Cardinality(DOMAIN files) < MaxFiles
With(n, c) == [m \in DOMAIN files \cup {n} |-> IF m = n THEN c ELSE files[m]]
Without(n) == [m \in DOMAIN files \ {n} |-> files[m]]

Answer(ok, chunks) ==
  /\ cmd' = None
  /\ answer' = [res |-> IF ok THEN "ok" ELSE "fail", got |-> chunks]

Init == files = [n \in {} |-> <<>>] /\ cmd = None /\ answer = Silent

Ask(c) ==
  /\ cmd = None
  /\ cmd' = c
  /\ answer' = Silent
  /\ UNCHANGED files

(* A new file.  Fails exactly when there is one or no entry is left.       *)
MkFile ==
  /\ cmd.kind = "mkfile"
  /\ IF ~Present(cmd.name) /\ HasRoom
     THEN files' = With(cmd.name, <<>>) /\ Answer(TRUE, <<>>)
     ELSE UNCHANGED files /\ Answer(FALSE, <<>>)

(* Fails exactly when there is no such file.                               *)
Remove ==
  /\ cmd.kind = "pfrm"
  /\ files' = Without(cmd.name)
  /\ Answer(Present(cmd.name), <<>>)

(* As much of the content as the caller has room for.                      *)
Read ==
  /\ cmd.kind = "pfcat"
  /\ LET have == IF Present(cmd.name) THEN files[cmd.name] ELSE <<>>
         room == IF Len(have) < BufChunks THEN Len(have) ELSE BufChunks
         c == SubSeq(have, 1, room)
     IN  Answer(c # <<>>, c)
  /\ UNCHANGED files

(* The stages of an overwrite that a crash can expose.                     *)
WriteDrops ==
  /\ cmd.kind = "pfwrite" /\ Present(cmd.name)
  /\ files' = Without(cmd.name)
  /\ UNCHANGED <<cmd, answer>>
WriteCreates ==
  /\ cmd.kind = "pfwrite" /\ ~Present(cmd.name) /\ HasRoom
  /\ files' = With(cmd.name, <<>>)
  /\ UNCHANGED <<cmd, answer>>
WriteFills ==
  /\ cmd.kind = "pfwrite" /\ Present(cmd.name) /\ files[cmd.name] = <<>>
  /\ files' = With(cmd.name, Content(cmd.data, cmd.n))
  /\ Answer(TRUE, <<>>)
WriteFails ==    \* no entry is left, or no space once there is an entry
  /\ cmd.kind = "pfwrite"
  /\ IF Present(cmd.name) THEN files[cmd.name] = <<>> ELSE ~HasRoom
  /\ files' = Without(cmd.name)
  /\ Answer(FALSE, <<>>)

(* A restart forgets the command and never a file.                         *)
Restart ==
  /\ cmd' = None
  /\ answer' = Silent
  /\ UNCHANGED files

Next ==
  \/ \E c \in Commands : Ask(c)
  \/ MkFile \/ Remove \/ Read
  \/ WriteDrops \/ WriteCreates \/ WriteFills \/ WriteFails
  \/ Restart

Spec == Init /\ [][Next]_vars
=============================================================================
