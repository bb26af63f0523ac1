-------------------------------- MODULE Fat --------------------------------
(***************************************************************************)
(* The shell's view of the boot partition (src/src/fat.cpp): the current   *)
(* directory, kept both as a string (g_cwd, what the prompt shows) and as  *)
(* a firmware file handle (g_pwd, what ls and mkdir use), and the commands *)
(* ls, cd and mkdir.                                                       *)
(*                                                                         *)
(* A path is the sequence of what its slashes separate: "/a//b/" is        *)
(* <<"a", "", "b", "">>, and "/" is <<>>.  A node of the file system is    *)
(* the sequence of names that leads to it.  A handle has a cursor: each    *)
(* Read returns an entry that this handle has not returned before.         *)
(***************************************************************************)
EXTENDS Naturals, Sequences, FiniteSets, SequencesExt

CONSTANTS
  Names,        \* file and directory names
  TypedPaths,   \* paths a user types: [abs, toks]
  InitDirs,     \* directories on the partition at boot
  InitFiles,    \* files on it
  MAX_TOKENS,   \* what fits in g_cwd (FAT_MAX_PATH characters in the code)
  MAX_NODES,    \* bound: directories and files the partition has room for
  OpenFails     \* may the firmware fail to open what exists?

Toks == Names \cup {"", ".", ".."}
Root == <<>>
NoNode == <<"no such node">>
Cut == "cut"          \* what is left of a component that was cut off

(* What is on the partition is a tree.                                     *)
ASSUME FatAssumption ==
  /\ TypedPaths \subseteq [abs: BOOLEAN, toks: Seq(Toks)]
  /\ \A p \in TypedPaths : IF p.abs THEN p.toks # <<"">>
                           ELSE p.toks # <<>> /\ p.toks[1] # ""
  /\ Root \in InitDirs
  /\ InitDirs \subseteq Seq(Names) /\ InitFiles \subseteq Seq(Names)
  /\ InitDirs \cap InitFiles = {}
  /\ \A n \in (InitDirs \cup InitFiles) \ {Root} : Front(n) \in InitDirs
  /\ OpenFails \in BOOLEAN
  /\ MAX_TOKENS \in Nat \ {0} /\ MAX_NODES \in Nat
  /\ Names \cap {"", ".", "..", Cut, "no such node"} = {}

VARIABLES
  dirs, files,  \* what is on the partition
  cwd,          \* g_cwd
  pwd,          \* g_pwd: "root" when it is g_root itself, "own" otherwise
  own,          \* the node of g_pwd's own handle
  seen,         \* the entries each handle has returned
  astray        \* history: g_cwd was cut, or an open failed after it changed

vars == <<dirs, files, cwd, pwd, own, seen, astray>>

Handles == {"root", "own"}
Nodes == dirs \cup files
Children(n) == {m \in Nodes : m # Root /\ Front(m) = n}
NodeOf(h) == IF h = "root" THEN Root ELSE own
Here == NodeOf(pwd)

(***************************************************************************)
(* The firmware: EFI_FILE_PROTOCOL.Open of one component from a node.      *)
(***************************************************************************)
Opened(n, t) ==
  IF n \notin dirs THEN NoNode
  ELSE CASE t = "."  -> n
         [] t = ".." -> IF n = Root THEN NoNode ELSE Front(n)
         [] OTHER    -> IF Append(n, t) \in Nodes THEN Append(n, t) ELSE NoNode

(***************************************************************************)
(* fat_open_path.  Components that are empty or "." are not opened: a path *)
(* with nothing else gives the handle it started from, not a fresh one.    *)
(***************************************************************************)
Skipped(t) == t \in {"", "."}

Walked(n, toks) ==
  FoldLeft(LAMBDA m, t : IF Skipped(t) THEN m ELSE Opened(m, t), n, toks)

Start(p) == IF p.abs THEN "root" ELSE pwd
Fresh(p) == p.toks = <<>> \/ \E i \in DOMAIN p.toks : ~Skipped(p.toks[i])

(* The nodes an open may lead to.                                          *)
Results(p) ==
  {Walked(NodeOf(Start(p)), p.toks)}
    \cup (IF OpenFails /\ Fresh(p) THEN {NoNode} ELSE {})

(***************************************************************************)
(* fat_ls: open the path and read entries until there are no more.  A path *)
(* of dots only is read through g_pwd or g_root itself: the listing goes on*)
(* where the cursor stands, and leaves it at the end.                      *)
(***************************************************************************)
NoPath == [abs |-> FALSE, toks |-> <<>>]    \* ls without an argument

Ls(p) ==
  /\ \E n \in Results(p) :
       seen' = IF n \in dirs /\ ~Fresh(p)
               THEN [seen EXCEPT ![Start(p)] = Children(n)] ELSE seen
  /\ UNCHANGED <<dirs, files, cwd, pwd, own, astray>>

(***************************************************************************)
(* fat_cd.                                                                 *)
(***************************************************************************)
(* str_copy into what is left of g_cwd cuts a path that is too long.       *)
SlipKept(path) == {path}
Kept(path) ==
  IF Len(path) <= MAX_TOKENS THEN {path}
  ELSE {SubSeq(path, 1, MAX_TOKENS), SubSeq(path, 1, MAX_TOKENS - 1) \o <<Cut>>}

Joined(base, toks) ==
  (IF base # <<>> /\ Last(base) = "" THEN Front(base) ELSE base) \o toks

SlipNewCwd(p) == p.toks
NewCwd(p) == IF p.abs THEN p.toks ELSE Joined(cwd, p.toks)

(* A Read tells nothing (its answer is not looked at) but takes one entry. *)
Touched(h, n) ==
  IF Children(n) \subseteq seen[h] THEN {seen[h]}
  ELSE {seen[h] \cup {m} : m \in Children(n) \ seen[h]}

Cd(p) ==
  /\ p.toks # <<"..">> \/ p.abs
  /\ \E n \in Results(p) \ {NoNode} :
       /\ IF Fresh(p)
          THEN /\ pwd' = "own" /\ own' = n
               /\ \E s \in {{}} \cup {{m} : m \in Children(n)} :
                    /\ s = {} => Children(n) = {}
                    /\ seen' = [seen EXCEPT !["own"] = s]
          ELSE /\ pwd' = Start(p)
               /\ \E s \in Touched(Start(p), n) :
                    seen' = [seen EXCEPT ![Start(p)] = s]
               /\ UNCHANGED own
       /\ cwd' \in Kept(NewCwd(p))
       /\ astray' = ((astray /\ ~p.abs) \/ cwd' # NewCwd(p))
  /\ UNCHANGED <<dirs, files>>

(* ".." cuts the last component off the string and opens what is left.     *)
Trimmed == IF cwd # <<>> /\ Last(cwd) = "" THEN Front(cwd) ELSE cwd
SlipParentPath == IF Len(Trimmed) <= 1 THEN <<>> ELSE Trimmed
ParentPath == IF Len(Trimmed) <= 1 THEN <<>> ELSE Front(Trimmed)

CdRoot ==
  /\ ParentPath = <<>>
  /\ pwd' = "root"
  /\ cwd' = <<>>
  /\ astray' = FALSE
  /\ UNCHANGED <<dirs, files, own, seen>>

CdUp ==
  /\ ParentPath # <<>>
  /\ cwd' = IF ParentPath = <<"">> THEN <<>> ELSE ParentPath
  /\ \E n \in Results([abs |-> TRUE, toks |-> cwd']) :
       IF n = NoNode
       THEN /\ astray' = TRUE
            /\ UNCHANGED <<pwd, own, seen>>
       ELSE LET p == [abs |-> TRUE, toks |-> cwd']
            IN  /\ pwd' = IF Fresh(p) THEN "own" ELSE "root"
                /\ own' = IF Fresh(p) THEN n ELSE own
                /\ seen' = IF Fresh(p) THEN [seen EXCEPT !["own"] = {}]
                           ELSE seen
                /\ UNCHANGED astray
  /\ UNCHANGED <<dirs, files>>

(***************************************************************************)
(* fat_mkdir.  An existing directory is "created" again; the firmware      *)
(* refuses when the current node or the name is a file, or there is no     *)
(* room.                                                                   *)
(***************************************************************************)
MkDir(name) ==
  /\ Here \in dirs
  /\ Append(Here, name) \notin files
  /\ Append(Here, name) \in dirs \/ Cardinality(Nodes) < MAX_NODES
  /\ dirs' = dirs \cup {Append(Here, name)}
  /\ UNCHANGED <<files, cwd, pwd, own, seen, astray>>

-----------------------------------------------------------------------------
Init ==
  /\ dirs = InitDirs /\ files = InitFiles
  /\ cwd = <<>> /\ pwd = "root" /\ own = Root
  /\ seen = [h \in Handles |-> {}]
  /\ astray = FALSE

Next ==
  \/ \E p \in TypedPaths \cup {NoPath} : Ls(p)
  \/ \E p \in TypedPaths : Cd(p)
  \/ CdRoot \/ CdUp
  \/ \E name \in Names : MkDir(name)

Spec == Init /\ [][Next]_vars

-----------------------------------------------------------------------------
Paths == UNION {[1..n -> Toks \cup {Cut}] : n \in 0..MAX_TOKENS}

TypeOK ==
  /\ Nodes \subseteq Seq(Names) /\ dirs \cap files = {}
  /\ Root \in dirs
  /\ \A n \in Nodes \ {Root} : Front(n) \in dirs
  /\ cwd \in Paths
  /\ pwd \in Handles
  /\ own \in Nodes
  /\ seen \in [Handles -> SUBSET Nodes]
  /\ \A h \in Handles : seen[h] \subseteq Children(NodeOf(h))
  /\ astray \in BOOLEAN

(* The prompt shows the directory that ls lists and mkdir creates in: the  *)
(* string and the handle, which no command updates together, lead to the   *)
(* same node.  Unless the string was cut, or the firmware failed to open   *)
(* the parent once the string was changed, and no absolute cd came since.  *)
PromptTellsWhere == ~astray => Walked(Root, cwd) = Here

(* "cd .." leads to the parent directory when the prompt shows names only. *)
PlainUpGoesUp ==
  [][(CdUp \/ CdRoot) /\ ~astray' /\ ~astray
       /\ cwd # <<>> /\ (\A i \in DOMAIN cwd : cwd[i] \in Names)
     => Here' = Front(Here)]_vars

(* "Supports relative paths, absolute paths (starting with /), and '..'    *)
(* for parent directory."  Not so: after "cd ." the string ends in "/."    *)
(* and ".." takes only that away.                                          *)
DotDotIsParent ==
  [][(CdUp \/ CdRoot) /\ ~astray' /\ ~astray /\ Here # Root
     => Here' = Front(Here)]_vars
=============================================================================
