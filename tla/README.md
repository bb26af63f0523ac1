# TinyOS V1: specifications, model checks and proofs

TinyOS V1 is a single-tasking UEFI kernel in C++: a boot flow with an
installation wizard, a shell, a small persistent file store (PFS) on a raw disk,
a polled ATA driver, and a view of the boot partition through the firmware's
file protocol. This directory holds TLA+ models of its stateful parts, the TLC
runs that check them, and theorems checked by TLAPS about each of them: the file
store, the machine around it, the disk driver below it, the boot partition and
the terminal.

To run: `tlc -config MCPfs_reliable.cfg MCPfs` (every `.cfg` begins with the
name of its module), `tlapm PfsProofs.tla` and so on for the modules with
theorems: `PfsProofs`, `PfsConsistency`, `PfsRefinement`, `PfsFaultsProofs`,
`SystemProofs`, `AtaProofs`, `FatProofs`, `TerminalProofs`.

## 1. The system

There is one thread and no interrupt handler. What makes the system hard is not
concurrency between tasks but (a) the machine stopping between any two sector
writes, (b) ATA calls that fail, or fail silently, (c) state kept twice, in
memory and on disk or as a string and as a handle, and (d) devices that go on
working while the kernel polls them.

| part (src/src) | state | operations | hard behaviour | what makes it correct |
|---|---|---|---|---|
| file store, `pfs.cpp` | superblock, directory sector, data blocks; in memory `g_bitmap`, `g_pfs_mounted` | mount/format, create, write, delete, read, free count | crash between sector writes, ATA failures, full disk, full directory | a file is whole or absent, no block has two owners, the bitmap is right, names are unique, every loop ends |
| ATA driver, `ata.cpp` | the devices' registers and command in progress | read and write on two buses | late answers, loops that run out, errors not looked at | success means the sectors moved; commands reach a device at rest; calls return |
| markers, `sysdisk.cpp`; wizard, `install.cpp`; boot, `main.cpp` | marker sector on two disks, first sectors of the store | check, mark, zero, configure, verify | stop during the wizard, unchecked writes, wizard under a mounted store | files are destroyed whole, success only for a marked disk, the machine reaches a prompt |
| boot partition, `fat.cpp` | `g_cwd` (string), `g_root` and `g_pwd` (handles with a cursor) | ls, cd, mkdir | string and handle are updated apart, paths are cut, opens fail | both name one directory |
| screen, terminal and shell, `gop.cpp`, `gfxterm.cpp`, `shell.cpp` | framebuffer, cursor, line buffer, argument vector | choose a mode, draw the wallpaper, putc, scroll, readline, tokenize, dispatch | wrapping, scrolling and backspace at the edges, screens that are no whole number of cells, full buffers | the line on the screen is the line executed, nothing is drawn outside the frame |
| serial, console, alloc, diskimg; tools | registers, firmware pool | input/output, allocation | none in their own state | not modelled, see section 7 |

**Interactions.** All are direct calls. `main.cpp` calls the framebuffer set-up,
`ata_init`, the terminal, `fat_init`, `sysdisk_check`, then `pfs_mount` or
`install_run`, then `shell_run`. The shell dispatches to `commands.cpp`, which
calls the store, the boot partition or the wizard. Store, markers and wizard
reach the disk through the four ATA functions; they share the primary slave's
sectors 1 to 999. The wizard writes under a store that may be mounted.

## 2. Modules

| module | models | extends |
|---|---|---|
| `Pfs` | the store, one step per sector write, crashes, ATA faults | |
| `FileStore` | what the pf* commands promise: a map from names to contents | |
| `PfsRefinesFileStore` | the refinement mapping | `Pfs`, instance of `FileStore` |
| `PfsFaults` | the store with a record of the ATA failures that matter | `Pfs`, instance of itself |
| `System` | boot flow, markers, wizard, composed with the store | `Pfs` |
| `Ata` | driver and devices at register level | |
| `DiskService` | what the driver promises the store: calls on sectors | |
| `AtaImplementsDisk` | the refinement mapping | `Ata`, instance of `DiskService` |
| `Fat` | ls, cd, mkdir over the firmware's file handles | |
| `Terminal` | framebuffer, pixels, wallpaper, putc, readline, tokenizer, prompt loop | |
| `PfsProofs` | types, chains, names, who owns a block | `Pfs` |
| `PfsConsistency` | files are whole at every moment, what a mount computes | `PfsProofs` |
| `PfsRefinement` | the refinement of `FileStore` | `PfsRefinesFileStore`, `PfsConsistency` |
| `PfsFaultsProofs` | what is left when ATA calls fail | `PfsFaults`, `PfsConsistency` |
| `SystemProofs` | the machine | `System`, `PfsConsistency` |
| `AtaProofs` | the driver, and that it implements `DiskService` | `AtaImplementsDisk` |
| `FatProofs` | string and handle of the current directory | `Fat` |
| `TerminalProofs` | the pixels, the line and its words | `Terminal` |
| `MC*` | constants for TLC | |

### Pfs

`super`, `dir`, `blk` are sectors 2, 3 and 4..`PFS_DATA_END`; `mounted` and
`bitmap` are the kernel's memory (the bitmap as the set of marked blocks). `pc`
says which handler runs and how far it is; `slot`, `cur`, `first`, `prev`,
`done` are the locals `idx`, `block`, `first_block`, `prev_block` and the bytes
already taken. A file's bytes are counted in chunks of `PFS_DATA_SIZE`; chunk
*i* of a write of data *d* is `<<d, i>>`, so that a chunk of another write, or
out of order, is told apart.

A step does at most one sector write, which is taken as atomic (a sector is the
unit in which the emulated disk stores). Reads between two writes fold into the
step of the second: nobody else writes meanwhile. `Crash` may come between any
two steps and keeps exactly the sectors. `pfs_mount` is `MountRead`,
`FormatSuper`, `FormatDir`, `RebuildRead`, `RebuildSlot`, `RebuildChain`,
`RebuildEnd`; `pfs_create` is `CreateEntry` or `CreateRefused`;
`pfs_write_file` is a `pfs_delete`, a `pfs_create`, then `WFind`, `WBlock`,
`WLink`, `WFull` and `WDir`; `pfs_delete` is `DelFind`, `DelChain`, `DelEntry`
with `after` naming its caller; `pfs_read_file` is `CatFind`, `CatChain`,
`CatEnd`.

`Faults` selects what ATA calls may do: `"read"`, a read fails; `"write"`, a
write fails and the sector is unchanged; `"lost"`, a write reports success and
the sector is unchanged (the driver does that, see `WriteSuccessMeansWritten`).
Where the code ignores a failed read, the step writes any payload, or any
directory of `Garbage`, back. `Garbage` may be any 512 bytes as the store would
read them (`RawEntries`): names that no zero ends, sizes of any file or none,
any 16-bit start block. So with failing reads nothing bounds what a directory
entry says (`Directories`); what the properties keep in range under every fault
is what the store acts on, its blocks, next pointers, bitmap and locals. The undefined jump over `magic` (pfs.cpp:107)
makes the superblock that is then written valid or not. Names of more than 23
characters are the set `LongNames`; `Clip` is the cut that `pfs_create` makes
and `pfs_find` does not. The model takes writes of any number of blocks, as the
interface in pfs.h does. The shell's `cmd_pfwrite` passes one word of a line
(commands.cpp:96-103), so files written from it have at most one block: the
chains are those of `pfs_write_file`'s other callers to come.

### FileStore and the refinement

`files` maps names to contents. Overwriting is not atomic: `WriteDrops`,
`WriteCreates` and `WriteFills` are the stages a crash can expose, and no others
can be seen. A new file is refused exactly when there is one of that name or all
`MaxFiles` entries are taken (`HasRoom`), and a write, once the old file is
dropped, fails only for want of an entry or, with its entry created, of blocks.
Under the mapping, the content of a file is what its chain holds,
`cmd` is `op`, and `answer` is the result with what `pfcat` read. `Pfs!Spec`
implements `Store!Spec` when nothing fails and names fit.

### PfsFaults

Two history variables watch the store. `misread` says whether a read has failed,
and whether in the mount that is running; `harmed` whether one of the failures
has happened that let go of blocks a file still holds. Neither takes part in a
step: `HNext` is `Next /\ Watch`, and `Watch` always has a value to give.
A step needed a failing read (`ReadFails`) when it is not a step of the same
store on a disk whose reads succeed, which is the instance `Readable` of `Pfs`.
`Watch` names the three failing writes that do harm: the directory write of
`pfs_delete`, after the blocks are free (`EntryStays`, pfs.cpp:258); the
directory write of a format (`FilesStay`, pfs.cpp:138); and the write of a new
block that is lost without an error, so that the block keeps the next pointer
of the file it once was in (`PointerStays`, pfs.cpp:301). Every other failed or
lost write leaves at most blocks that are marked and belong to nobody.

### System

`marker` is sector 1 of each disk; `tail` is the byte that follows the literal
"TINYOS_SYS" and its terminator in the running build: `SYS_MARKER_LEN` is 12 and the literal has 11
bytes. It may change at each power-on, as after a rebuild. `stage`, `caller`,
`target`, `lba` are the wizard's place in `install_run`, `verdict` what its last
run reported. The history variable `unmarked` records that the marker write of
this run was lost without an error. The wizard's sector
writes act on the `super`, `dir` and `blk` of `Pfs`, and `BootSystem` is the
call of `pfs_mount`. From `main` a finished installation restarts the machine;
from the shell it returns to the prompt with the store as mounted as before
(commands.cpp:200-209).

### Ata

One action per status poll, command, sector moved and final wait (`Driver`), and
four actions of a device (`Offer`, `Store`, `Ready`, `Fail`), interleaved freely.
The first steps are `ata_init`, which resets the primary disk and ignores
whether it came back (`Reset`, `ResetWait`), or its omission when `gop_init`
fails (`SkipInit`, main.cpp:44-47).
The driver's four functions are one model with the differences as operators:
`ReadyBus` (all wait for the primary bus) and `ChecksTimeout` (only `ata_read`
fails when the DRQ wait runs out). The device part is external: it is the
behaviour of the emulator's IDE disks, for which the kernel is built (Makefile,
run.bat): commands and data that a device at work does not expect are ignored.
The history variable `late` records that a loop on the primary bus ran out and
no call has found that disk at rest since.

`DiskService` is the driver seen from above: a call is asked, its sectors are
replaced one by one, it is answered. Its calls of one sector have exactly the
`ReadOutcomes` and `WriteOutcomes` of `Pfs` with all faults: a read delivers or
fails, a write replaces the sector, or reports an error and leaves it, or
reports success and leaves it. A write of several sectors that reports an error
may have replaced some, but never the last. `AtaImplementsDisk` maps the steps of the driver to it
and `late` to `~sound`; of the time from a loop that ran out to the next call
that finds the disk at rest nothing is promised (`Lapse`). So the fault
model of `Pfs` is not invented: it is what `Ata` does while no loop runs out.

### Fat

A path is the sequence of its components, `cwd` the string `g_cwd`, `pwd`/`own`
the handle `g_pwd` (which may be `g_root` itself), `seen` the entries a handle's
cursor has passed: a listing through that handle leaves them out. `Opened` is the firmware's `Open`, external. Whether a firmware resolves a
component ".." inside a longer path is not in this code (fat.cpp:139-143 expects
that it does not): `Opened` leads to the parent, and with `OpenFails` it may as
well fail; `fat_cwd` covers both, and no violation run has such a path. What is on the
partition at the start is any tree of named directories and files
(`FatAssumption`). `astray` records
that the string was cut at `FAT_MAX_PATH` or that `cd ..` changed the string and
then failed to open it.

### Terminal

`fb` is `g_fb` as `gop_init` leaves it, for any firmware in `Firmwares`: a list
of modes, the current one, and whether setting a mode works (`obeys`). `scr.px`
is the array of pixels `gfxterm_draw_char`, `gfxterm_scroll`, `gfxterm_clear`
and `gop_render_wallpaper` write, indexed as in the code, by row times stride
plus column. There is no array of characters in the code and none in the
model: what a cell shows is read off its pixels (`Shows`). A pixel's content is
black, a place in a character's glyph, or a piece of the picture, since the
font has a different glyph for each of its 95 characters and a blank one for
the space. `scr.wild` records a write outside the frame. `Putc` is
`gfxterm_putc` with wrapping and scrolling; without a framebuffer the terminal
has no rows or columns and the cursor's row is 0 or -1. `buf` is the line
being read, by the shell or, in `"picture"`, by the wallpaper command; `prompt`
is the text of the prompt before it, one of `Prompts`, as the path in it changes
with `cd`. `stuck` records that a backspace found the cursor at column 0, where
the echo does nothing. What a command prints is any text of `Outputs`, with
tabs, returns and backspaces too: `pfcat` prints the bytes of a file as they
are. Therefore `BlackBehindCursor` speaks of the cursor while a line is read and
run, and of the cursor's row before the next prompt. What main.cpp does before the terminal starts is `Init`.

`shell_tokenize` yields a set of argument vectors. One is the words of the line.
The other is there when the line fills `g_argv`: then `argv[argc] = nullptr`
(shell.cpp:31) is stored past its end, over whatever the build puts there. Of
the statics of shell.cpp, `g_argc` is assigned right after, so nothing is lost;
`g_line` loses its first `POINTER_SIZE` characters (8 in the code), and the words
that begin in them become empty (`EarlyWords`). Nothing at all may lie there,
too. Variables of other files are not modelled.

## 3. Runs

### Passing

| run | shows | bounds |
|---|---|---|
| `pfs_reliable` | `CrashConsistent`, `NoCrossLink`, `BitmapCovers`, `UniqueNames`, `MountExact`, and the refinement `ImplementsFileStore` | 2 slots, 4 blocks, 3 names, 2 contents, files of up to 3 chunks, a read buffer of 2 |
| `pfs_faulty` | `TypeOK`, `ChainsAscend`, `CommandsTerminate` under all faults; `UniqueUntilMisread`, `OwnedUnlessHarmed` until the failures they name; `MountRepairs` after any | 2 slots, 2 blocks, 2 short names and a long one, files of up to 2 chunks, 2 leftover directories, one with an unterminated name, a size no file has and a start block on either side of the range |
| `machine` | `FilesWholeOrGone`, `StaleBitmapIsSafe` with the wizard under a mounted store | 2 slots, 3 blocks of which the wizard zeroes 2 |
| `machine_faulty` | `SysTypeOK`, `VerifiedDiskIsMarked`, `ReachesPrompt` with reads that fail, writes that fail and writes that are lost, of either disk | 1 slot, 2 blocks, one of them zeroed, 2 builds, a leftover directory with numbers out of range |
| `ata_bus` | `PrimaryReadsDeliver`, `PrimaryWritesStick`, `PrimaryCommandsTaken`, `CallsReturn`, and the refinement `ImplementsDisk` | loops of 2 polls, 2 sectors, counts 0 to 2, one sector past the end |
| `fat_cwd` | `PromptTellsWhere`, `PlainUpGoesUp` | 2 names, depth 2 and more, 13 typed paths, a string of 4 components, opens that fail |
| `terminal_line` | `StaysInFrame`, `ScreenShowsLine`, `BlackBehindCursor`, `ArgsAreWords` | glyphs of 2 by 2 pixels; screens of 3 by 2, 3 by 3 (with margins), 2 by 1 and 4 by 1 cells, and none; a picture that fits, is smaller or is larger; 2 prompts, lines of 5 characters, 2 words, a pointer of 2 characters; outputs with a newline, a return, a tab, a backspace |

Why the bounds are enough: with 2 slots and 3 names the directory fills up while
a name is missing; 4 blocks and 3 chunks make a write run out of space at its
first, middle and last block, with another file before, between or after the
free blocks; 3 chunks give a chain with a first, an inner and a last block, and
a read cut by its buffer in the middle of a chain. The faulty run trades blocks
for faults: two entries and two blocks are enough for a block to be held twice,
by two entries or by an entry and a block, and all it checks is also a theorem
or (`CommandsTerminate`) relates a block to its successor only. In the system
runs the wizard zeroes some data blocks and spares others, so a chain can cross
the boundary. Two polls tell a first, a repeated and a last try apart; two
sectors tell first and last. On a screen of two rows the prompt, a letter and a
wrapped row already scroll; the others have a margin right of and below the
cells, a stride above the width, and a picture clipped in one direction, in both
or in none. The contents of sectors, names and letters are
symmetric: nothing in the code depends on which they are.

### Violations: where the code departs from what it says

| run | property | the disagreement |
|---|---|---|
| `pfs_leak` | `FreeBlocksExact` | a write whose last directory update fails answers success, and the blocks it took stay marked though no file has them (pfs.cpp:321), so "the number of free data blocks remaining" (pfs.h:67) is too small until the next mount; one word and one failing write are enough. A write of several blocks that runs out of space does the same without any failure (pfs.cpp:281) |
| `survive` | `SavedFilesSurvive` | after a completed `install` from the shell, which says "Rebooting..." and does not, a file is saved over a superblock that is gone; the next boot formats the store (README.md:31: data is not lost across a restart) |
| `unselected` | `OnlySelectedDiskWritten` | after an installation to the secondary disk, the next boot formats the primary slave (install.cpp:45-47: the selected disk) |
| `ata_write` | `WriteSuccessMeansWritten` | a write whose DRQ wait runs out, or that fails at its last sector, returns success (ata.h:66) |
| `fat_dotdot` | `DotDotIsParent` | after `cd a` and `cd .` the command `cd ..` stays in `a` (fat.h:33-35) |

Other disagreements, modelled and without a run of their own; where a passing
property exempts one, it says that nothing else goes wrong in that way:

- the wizard's verification is content with a marker on either disk: with the
  slave marked, an installation to the secondary disk whose marker write is lost
  is reported complete (install.cpp:130; 143-148: "The system will boot from this
  disk on next startup"); `VerifiedDiskIsMarked` exempts exactly this;
- a disk marked by one build is not recognised by another whose linker put a
  different byte behind the literal, and gets the wizard (sysdisk.h:24; 28-29:
  "Returns true if LBA 1 starts with");
- a superblock that cannot be *read* is formatted (pfs.cpp:105; pfs.h:49-51: "If
  the superblock has valid magic, mounts the existing filesystem");
- a file with a name of 24 characters or more can be created again and again and
  never found (pfs.cpp:192 and 170; pfs.h:54-55);
- a read that gave up leaves its command with the device, and the next read
  returns success with that one's sector (ata.cpp:130; ata.h:66); exempted by
  `late`;
- `ls .` lists through a used handle and misses what `cd` or an earlier `ls .`
  read (fat.cpp:144, 161; 233: "Always open a fresh handle — never reuse g_pwd");
- `cd ..` cuts the string, and when it cannot open the parent keeps the old handle
  and returns success (fat.cpp:333; fat.h:36); exempted by `astray`;
- the null pointer stored behind a full `g_argv` may fall on `g_line` and empty
  the command's name (shell.cpp:31; commands.h:3-4), in a build that puts `g_line`
  there; `ArgsAreWords` exempts exactly this;
- a backspace at column 0 takes a character from the line and leaves it on the
  screen (gfxterm.cpp:128; gfxterm.h:54: "Read a line of input with echo");
  exempted by `stuck`;
- `sysdisk_check` never returns 3 for a read error (sysdisk.h:45).

### Mutants

Every property of a passing run is tested by a plausible slip in the code: an
operator `Slip...` beside the one it distorts, put in its place, makes TLC find
the property violated. For example `SlipFirstFree` allocates the highest free
block and breaks `ChainsAscend`; `SlipFlush` drops the wait at the end of a
write and breaks `PrimaryWritesStick`.

### Limits the properties state

`NoCrossLink`, `BitmapCovers`, `CrashConsistent`, `MountExact` and the
refinement hold without ATA failures only. With them they are false:
a delete frees its blocks before it writes the directory, and if that write
fails the entry stays on blocks that will be given away (pfs.cpp:251, 258).
`PfsFaults` says what is left: under any failure `TypeOK`, `ChainsAscend`,
`CommandsTerminate` and `MountRepairs`; until a read fails
`UniqueUntilMisread`; until a read or one of three writes fails
`OwnedUnlessHarmed`. `UniqueNames` needs names that fit. `PrimaryReadsDeliver`,
`PrimaryWritesStick`, `PrimaryCommandsTaken` and `ImplementsDisk` need `~late`:
once a loop has run out, a late sector goes to the next read.
`VerifiedDiskIsMarked` lets success be reported for a disk without a marker when
its marker write was lost and the other disk has one, and then only.
`ReachesPrompt` counts the wizard's prompt, which a rebuilt kernel may show on an
installed disk. `PromptTellsWhere` needs `~astray`; `ScreenShowsLine` needs
`~stuck`; `ArgsAreWords` lets words be lost to the stored pointer, when the vector
is full and only in the first `POINTER_SIZE` characters. `TypeOK` of `Pfs` bounds directory
entries only while reads succeed.

## 4. Fairness

`Pfs` assumes `WF_vars(Handler /\ ~CutShort)`: the processor goes on executing
the handler that runs. A step of a chain walk that only a *failing* read takes
is not owed (`CutShort`), so termination may not lean on the disk failing: it
rests on `ChainsAscend`. Users, power and crashes owe nothing. `System` assumes
weak fairness of `Kernel`, the boot flow, the wizard once a disk is chosen and
the store's handlers, with the same exception; prompts are left when a user answers. `Ata` assumes
fairness of `Driver` only: devices may never answer.

## 5. Theorems

For every value of the constants that satisfies the modules' assumptions (any
number of slots and blocks below 0xFFFF, any names, contents and sizes; any
number of polls, sectors and calls; any tree of directories and typed paths; any
video modes, font and picture size, line length, prompts and outputs):

| theorem | assumes | states |
|---|---|---|
| `PfsProofs!TypeCorrect` | nothing more | `Spec => []TypeOK` |
| `PfsProofs!ChainsNeverTurnBack` | nothing more | `Spec => []ChainsAscend` |
| `PfsProofs!NamesStayUnique` | `"read" \notin Faults`, `LongNames = {}` | `Spec => []UniqueNames` |
| `PfsProofs!BlocksHaveOneOwner` | `Faults = {}` | `Spec => []NoCrossLink` |
| `PfsProofs!FilesKeepTheirBlocks` | `Faults = {}` | `Spec => []BitmapCovers` |
| `PfsConsistency!FilesStayWhole` | `Faults = {}`, `Data # {}` | `Spec => []CrashConsistent` |
| `PfsRefinement!StoreImplementsMap` | `Faults = {}`, `LongNames = {}` | `Spec => ImplementsFileStore` |
| `PfsConsistency!MountComputesBitmap` | `Faults = {}` | `Spec => MountExact` |
| `PfsFaultsProofs!RestartRepairs` | nothing more | `HSpec => MountRepairs` |
| `PfsFaultsProofs!NamesUniqueUntilMisread` | nothing more | `HSpec => []UniqueUntilMisread` |
| `PfsFaultsProofs!BlocksOwnedUnlessHarmed` | nothing more | `HSpec => []OwnedUnlessHarmed` |
| `SystemProofs!SysTypeCorrect` | nothing more | `SysSpec => []SysTypeOK` |
| `SystemProofs!InstalledDiskIsMarked` | nothing more | `SysSpec => VerifiedDiskIsMarked` |
| `SystemProofs!WizardLeavesFilesWhole` | `Faults = {}`, `Data # {}` | `SysSpec => []FilesWholeOrGone` |
| `SystemProofs!StaleBitmapStaysSafe` | `Faults = {}` | `SysSpec => []StaleBitmapIsSafe` |
| `AtaProofs!TypeCorrect` | nothing more | `Spec => []TypeOK` |
| `AtaProofs!ReadsDeliver` | nothing more | `Spec => []PrimaryReadsDeliver` |
| `AtaProofs!WritesStick` | nothing more | `Spec => []PrimaryWritesStick` |
| `AtaProofs!CommandsTaken` | nothing more | `Spec => PrimaryCommandsTaken` |
| `AtaProofs!DriverImplementsDisk` | nothing more | `Spec => ImplementsDisk` |
| `FatProofs!FatTypeCorrect` | nothing more | `Spec => []TypeOK` |
| `FatProofs!PromptIsTrue` | nothing more | `Spec => []PromptTellsWhere` |
| `FatProofs!UpIsParent` | nothing more | `Spec => PlainUpGoesUp` |
| `TerminalProofs!TerminalTypeCorrect` | nothing more | `Spec => []TypeOK` |
| `TerminalProofs!FrameIsKept` | nothing more | `Spec => []StaysInFrame` |
| `TerminalProofs!BlackIsKept` | nothing more | `Spec => []BlackBehindCursor` |
| `TerminalProofs!ScreenIsTheLine` | nothing more | `Spec => []ScreenShowsLine` |
| `TerminalProofs!WordsAreTaken` | nothing more | `Spec => []ArgsAreWords` |

*Types.* `Typed` adds to `TypeOK` what the locals hold while each handler is at
work (`LocalsOK`), for example that `cur` is a block while `pc = "w_link"`;
without it `WLink` could write anything. A directory of any bytes does not reach
them: a start block outside the store's is no chain (`HasChain`, pfs.cpp:58, 247
and 342), so no handler follows it.

*Chains.* `ChainsAscend` is not inductive: `WLink` stores `cur` into block
`prev`, and nothing in `ChainsAscend` says `prev < cur`. `WritePosition` says
it, from a fact about the allocator: `bitmap_alloc` takes the lowest free block
and nothing is freed while a write runs, so all blocks up to the one in hand are
marked (`FilledUpTo`), and the next is higher. This holds under every fault,
which is why the unbounded loops of the store terminate.

*Names.* A step either takes names away, or creates one that the search just
before did not find, or changes the size and start of an entry. A failing write
changes nothing of this; a failing read does.

*Ownership.* `NoCrossLink` speaks of the blocks in the bitmap, but after a crash
the bitmap is empty and the chains are still on the disk. The invariant
therefore says that *some* set of blocks R owns the disk (`Owned`: chains that start at
the directory stay in R, and no block has two pointers from the directory and
R). While commands run the bitmap is such a set. A crash keeps R as the witness;
the rebuild marks a subset of R that is closed again when it ends (`Swept`,
`Sweeping`). During a delete the bitmap shrinks along one chain (`Detached`);
during a write the new chain hangs from nothing until the directory is written
(`Unattached`, `Loose`). Stale pointers in free blocks are harmless because a
block gets a fresh pointer before its bit matters.

*Whole files.* `CrashConsistent` follows chains by a recursive function. The
proof replaces it by a witness: every entry has a *trace*, the sequence of its
blocks with the chunks of one write in order and 0xFFFF at the end (`Holds`). A
write in progress has one too, loose until the directory points to it. Traces
stay inside every owning set, so what a command writes elsewhere leaves them
alone. That the recursive `Chain` follows the trace is an induction over its
length, carried by the set of lengths for which it holds
(`IntervalInduction`, from the well-foundedness of `<`).

*Refinement.* The file a name stands for changes only when the directory sector
is written. The four steps that do are the four ways the map of `FileStore`
changes, the step that ends a command is its answer, a crash a restart, and
every other step a stutter. That a file is refused for want of an entry only when
the map is full is `RoomIsSlot`: as names are unique, each file has a slot to
itself, and a map as large as the directory leaves none.

*Mount.* What is marked at the end contains the roots and is closed, so it
contains all of `Reachable`; it contains no more, because block b is only marked
when it can be reached in at most b - 4 steps: next pointers ascend, so that many are
enough.

*After failures.* `RestartRepairs` needs no owner at all: the sweep of the
rebuild marks what the chains reach, whoever shares them, provided this mount
could read. For `OwnedUnlessHarmed` the bitmap is no longer the owning set, as
it holds blocks that a failed write took for nobody. The invariant (`Held`)
keeps two sets: R owns what the disk points to, and V, a part of R inside the
bitmap, what the running command may rely on. A failed write of a block or link
gives up the blocks in hand and keeps V; a delete takes blocks out of V and not
of R, and the two meet again when the entry is written. The three harmful
failures are the three places where this argument breaks.

*Machine.* The store's steps keep the store's invariants, so what is left is the
wizard: it runs only while no handler does, it empties the directory before it
touches a data block, and a zeroed block points nowhere. Under failures the
marker is still on the disk when the wizard says so, because the write that
placed it was reported done before the first sector was zeroed; if it was
reported and lost, what the verification recognised is a marker of the other
disk.

*Driver.* As long as no polling loop ran out, the primary disk and the driver
are in step (`InStep`): the disk rests unless a call to it is past its command;
then it is at the sector the driver has come to, or stores the one just moved.
The four properties and the refinement all follow from it.

*Boot partition.* The invariant is `TypeOK` and `PromptTellsWhere` themselves.
Walking a path is a fold over its components, so walking `s \o t` from a node is
walking `t` from where `s` leads (`WalkConcat`), and the last component is the
last step (`WalkLast`). `cd` extends the string by what was typed and opens that
from the handle, `cd ..` takes off the last component and opens what is left
from the root: both sides of the agreement change by the same walk. `mkdir` adds
a node where there was none, which changes no walk that led somewhere; only
`astray` states escape. `PlainUpGoesUp` follows because the last step along a
plain name goes from a node to its child.

*Screen.* A cell is a set of indices; that two cells share none and all lie in
the frame is arithmetic about quotients and remainders (`CellsAreDisjoint`,
`CellInFrame`, `Decode`, `Below`), and so is that a scroll takes each cell to
the one above it and the first line out of the frame (`CellAbove`, `TopLine`).
The invariant says three things of the screen (`Good`): the cursor is on it
(`Fine`); every pixel that is not black lies in a cell before a position n
(`InkIn`), the cursor while a line is read and run, the end of its row before
the next prompt; and while a line is read the glyphs of the prompt and the line
stand in the cells before the cursor (`TrailIn`). The parts are the checked
properties with the division of a position into row and column undone; what is
hard is one character: each part is carried over a character of each of the five
kinds, with and without a wrap and a scroll, and then over a text. The two
bounds of the second part meet at the newline that ends a row (`RowInk`,
`NewlineInk`).

*Words.* After k characters (`Tokens`), `argv` holds one word for each of the
first `SHELL_MAX_ARGS` starts among them, the n-th word for the start that is
preceded by n - 1 others, cut at k if it is still being read; `open` says
whether the last one is. Nothing else remembers a dropped word, so the part on
`open` counts the starts. The words that the stored pointer may empty are the
first of these: those that begin in the first `POINTER_SIZE` characters
(`EarlyIs`).

*Induction.* Texts, lines and paths are folds (`FoldLeft`), which the library
defines by a recursive function over sets of indices. `FoldExists` shows that
this function exists, and `FoldHasStates` gives the sequence of states between
two characters; an induction over it is `IntervalInduction`, about a set of
numbers in place of a claim.

## 6. Model-checked only

Every invariant, action property and refinement that a passing run checks is
also a theorem. Liveness (`CommandsTerminate`, `ReachesPrompt`, `CallsReturn`)
is beyond the prover and stays with TLC; what the termination of the chain walks
rests on, `ChainsAscend`, is proved. So does what the violation runs show: they
are counterexamples.

## 7. Not modelled

- `serial.cpp`: register input and output. `font8x16.cpp`: data, of which only
  the difference of its glyphs matters. Colours and their order in a pixel.
- Screens smaller than a character (`TerminalAssumption`): the scroll of such
  a screen would compute a negative length.
- `console.cpp`, `diskimg.cpp`, `sysdisk_mark_clean`, `gop_fill_screen`,
  `gfxterm_set_cursor`: no caller.
- `alloc.cpp`: passes to the firmware; halts when memory runs out, like a stop.
- The reading of the wallpaper's sectors, whose result is ignored: what the
  picture shows is not told apart.
- `fat_init` failing (its result is ignored and the shell's commands then use
  null handles), `ls` of a file, and handles that are opened and never closed.
- `pfs_list`, which reads and prints.
- Variables of other files than shell.cpp that may lie behind `g_argv`, where a
  line of 16 words stores a null pointer (shell.cpp:31).
- `tools/mkiso.py`, which no build file calls, and the build files. `tools/create_disk.py` is modelled by
  the initial states: marker, superblock, directory and blocks are zero.
- Stale reads after a late sector (`late` in `Ata`) are not among the faults of
  `Pfs`: `DiskService` promises nothing then, and `Pfs` assumes the promise.
- `Pfs` and `Ata` are not one composed model: the contract between them is
  `DiskService`, which `Ata` is proved to keep and whose one-sector calls are
  the outcomes `Pfs` is written over. That last step is by reading, not checked.

## 8. Plan

Done: all components with state of their own modelled and checked, and every
safety property of a passing run proved. What could follow:

1. The contract between store and driver as a theorem: the calls of one sector
   in `DiskService` have exactly the outcomes `Pfs` is written over.
2. That the machine of `System`, between installations, implements `FileStore`.
3. A fault `"stale"` in `Pfs` for late sectors, and what of `PfsFaults` survives
   it.
4. A bus without a device (status 0xFF) in `Ata`; the cluster layout of
   `tools/mkiso.py` as functions with a reference definition.
