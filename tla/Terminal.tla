------------------------------ MODULE Terminal ------------------------------
(***************************************************************************)
(* The shell's read loop on the graphical terminal: the framebuffer that   *)
(* gop_init leaves (src/src/gop.cpp), glyphs, cursor, wrapping, scrolling  *)
(* and the echo of readline (src/src/gfxterm.cpp), the wallpaper command,  *)
(* the prompt and the tokenizer (src/src/shell.cpp).  The screen is the    *)
(* array of pixels the code writes; colours are abstracted to what a pixel *)
(* shows.                                                                  *)
(***************************************************************************)
EXTENDS Integers, Sequences, FiniteSets, FiniteSetsExt, SequencesExt

CONSTANTS
  Firmwares,       \* video firmware: [modes, current, obeys], see gop_init
  IMAGE_WIDTH, IMAGE_HEIGHT,  \* of the wallpaper (1024 and 768)
  FONT_WIDTH, FONT_HEIGHT,    \* of a glyph (8 and 16)
  MAX_LINE,        \* max_len of the shell's readline (256 in the code)
  DUMMY_LINE,      \* and of the wallpaper command's (8 in the code)
  SHELL_MAX_ARGS,  \* most arguments of a command (16 in the code)
  POINTER_SIZE,    \* bytes of a pointer (8 on x86-64)
  Letters,         \* printable characters other than blank
  Prompts,         \* what shell_prompt may print after the newline
  LoadingText, DoneText,      \* what cmd_wallpaper prints
  Outputs          \* what another command may print, a file's bytes too

Blank == " "
Printable == Letters \cup {Blank}
Newline == "LF"
Return == "CR"
Backspace == "BS"
Tab == "HT"
Controls == {Newline, Return, Backspace, Tab}

(* A mode that is usable by the CPU has a base address and a frame of      *)
(* height rows, stride pixels from one to the next; a cell or more fits.   *)
(* A prompt is made of literals and of a path that was typed.              *)
ASSUME TerminalAssumption ==
  /\ Letters \cap (Controls \cup {Blank}) = {}
  /\ \A p \in Prompts : p \in Seq(STRING) /\ Range(p) \cap Controls = {}
  /\ LoadingText \in Seq(STRING) /\ DoneText \in Seq(STRING)
  /\ Outputs \subseteq Seq(STRING)
  /\ FONT_WIDTH \in Nat \ {0} /\ FONT_HEIGHT \in Nat \ {0}
  /\ IMAGE_WIDTH \in Nat \ {0} /\ IMAGE_HEIGHT \in Nat \ {0}
  /\ MAX_LINE \in Nat \ {0} /\ DUMMY_LINE \in Nat \ {0}
  /\ SHELL_MAX_ARGS \in Nat \ {0} /\ POINTER_SIZE \in Nat \ {0}
  /\ \A fw \in Firmwares :
       /\ fw.modes \in Seq([base: BOOLEAN, width: Nat, height: Nat,
                             stride: Nat, known: BOOLEAN, rgb: BOOLEAN])
       /\ fw.current \in DOMAIN fw.modes
       /\ \A m \in Range(fw.modes) :
            m.base => /\ m.width >= FONT_WIDTH /\ m.height >= FONT_HEIGHT
                      /\ m.stride >= m.width

VARIABLES
  fb,     \* g_fb: whether it has a base address, its size and stride
  scr,    \* the pixels, the cursor, and whether a write left the frame
  pc,     \* "prompt", "read", "execute" or "picture" (in cmd_wallpaper)
  buf,    \* the line being read
  prompt, \* what the prompt before it says: the current directory's path
  stuck   \* history: a backspace of this line found the cursor at column 0

vars == <<fb, scr, pc, buf, prompt, stuck>>

(***************************************************************************)
(* gop_init.  It takes the first mode of the wallpaper's size that the     *)
(* firmware describes and that has 32-bit colours, if setting it works,    *)
(* and otherwise the current mode.                                         *)
(***************************************************************************)
Preferred(m) == m.known /\ m.rgb /\ m.width = IMAGE_WIDTH
                                /\ m.height = IMAGE_HEIGHT

gop_init(fw) ==
  LET found == {i \in DOMAIN fw.modes : Preferred(fw.modes[i])}
      mode  == fw.modes[IF found # {} /\ fw.obeys THEN Min(found)
                        ELSE fw.current]
  IN  [base   |-> mode.base,   width  |-> mode.width,
       height |-> mode.height, stride |-> mode.stride]

NoFrame == [base |-> FALSE, width |-> 0, height |-> 0, stride |-> 0]

Framebuffers == {NoFrame} \cup {gop_init(fw) : fw \in Firmwares}

(* gfxterm_init.  Without a base address it leaves the zeros of .bss.      *)
cols == IF fb.base THEN fb.width \div FONT_WIDTH ELSE 0
rows == IF fb.base THEN fb.height \div FONT_HEIGHT ELSE 0

(***************************************************************************)
(* Writing pixels.  paint gives some indices of the frame a new content; a *)
(* write to any other index is remembered in wild.                         *)
(***************************************************************************)
Black == <<>>
Leftover == <<"firmware">>   \* what was on the screen before the kernel
Picture == <<"picture">>     \* a pixel of the wallpaper

Frame(f) == IF f.base THEN 0..(f.stride * f.height - 1) ELSE {}

Painted(s, paint) ==
  [s EXCEPT !.px = [i \in DOMAIN @ |->
                     IF i \in DOMAIN paint THEN paint[i] ELSE @[i]],
            !.wild = @ \/ ~(DOMAIN paint \subseteq DOMAIN s.px)]

(* The font has a different glyph for each character, and all of a blank   *)
(* is background.                                                          *)
GlyphPixel(c, row, col) == IF c = Blank THEN Black ELSE <<c, row, col>>

CellIndex(f, x, y) == y * FONT_HEIGHT * f.stride + x * FONT_WIDTH
CellArea(f, x, y) ==
  {CellIndex(f, x, y) + row * f.stride + col :
     row \in 0..(FONT_HEIGHT - 1), col \in 0..(FONT_WIDTH - 1)}
Glyph(f, x, y, c) ==
  [i \in CellArea(f, x, y) |->
     LET d == i - CellIndex(f, x, y)
     IN  GlyphPixel(c, d \div f.stride, d % f.stride)]

OnScreen(s) == s.x \in 0..(cols - 1) /\ s.y \in 0..(rows - 1)

Drawn(s, c) ==
  IF fb.base /\ OnScreen(s) THEN Painted(s, Glyph(fb, s.x, s.y, c)) ELSE s

gfxterm_clear(f, s) ==
  IF f.base
  THEN [Painted(s, [i \in Frame(f) |-> Black]) EXCEPT !.x = 0, !.y = 0]
  ELSE s

(* gop_render_wallpaper.  The picture is centred in a larger frame and     *)
(* clipped to a smaller one.                                               *)
SlipClipped(size, limit) == limit
Clipped(size, limit) == IF size < limit THEN size ELSE limit
Offset(size, limit) == IF size > limit THEN (size - limit) \div 2 ELSE 0

gop_render_wallpaper(f, s) ==
  IF ~f.base THEN s
  ELSE Painted(s,
         [i \in {(y + Offset(f.height, IMAGE_HEIGHT)) * f.stride
                   + x + Offset(f.width, IMAGE_WIDTH) :
                   y \in 0..(Clipped(f.height, IMAGE_HEIGHT) - 1),
                   x \in 0..(Clipped(f.width, IMAGE_WIDTH) - 1)} |-> Picture])

(***************************************************************************)
(* gfxterm_putc.                                                           *)
(***************************************************************************)
Put(s, c) ==
  CASE c = Newline   -> [s EXCEPT !.y = @ + 1, !.x = 0]
    [] c = Return    -> [s EXCEPT !.x = 0]
    [] c = Backspace -> IF s.x > 0 THEN Drawn([s EXCEPT !.x = @ - 1], Blank)
                        ELSE s
    [] c = Tab       -> [s EXCEPT !.x = ((@ \div 8) + 1) * 8]
    [] OTHER         -> [Drawn(s, c) EXCEPT !.x = @ + 1]

SlipWrapped(s) == IF s.x > cols THEN [s EXCEPT !.x = 0, !.y = @ + 1] ELSE s
Wrapped(s) == IF s.x >= cols THEN [s EXCEPT !.x = 0, !.y = @ + 1] ELSE s

(* gfxterm_scroll moves all pixels up by the height of a glyph, the rows   *)
(* below the last line of text too, and clears the last FONT_HEIGHT rows   *)
(* of pixels.  Without a base address it does nothing.                     *)
SlipMoved == (rows - 1) * FONT_HEIGHT * fb.stride
Moved == fb.stride * (fb.height - FONT_HEIGHT)

gfxterm_scroll(s) ==
  IF ~fb.base THEN s
  ELSE LET up == FONT_HEIGHT * fb.stride
       IN  Painted(Painted(s, [i \in 0..(Moved - 1) |-> s.px[i + up]]),
                   [i \in fb.stride * (fb.height - FONT_HEIGHT)
                            ..(fb.stride * fb.height - 1) |-> Black])

(* The loop scrolls once: the cursor is at most one row below the last     *)
(* one.  Without rows it only counts down, to row -1.                      *)
Scrolled(s) ==
  IF s.y < rows THEN s ELSE [gfxterm_scroll(s) EXCEPT !.y = rows - 1]

Putc(s, c) == Scrolled(Wrapped(Put(s, c)))
PutAll(s, str) == FoldLeft(Putc, s, str)

(***************************************************************************)
(* gfxterm_readline: one key.  Its keys are the printable characters,      *)
(* Enter, Backspace and Ctrl+C; any other does nothing.                    *)
(***************************************************************************)
ShowPrompt ==
  /\ pc = "prompt"
  /\ prompt' \in Prompts
  /\ scr' = PutAll(scr, <<Newline>> \o prompt')
  /\ pc' = "read"
  /\ buf' = <<>> /\ stuck' = FALSE
  /\ UNCHANGED fb

TypeEnter ==
  /\ pc = "read"
  /\ scr' = Putc(scr, Newline)
  /\ pc' = IF buf = <<>> THEN "prompt" ELSE "execute"
  /\ UNCHANGED <<fb, buf, prompt, stuck>>

TypeBackspace ==
  /\ pc \in {"read", "picture"} /\ buf # <<>>
  /\ buf' = Front(buf)
  /\ scr' = Putc(scr, Backspace)
  /\ stuck' = (stuck \/ scr.x = 0)
  /\ UNCHANGED <<fb, pc, prompt>>

TypeCtrlC ==
  /\ pc = "read"
  /\ scr' = PutAll(scr, <<"^", "C", Newline>>)
  /\ buf' = <<>>
  /\ pc' = "prompt"
  /\ UNCHANGED <<fb, prompt, stuck>>

max_len == IF pc = "picture" THEN DUMMY_LINE ELSE MAX_LINE

SlipRoom == Len(buf) < max_len
Room == Len(buf) < max_len - 1

TypePrintable(c) ==
  /\ pc \in {"read", "picture"} /\ Room
  /\ buf' = Append(buf, c)
  /\ scr' = Putc(scr, c)
  /\ UNCHANGED <<fb, pc, prompt, stuck>>

(***************************************************************************)
(* shell_tokenize, one character at a time: open says that the last token  *)
(* is still growing.                                                       *)
(***************************************************************************)
SlipTaken(t, c) ==     \* what follows the last argument is added to it
  IF c = Blank THEN [t EXCEPT !.open = Len(t.argv) = SHELL_MAX_ARGS]
  ELSE IF t.open THEN [t EXCEPT !.argv[Len(t.argv)] = Append(@, c)]
  ELSE [argv |-> Append(t.argv, <<c>>), open |-> TRUE]
Taken(t, c) ==
  IF c = Blank THEN [t EXCEPT !.open = FALSE]
  ELSE IF t.open THEN [t EXCEPT !.argv[Len(t.argv)] = Append(@, c)]
  ELSE IF Len(t.argv) < SHELL_MAX_ARGS
       THEN [argv |-> Append(t.argv, <<c>>), open |-> TRUE]
  ELSE t

Words(line) ==
  FoldLeft(Taken, [argv |-> <<>>, open |-> FALSE], line).argv

(* How many of them begin in the first POINTER_SIZE characters.            *)
EarlyWords(line) ==
  Len(Words(SubSeq(line, 1, Min({POINTER_SIZE, Len(line)}))))

(* The argument vectors that shell_tokenize may leave.  The null pointer   *)
(* that ends one is stored past g_argv when there are SHELL_MAX_ARGS       *)
(* words.  Of the static variables of shell.cpp that the build may put     *)
(* there, g_argc is assigned afterwards; g_line loses its first bytes to   *)
(* the pointer, and the words that begin in them are then empty.           *)
shell_tokenize(line) ==
  {Words(line)} \cup
    IF Len(Words(line)) = SHELL_MAX_ARGS
    THEN {[n \in 1..SHELL_MAX_ARGS |->
             IF n <= EarlyWords(line) THEN <<>> ELSE Words(line)[n]]}
    ELSE {}

(* A line of blanks runs nothing; "clear" clears the screen, "wallpaper"   *)
(* shows the picture until a line is entered; any other command prints,    *)
(* and an unknown one, an empty one too, prints that it is unknown.        *)
Execute ==
  /\ pc = "execute"
  /\ \E argv \in shell_tokenize(buf) :
       IF argv = <<>> THEN scr' = scr
       ELSE \E o \in Outputs : scr' = PutAll(scr, o)
  /\ pc' = "prompt"
  /\ UNCHANGED <<fb, buf, prompt, stuck>>

(* The first word is the name of a command.                                *)
Named == \E argv \in shell_tokenize(buf) : argv # <<>> /\ argv[1] # <<>>

Clear ==
  /\ pc = "execute" /\ Named
  /\ scr' = gfxterm_clear(fb, scr)
  /\ pc' = "prompt"
  /\ UNCHANGED <<fb, buf, prompt, stuck>>

OpenPicture ==
  /\ pc = "execute" /\ Named
  /\ LET loading == PutAll(scr, LoadingText)
     IN  scr' = PutAll(gop_render_wallpaper(fb, loading), DoneText)
  /\ pc' = "picture" /\ buf' = <<>>
  /\ UNCHANGED <<fb, prompt, stuck>>

(* Enter or Ctrl+C, and then the rest of cmd_wallpaper.                    *)
ClosePicture ==
  /\ pc = "picture"
  /\ \E end \in {<<Newline>>, <<"^", "C", Newline>>} :
       scr' = gfxterm_clear(fb, PutAll(scr, end))
  /\ pc' = "prompt" /\ buf' = <<>>
  /\ UNCHANGED <<fb, prompt, stuck>>

-----------------------------------------------------------------------------
(* The boot: gop_init, the wallpaper if the disk has one, gfxterm_init and *)
(* gfxterm_clear.                                                          *)
Init ==
  /\ fb \in Framebuffers
  /\ LET dark  == [px   |-> [i \in Frame(fb) |-> Leftover],
                   wild |-> FALSE, x |-> 0, y |-> 0]
     IN  \E shown \in {dark, gop_render_wallpaper(fb, dark)} :
           scr = gfxterm_clear(fb, shown)
  /\ pc = "prompt" /\ buf = <<>> /\ prompt = <<>> /\ stuck = FALSE

Next ==
  \/ ShowPrompt
  \/ TypeEnter \/ TypeBackspace \/ TypeCtrlC
  \/ \E c \in Printable : TypePrintable(c)
  \/ Execute \/ Clear
  \/ OpenPicture \/ ClosePicture

Spec == Init /\ [][Next]_vars

-----------------------------------------------------------------------------
(* The cursor is on the screen between any two characters, and without a   *)
(* screen it stays where nothing is drawn; a line, with the zero that ends *)
(* it, fits its buffer.                                                    *)
TypeOK ==
  /\ fb \in Framebuffers
  /\ DOMAIN scr.px = Frame(fb)
  /\ IF fb.base THEN OnScreen(scr) ELSE scr.x = 0 /\ scr.y \in {0, -1}
  /\ pc \in {"prompt", "read", "execute", "picture"}
  /\ buf \in Seq(Printable) /\ Len(buf) < max_len
  /\ prompt \in Prompts \cup {<<>>} /\ stuck \in BOOLEAN

(* No glyph, scroll or picture is written outside the framebuffer, whatever*)
(* its size, its stride and its size relative to the picture.              *)
StaysInFrame == ~scr.wild

(* The cells, counted along the rows: the p-th one shows c.                *)
Shows(p, c) ==
  \A i \in CellArea(fb, p % cols, p \div cols) :
    scr.px[i] = Glyph(fb, p % cols, p \div cols, c)[i]
Cursor == scr.y * cols + scr.x

(* What stands on the screen before the cursor, pixel by pixel, is the     *)
(* prompt and the line as it will be executed, across wrapped rows and     *)
(* after any scrolling and deleting.  (As long as no backspace of this     *)
(* line met the cursor at the start of a row: that one takes the character *)
(* out of the line and leaves it on the screen.)                           *)
ScreenShowsLine ==
  fb.base /\ pc = "read" /\ ~stuck =>
    LET shown == prompt \o buf
    IN  \A i \in 1..Len(shown) :
          i <= Cursor => Shows(Cursor - i, shown[Len(shown) + 1 - i])

(* Outside the cells before the cursor the frame is black: no deleted      *)
(* character stays, no row comes back from an earlier page, and nothing of *)
(* a picture or of a scrolled row is left in the margins that are too      *)
(* narrow for a cell.  (What a command prints may take the cursor back in  *)
(* its row: before the next prompt the rest of that row is not black.)     *)
BlackBehindCursor ==
  fb.base /\ pc # "picture" =>
    LET end     == IF pc = "prompt" THEN (scr.y + 1) * cols ELSE Cursor
        written == UNION {CellArea(fb, p % cols, p \div cols) :
                            p \in 0..(end - 1)}
    IN  \A i \in DOMAIN scr.px \ written : scr.px[i] = Black

(* The words of a line: its longest runs of letters, from left to right.   *)
IsWord(line, i, j) ==
  /\ \A k \in i..j : line[k] # Blank
  /\ i > 1 => line[i - 1] = Blank
  /\ j < Len(line) => line[j + 1] = Blank
WordStarts(line) ==
  {i \in 1..Len(line) : \E j \in i..Len(line) : IsWord(line, i, j)}
Word(line, i) ==
  SubSeq(line, i, CHOOSE j \in i..Len(line) : IsWord(line, i, j))
Nth(line, n) ==
  CHOOSE i \in WordStarts(line) :
    Cardinality({k \in WordStarts(line) : k <= i}) = n

(* A command gets the words of the line that was read, in order, and no    *)
(* others; words past SHELL_MAX_ARGS are dropped whole.  Only when the     *)
(* vector is full may words that begin in the first POINTER_SIZE characters*)
(* be lost to the pointer stored behind it, and they are then empty.       *)
ArgsAreWords ==
  pc = "execute" =>
    LET words == Cardinality(WordStarts(buf))
    IN  \A argv \in shell_tokenize(buf) :
          /\ Len(argv) = IF words < SHELL_MAX_ARGS THEN words
                         ELSE SHELL_MAX_ARGS
          /\ \A n \in 1..Len(argv) :
               \/ argv[n] = Word(buf, Nth(buf, n))
               \/ /\ argv[n] = <<>> /\ Len(argv) = SHELL_MAX_ARGS
                  /\ Nth(buf, n) <= POINTER_SIZE
=============================================================================
