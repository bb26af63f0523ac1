--------------------------- MODULE TerminalProofs ---------------------------
(***************************************************************************)
(* Theorems about the screen and the line of module Terminal, for every    *)
(* video mode, font size, line length, prompt and output.                  *)
(*                                                                         *)
(* The argument: the cells of the screen are disjoint areas of the frame,  *)
(* so a character changes one cell and leaves the others; a scroll takes   *)
(* each cell to the one above.  What holds of the screen after one         *)
(* character holds after a text, which is a fold over its characters; so   *)
(* is the tokenizer.  The invariant (Part 8) says where the screen is not  *)
(* black and which characters stand before the cursor.                     *)
(***************************************************************************)
EXTENDS Terminal, FiniteSetTheorems, WellFoundedInduction, TLAPS

(***************************************************************************)
(* Part 1.  Numbers.  Induction has a set of numbers in the place of a     *)
(* claim.                                                                  *)
(***************************************************************************)
LEMMA LeastNumber ==
  ASSUME NEW T \in SUBSET Nat, T # {}
  PROVE  \E n \in T : \A m \in T : n <= m
<1> DEFINE Less == {p \in Nat \X Nat : p[1] < p[2]}
<1>1. IsWellFoundedOn(Less, Nat)
  BY NatLessThanWellFounded DEF OpToRel
<1>2. \A m, n \in Nat : m < n => <<m, n>> \in Less
  OBVIOUS
<1> HIDE DEF Less
<1>3. PICK n \in T : \A m \in T : ~(<<m, n>> \in Less)
  BY <1>1, WFMin
<1>4. \A m \in T : ~(m < n)
  BY <1>2, <1>3
<1>5. QED
  BY <1>4

LEMMA IntervalInduction ==
  ASSUME NEW j \in Nat, NEW T, 0 \in T,
         \A k \in 0..j : k < j /\ k \in T => k + 1 \in T
  PROVE  j \in T
<1> SUFFICES ASSUME j \notin T PROVE FALSE
  OBVIOUS
<1> DEFINE Bad == {k \in 0..j : k \notin T}
<1>1. Bad \in SUBSET Nat /\ Bad # {}
  OBVIOUS
<1> HIDE DEF Bad
<1>2. PICK n \in Bad : \A m \in Bad : n <= m
  BY <1>1, LeastNumber
<1> USE DEF Bad
<1>3. n \in 0..j /\ n \notin T /\ n # 0
  BY <1>2
<1>4. n - 1 \in 0..j /\ n - 1 \in T /\ n - 1 < j
  BY <1>2, <1>3
<1>5. QED
  BY <1>3, <1>4

LEMMA Division ==
  ASSUME NEW p \in Nat, NEW b \in Nat \ {0}
  PROVE  /\ p \div b \in Nat /\ p % b \in 0..(b - 1)
         /\ p = (p \div b) * b + (p % b)
OBVIOUS

LEMMA Quotient ==
  ASSUME NEW p \in Nat, NEW b \in Nat \ {0}, p >= b
  PROVE  p \div b \in Nat \ {0} /\ (p \div b) * b <= p
<1> DEFINE q == p \div b
           r == p % b
<1>1. q \in Nat /\ r \in 0..(b - 1) /\ p = q * b + r
  BY Division
<1> HIDE DEF q, r
<1>2. q * b \in Nat /\ (q = 0 => q * b = 0)
  BY <1>1
<1>3. q # 0 /\ q * b <= p
  BY <1>1, <1>2
<1>4. QED
  BY <1>1, <1>3 DEF q

LEMMA Times ==
  ASSUME NEW a \in Nat, NEW b \in Nat, NEW c \in Nat, a <= b
  PROVE  a * c \in Nat /\ b * c \in Nat /\ a * c <= b * c
OBVIOUS

LEMMA TimesNext ==
  ASSUME NEW a \in Int, NEW c \in Int
  PROVE  (a + 1) * c = a * c + c
OBVIOUS

(* A number has one quotient and one remainder.                            *)
LEMMA Decode ==
  ASSUME NEW b \in Nat \ {0}, NEW q \in Nat, NEW r \in 0..(b - 1),
         NEW k \in Nat, NEW s \in 0..(b - 1), q * b + r = k * b + s
  PROVE  q = k /\ r = s
<1>1. ASSUME q < k PROVE FALSE
  <2>1. (q + 1) * b <= k * b
    BY <1>1, Times
  <2>2. QED
    BY <2>1, TimesNext
<1>2. ASSUME k < q PROVE FALSE
  <2>1. (k + 1) * b <= q * b
    BY <1>2, Times
  <2>2. QED
    BY <2>1, TimesNext
<1>3. QED
  BY <1>1, <1>2

(* A number below n * b has its quotient below n.                          *)
LEMMA Below ==
  ASSUME NEW b \in Nat, NEW q \in Nat, NEW r \in 0..(b - 1),
         NEW n \in Nat
  PROVE  q < n <=> q * b + r < n * b
<1>1. q < n => (q + 1) * b <= n * b
  BY Times
<1>2. n <= q => n * b <= q * b
  BY Times
<1>3. q * b \in Nat /\ n * b \in Nat
  BY Times
<1>4. QED
  BY <1>1, <1>2, <1>3, TimesNext

(***************************************************************************)
(* Part 2.  Folds over the characters of a text: kind tells PutAll from    *)
(* Words.                                                                  *)
(***************************************************************************)
Step(kind, m, c) == IF kind = "put" THEN Putc(m, c) ELSE Taken(m, c)

Follows(kind, at, str, j) ==
  \A i \in 1..j : at[i] = Step(kind, at[i - 1], str[i])

(* The fold takes the characters off from the end.                         *)
FoldBody(kind, s, str, g, set) ==
  IF set = {} THEN s
  ELSE Step(kind, g[set \ {Max(set)}], str[Max(set)])

LEMMA MaxIsLast ==
  ASSUME NEW k \in Nat, NEW set \in SUBSET (1..k), k \in set
  PROVE  Max(set) = k
<1>1. \A y \in set : k >= y
  OBVIOUS
<1>2. \A x \in set : (\A y \in set : x >= y) => x = k
  OBVIOUS
<1>3. QED
  BY <1>1, <1>2 DEF Max

LEMMA FoldExists ==
  ASSUME NEW kind, NEW s, NEW str, NEW j \in Nat
  PROVE  \E g : g = [set \in SUBSET (1..j) |->
                       FoldBody(kind, s, str, g, set)]
<1> DEFINE Body(g, set) == FoldBody(kind, s, str, g, set)
           Has(k) == \E g : g = [set \in SUBSET (1..k) |-> Body(g, set)]
<1>1. Has(0)
  <2> DEFINE g == [set \in SUBSET (1..0) |-> s]
  <2>1. g = [set \in SUBSET (1..0) |-> Body(g, set)]
    BY DEF FoldBody
  <2>2. QED
    BY <2>1
<1>2. ASSUME NEW k \in 0..j, k < j, Has(k) PROVE Has(k + 1)
  <2>1. PICK g : g = [set \in SUBSET (1..k) |-> Body(g, set)]
    BY <1>2
  <2> DEFINE B == SUBSET (1..(k + 1))
             h == [set \in B |->
                    IF k + 1 \in set
                    THEN Step(kind, g[set \ {k + 1}], str[k + 1])
                    ELSE g[set]]
  <2>2. \A set \in SUBSET (1..k) :
          set \in B /\ k + 1 \notin set /\ h[set] = g[set]
    OBVIOUS
  <2>3. ASSUME NEW set \in B PROVE h[set] = Body(h, set)
    <3>1. CASE k + 1 \in set
      <4>1. Max(set) = k + 1
        BY <3>1, MaxIsLast
      <4>2. set \ {k + 1} \in SUBSET (1..k)
        OBVIOUS
      <4>3. h[set \ {k + 1}] = g[set \ {k + 1}]
        BY <4>2, <2>2
      <4>4. h[set] = Step(kind, g[set \ {k + 1}], str[k + 1])
        BY <3>1
      <4>5. QED
        BY <3>1, <4>1, <4>3, <4>4 DEF FoldBody
    <3>2. CASE k + 1 \notin set
      <4>1. set \in SUBSET (1..k)
        BY <3>2
      <4>2. h[set] = Body(g, set)
        BY <4>1, <2>1, <2>2
      <4>3. set \ {Max(set)} \in SUBSET (1..k)
        BY <4>1
      <4>4. h[set \ {Max(set)}] = g[set \ {Max(set)}]
        BY <4>3, <2>2
      <4>5. QED
        BY <4>2, <4>4 DEF FoldBody
    <3>3. QED
      BY <3>1, <3>2
  <2>4. h = [set \in B |-> Body(h, set)]
    <3> HIDE DEF Body
    <3>1. h = [set \in B |-> h[set]]
      OBVIOUS
    <3> HIDE DEF h
    <3>2. QED
      BY <3>1, <2>3
  <2>5. QED
    BY <2>4
<1> HIDE DEF Has
<1> DEFINE T == {k \in 0..j : Has(k)}
<1>3. 0 \in T /\ \A k \in 0..j : k < j /\ k \in T => k + 1 \in T
  BY <1>1, <1>2
<1> HIDE DEF T
<1>4. j \in T
  BY <1>3, IntervalInduction
<1>5. Has(j)
  BY <1>4 DEF T
<1>6. QED
  BY <1>5 DEF Has

Folded(kind, s, str) ==
  FoldLeft(LAMBDA m, c : Step(kind, m, c), s, str)

(* The states between two characters.                                      *)
LEMMA FoldHasStates ==
  ASSUME NEW kind, NEW s, NEW S, NEW str \in Seq(S)
  PROVE  \E at : /\ at[0] = s /\ Follows(kind, at, str, Len(str))
                 /\ Folded(kind, s, str) = at[Len(str)]
<1> DEFINE j == Len(str)
           iter == CHOOSE g : g = [set \in SUBSET (1..j) |->
                                     FoldBody(kind, s, str, g, set)]
<1>1. j \in Nat /\ DOMAIN str = 1..j
  OBVIOUS
<1>2. Folded(kind, s, str) = iter[1..j]
  BY <1>1 DEF Folded, FoldLeft, MapThenFoldSet, FoldBody
<1>3. iter = [set \in SUBSET (1..j) |-> FoldBody(kind, s, str, iter, set)]
  BY <1>1, FoldExists
<1> DEFINE at == [i \in 0..j |-> iter[1..i]]
<1> HIDE DEF iter
<1>4. at[0] = s
  BY <1>3, <1>1 DEF FoldBody
<1>5. ASSUME NEW i \in 1..j PROVE at[i] = Step(kind, at[i - 1], str[i])
  <2>1. Max(1..i) = i
    BY <1>1, MaxIsLast
  <2>2. (1..i) \ {i} = 1..(i - 1)
    BY <1>1
  <2>3. (1..i) \in SUBSET (1..j) /\ (1..i) # {}
    <3>1. i \in 1..i /\ \A k \in 1..i : k \in 1..j
      BY <1>1
    <3>2. QED
      BY <3>1
  <2>4. iter[1..i] = Step(kind, iter[1..(i - 1)], str[i])
    BY <1>3, <2>1, <2>2, <2>3 DEF FoldBody
  <2>5. QED
    BY <2>4, <1>1
<1>6. at[j] = iter[1..j]
  BY <1>1
<1>7. Follows(kind, at, str, j)
  <2> HIDE DEF at
  <2>1. QED
    BY <1>5 DEF Follows
<1>8. QED
  BY <1>2, <1>4, <1>6, <1>7

LEMMA PutAllHasStates ==
  ASSUME NEW s, NEW S, NEW str \in Seq(S)
  PROVE  \E at : /\ at[0] = s /\ PutAll(s, str) = at[Len(str)]
                 /\ \A i \in 1..Len(str) : at[i] = Putc(at[i - 1], str[i])
<1>1. PutAll(s, str) = Folded("put", s, str)
  BY DEF PutAll, Folded, FoldLeft, MapThenFoldSet, Step
<1>2. PICK at : /\ at[0] = s /\ Follows("put", at, str, Len(str))
                /\ Folded("put", s, str) = at[Len(str)]
  BY FoldHasStates
<1>3. QED
  BY <1>1, <1>2 DEF Follows, Step

(***************************************************************************)
(* Part 3.  The cells of a screen.                                         *)
(***************************************************************************)
Usable(f) ==
  /\ f.base
  /\ f.width \in Nat /\ f.height \in Nat /\ f.stride \in Nat
  /\ f.width >= FONT_WIDTH /\ f.height >= FONT_HEIGHT
  /\ f.stride >= f.width

LEMMA FontFits ==
  FONT_WIDTH \in Nat \ {0} /\ FONT_HEIGHT \in Nat \ {0}
BY TerminalAssumption

LEMMA ModesAreUsable ==
  ASSUME NEW f \in Framebuffers
  PROVE  f.base \in BOOLEAN /\ (f.base => Usable(f))
<1>1. CASE f = NoFrame
  BY <1>1 DEF NoFrame
<1>2. ASSUME NEW fw \in Firmwares, f = gop_init(fw)
      PROVE  f.base \in BOOLEAN /\ (f.base => Usable(f))
  <2> DEFINE found == {i \in DOMAIN fw.modes : Preferred(fw.modes[i])}
             k == IF found # {} /\ fw.obeys THEN Min(found) ELSE fw.current
             m == fw.modes[k]
  <2>1. /\ fw.modes \in Seq([base: BOOLEAN, width: Nat, height: Nat,
                             stride: Nat, known: BOOLEAN, rgb: BOOLEAN])
        /\ fw.current \in DOMAIN fw.modes
        /\ \A n \in Range(fw.modes) :
             n.base => /\ n.width >= FONT_WIDTH /\ n.height >= FONT_HEIGHT
                       /\ n.stride >= n.width
    BY TerminalAssumption
  <2>2. k \in DOMAIN fw.modes
    <3>1. found \in SUBSET Nat
      BY <2>1
    <3>2. ASSUME found # {} PROVE Min(found) \in found
      <4> HIDE DEF found
      <4>1. \E n \in found : \A n2 \in found : n <= n2
        BY <3>1, <3>2, LeastNumber
      <4>2. QED
        BY <4>1 DEF Min
    <3>3. QED
      BY <2>1, <3>2
  <2>3. m \in Range(fw.modes)
    BY <2>2 DEF Range
  <2>4. m \in [base: BOOLEAN, width: Nat, height: Nat,
               stride: Nat, known: BOOLEAN, rgb: BOOLEAN]
    <3>1. \A S : \A s \in Seq(S) : \A n \in DOMAIN s : s[n] \in S
      OBVIOUS
    <3> HIDE DEF k
    <3>2. QED
      BY <2>1, <2>2, <3>1, Zenon
  <2>5. f = [base   |-> m.base,   width  |-> m.width,
             height |-> m.height, stride |-> m.stride]
    BY <1>2 DEF gop_init
  <2> HIDE DEF m
  <2>6. QED
    BY <2>1, <2>3, <2>4, <2>5 DEF Usable
<1>3. QED
  BY <1>1, <1>2 DEF Framebuffers

(* As many cells as fit the frame, and one at least.                       *)
LEMMA CellsFit ==
  ASSUME Usable(fb)
  PROVE  /\ cols \in Nat \ {0} /\ cols * FONT_WIDTH <= fb.width
         /\ rows \in Nat \ {0} /\ rows * FONT_HEIGHT <= fb.height
<1>1. /\ fb.base /\ fb.width \in Nat /\ fb.height \in Nat
      /\ fb.width >= FONT_WIDTH /\ fb.height >= FONT_HEIGHT
  BY DEF Usable
<1>2. cols = fb.width \div FONT_WIDTH /\ rows = fb.height \div FONT_HEIGHT
  BY <1>1 DEF cols, rows
<1>3. QED
  BY <1>1, <1>2, FontFits, Quotient

(* The pixel in a row and a column of a cell.                              *)
Pixel(x, y, row, col) ==
  (y * FONT_HEIGHT + row) * fb.stride + (x * FONT_WIDTH + col)

CellRows == 0..(FONT_HEIGHT - 1)
CellCols == 0..(FONT_WIDTH - 1)

LEMMA PixelOfCell ==
  ASSUME Usable(fb), NEW x \in Nat, NEW y \in Nat
  PROVE  /\ CellIndex(fb, x, y) \in Nat
         /\ \A row \in CellRows, col \in CellCols :
              CellIndex(fb, x, y) + row * fb.stride + col
                = Pixel(x, y, row, col)
         /\ \A i : i \in CellArea(fb, x, y) <=>
              \E row \in CellRows, col \in CellCols :
                i = Pixel(x, y, row, col)
<1>1. fb.stride \in Nat
  BY DEF Usable
<1>2. ASSUME NEW row \in CellRows, NEW col \in CellCols
      PROVE  CellIndex(fb, x, y) + row * fb.stride + col
               = Pixel(x, y, row, col)
  <2>1. (y * FONT_HEIGHT + row) * fb.stride
          = y * FONT_HEIGHT * fb.stride + row * fb.stride
    BY <1>1, FontFits DEF CellRows
  <2>2. /\ y * FONT_HEIGHT * fb.stride \in Nat
        /\ x * FONT_WIDTH \in Nat /\ row * fb.stride \in Nat
        /\ col \in Nat
    BY <1>1, FontFits, Times DEF CellRows, CellCols
  <2>3. QED
    BY <2>1, <2>2 DEF CellIndex, Pixel
<1>3. CellIndex(fb, x, y) \in Nat
  BY <1>1, FontFits, Times DEF CellIndex
<1>4. \A i : i \in CellArea(fb, x, y) <=>
        \E row \in CellRows, col \in CellCols :
          i = CellIndex(fb, x, y) + row * fb.stride + col
  BY DEF CellArea, CellRows, CellCols
<1>5. QED
  BY <1>2, <1>3, <1>4

(* Pixel columns stay within a row of the frame, and pixel rows within it. *)
LEMMA PixelFits ==
  ASSUME Usable(fb), NEW x \in 0..(cols - 1), NEW y \in 0..(rows - 1),
         NEW row \in CellRows, NEW col \in CellCols
  PROVE  /\ x * FONT_WIDTH + col \in 0..(fb.stride - 1)
         /\ y * FONT_HEIGHT + row \in 0..(fb.height - 1)
<1>1. /\ cols \in Nat /\ rows \in Nat /\ x \in Nat /\ y \in Nat
      /\ cols * FONT_WIDTH <= fb.width /\ rows * FONT_HEIGHT <= fb.height
      /\ fb.width \in Nat /\ fb.height \in Nat /\ fb.stride \in Nat
      /\ fb.stride >= fb.width
  BY CellsFit DEF Usable
<1>2. x * FONT_WIDTH + col < cols * FONT_WIDTH
  BY <1>1, FontFits, Below DEF CellCols
<1>3. y * FONT_HEIGHT + row < rows * FONT_HEIGHT
  BY <1>1, FontFits, Below DEF CellRows
<1>4. x * FONT_WIDTH \in Nat /\ y * FONT_HEIGHT \in Nat
  BY <1>1, FontFits, Times
<1>5. x * FONT_WIDTH + col \in Nat /\ y * FONT_HEIGHT + row \in Nat
  BY <1>4 DEF CellRows, CellCols
<1>6. cols * FONT_WIDTH \in Nat /\ rows * FONT_HEIGHT \in Nat
  BY <1>1, FontFits, Times
<1>7. QED
  BY <1>1, <1>2, <1>3, <1>5, <1>6

LEMMA CellInFrame ==
  ASSUME Usable(fb), NEW x \in 0..(cols - 1), NEW y \in 0..(rows - 1)
  PROVE  CellArea(fb, x, y) \subseteq Frame(fb)
<1> SUFFICES ASSUME NEW row \in CellRows, NEW col \in CellCols
             PROVE  Pixel(x, y, row, col) \in Frame(fb)
  <2>1. x \in Nat /\ y \in Nat
    BY CellsFit
  <2>2. QED
    BY <2>1, PixelOfCell
<1> DEFINE X == x * FONT_WIDTH + col
           Y == y * FONT_HEIGHT + row
<1>1. X \in 0..(fb.stride - 1) /\ Y \in 0..(fb.height - 1)
  BY PixelFits
<1>2. fb.stride \in Nat /\ fb.height \in Nat
  BY DEF Usable
<1>3. Pixel(x, y, row, col) = Y * fb.stride + X
  BY DEF Pixel
<1> HIDE DEF X, Y
<1>4. Y * fb.stride + X < fb.height * fb.stride
  BY <1>1, <1>2, Below
<1>5. Y * fb.stride \in Nat /\ fb.height * fb.stride \in Nat
  BY <1>1, <1>2, Times
<1>6. fb.height * fb.stride = fb.stride * fb.height
  BY <1>2
<1>7. Y * fb.stride + X \in 0..(fb.stride * fb.height - 1)
  BY <1>1, <1>2, <1>4, <1>5, <1>6
<1>8. QED
  BY <1>3, <1>7 DEF Frame, Usable

LEMMA CellsAreDisjoint ==
  ASSUME Usable(fb), NEW x \in 0..(cols - 1), NEW y \in 0..(rows - 1),
         NEW x2 \in 0..(cols - 1), NEW y2 \in 0..(rows - 1),
         NEW i \in CellArea(fb, x, y), i \in CellArea(fb, x2, y2)
  PROVE  x = x2 /\ y = y2
<1>1. x \in Nat /\ y \in Nat /\ x2 \in Nat /\ y2 \in Nat
  BY CellsFit
<1>2. PICK row \in CellRows, col \in CellCols : i = Pixel(x, y, row, col)
  BY <1>1, PixelOfCell
<1>3. PICK row2 \in CellRows, col2 \in CellCols :
        i = Pixel(x2, y2, row2, col2)
  BY <1>1, PixelOfCell
<1> DEFINE X == x * FONT_WIDTH + col
           Y == y * FONT_HEIGHT + row
           X2 == x2 * FONT_WIDTH + col2
           Y2 == y2 * FONT_HEIGHT + row2
<1>4. /\ X \in 0..(fb.stride - 1) /\ Y \in 0..(fb.height - 1)
      /\ X2 \in 0..(fb.stride - 1) /\ Y2 \in 0..(fb.height - 1)
  BY PixelFits
<1>5. Y * fb.stride + X = Y2 * fb.stride + X2
  BY <1>2, <1>3 DEF Pixel
<1>6. X = X2 /\ Y = Y2
  <2> HIDE DEF X, Y, X2, Y2
  <2>1. fb.stride \in Nat \ {0} /\ Y \in Nat /\ Y2 \in Nat
    BY <1>4, FontFits DEF Usable
  <2>2. QED
    BY <1>4, <1>5, <2>1, Decode
<1>7. x = x2
  BY <1>1, <1>6, FontFits, Decode DEF CellCols
<1>8. y = y2
  BY <1>1, <1>6, FontFits, Decode DEF CellRows
<1>9. QED
  BY <1>7, <1>8

(* A line of text has LineSize pixels.                                     *)
LineSize == FONT_HEIGHT * fb.stride

LEMMA CellAbove ==
  ASSUME Usable(fb), NEW x \in Nat, NEW y \in Nat, NEW i \in Int
  PROVE  /\ CellIndex(fb, x, y + 1) = CellIndex(fb, x, y) + LineSize
         /\ i + LineSize \in CellArea(fb, x, y + 1)
              <=> i \in CellArea(fb, x, y)
<1>1. fb.stride \in Nat /\ LineSize \in Nat
  BY FontFits, Times DEF Usable, LineSize
<1>2. CellIndex(fb, x, y + 1) = CellIndex(fb, x, y) + LineSize
  <2>1. (y + 1) * FONT_HEIGHT * fb.stride
          = y * FONT_HEIGHT * fb.stride + FONT_HEIGHT * fb.stride
    BY <1>1, FontFits
  <2>2. /\ y * FONT_HEIGHT * fb.stride \in Nat
        /\ FONT_HEIGHT * fb.stride \in Nat /\ x * FONT_WIDTH \in Nat
    BY <1>1, FontFits, Times
  <2>3. QED
    BY <2>1, <2>2 DEF CellIndex, LineSize
<1>3. CellIndex(fb, x, y) \in Nat /\ y + 1 \in Nat
  BY PixelOfCell
<1> DEFINE a == CellIndex(fb, x, y)
           b == CellIndex(fb, x, y + 1)
<1>4. ASSUME NEW row \in CellRows, NEW col \in CellCols
      PROVE  i = a + row * fb.stride + col
               <=> i + LineSize = b + row * fb.stride + col
  <2>1. row * fb.stride \in Nat /\ col \in Nat
    BY <1>1, FontFits, Times DEF CellRows, CellCols
  <2> HIDE DEF a, b
  <2>2. b = a + LineSize /\ a \in Nat
    BY <1>2, <1>3 DEF a, b
  <2>3. QED
    BY <1>1, <2>1, <2>2
<1>5. /\ \A k : k \in CellArea(fb, x, y) <=>
           \E row \in CellRows, col \in CellCols :
             k = a + row * fb.stride + col
      /\ \A k : k \in CellArea(fb, x, y + 1) <=>
           \E row \in CellRows, col \in CellCols :
             k = b + row * fb.stride + col
  BY DEF CellArea, CellRows, CellCols
<1>6. QED
  <2> HIDE DEF a, b
  <2>1. QED
    BY <1>2, <1>4, <1>5

(* The first line of cells is within the first LineSize pixels.            *)
LEMMA TopLine ==
  ASSUME Usable(fb), NEW x \in 0..(cols - 1), NEW i \in CellArea(fb, x, 0)
  PROVE  i < LineSize
<1>1. x \in Nat /\ 0 \in 0..(rows - 1)
  BY CellsFit
<1>2. PICK row \in CellRows, col \in CellCols : i = Pixel(x, 0, row, col)
  BY <1>1, PixelOfCell
<1> DEFINE X == x * FONT_WIDTH + col
<1>3. X \in 0..(fb.stride - 1)
  BY <1>1, PixelFits
<1>4. i = row * fb.stride + X
  <2>1. 0 * FONT_HEIGHT + row = row
    BY FontFits DEF CellRows
  <2>2. QED
    BY <1>2, <2>1 DEF Pixel
<1> HIDE DEF X
<1>5. row * fb.stride + X < FONT_HEIGHT * fb.stride
  BY <1>3, FontFits, Below DEF CellRows, Usable
<1>6. QED
  BY <1>4, <1>5 DEF LineSize

(***************************************************************************)
(* Part 4.  What one character does to a screen.                           *)
(***************************************************************************)
Screens(P) ==
  [px: [Frame(fb) -> P], wild: BOOLEAN, x: Int, y: Int]
IsScreen(s) == \E P : s \in Screens(P)

LEMMA PaintedIs ==
  ASSUME NEW s, IsScreen(s), NEW paint
  PROVE  /\ IsScreen(Painted(s, paint))
         /\ Painted(s, paint).x = s.x /\ Painted(s, paint).y = s.y
         /\ DOMAIN paint \subseteq Frame(fb) =>
              (Painted(s, paint).wild <=> s.wild)
         /\ \A i \in Frame(fb) :
              Painted(s, paint).px[i]
                = IF i \in DOMAIN paint THEN paint[i] ELSE s.px[i]
<1>1. PICK P : s \in Screens(P)
  BY DEF IsScreen
<1> DEFINE Q == P \cup {paint[i] : i \in DOMAIN paint}
           new == [i \in Frame(fb) |->
                    IF i \in DOMAIN paint THEN paint[i] ELSE s.px[i]]
           bad == ~(DOMAIN paint \subseteq Frame(fb))
           t == [s EXCEPT !.px = new, !.wild = @ \/ bad]
<1>2. s.px \in [Frame(fb) -> P]
  BY <1>1 DEF Screens
<1>3. Painted(s, paint) = t
  BY <1>1, <1>2 DEF Painted, Screens
<1>4. new \in [Frame(fb) -> Q]
  BY <1>2
<1>5. \A i \in Frame(fb) :
        new[i] = IF i \in DOMAIN paint THEN paint[i] ELSE s.px[i]
  OBVIOUS
<1>6. bad \in BOOLEAN /\ (DOMAIN paint \subseteq Frame(fb) => bad = FALSE)
  OBVIOUS
<1> HIDE DEF new, bad, Q
<1>7. /\ t \in Screens(Q)
      /\ t.px = new /\ t.wild = (s.wild \/ bad) /\ t.x = s.x /\ t.y = s.y
  BY <1>1, <1>4, <1>6 DEF Screens
<1> HIDE DEF t
<1>8. QED
  BY <1>3, <1>5, <1>6, <1>7 DEF IsScreen

LEMMA DrawnIs ==
  ASSUME Usable(fb), NEW s, IsScreen(s), OnScreen(s), NEW c
  PROVE  /\ IsScreen(Drawn(s, c))
         /\ Drawn(s, c).x = s.x /\ Drawn(s, c).y = s.y
         /\ Drawn(s, c).wild <=> s.wild
         /\ \A i \in Frame(fb) :
              Drawn(s, c).px[i] = IF i \in CellArea(fb, s.x, s.y)
                                  THEN Glyph(fb, s.x, s.y, c)[i] ELSE s.px[i]
<1> DEFINE g == Glyph(fb, s.x, s.y, c)
<1>1. DOMAIN g = CellArea(fb, s.x, s.y)
  BY DEF Glyph
<1>2. DOMAIN g \subseteq Frame(fb)
  BY <1>1, CellInFrame DEF OnScreen
<1>3. Drawn(s, c) = Painted(s, g)
  BY DEF Drawn, Usable
<1> HIDE DEF g
<1>4. QED
  BY <1>1, <1>2, <1>3, PaintedIs DEF g

LEMMA ScrollIs ==
  ASSUME Usable(fb), NEW s, IsScreen(s)
  PROVE  /\ IsScreen(gfxterm_scroll(s))
         /\ gfxterm_scroll(s).x = s.x /\ gfxterm_scroll(s).y = s.y
         /\ gfxterm_scroll(s).wild <=> s.wild
         /\ \A i \in Frame(fb) :
              gfxterm_scroll(s).px[i] = IF i + LineSize \in Frame(fb)
                                        THEN s.px[i + LineSize] ELSE Black
<1> DEFINE all == fb.stride * fb.height
           p == [i \in 0..(Moved - 1) |-> s.px[i + LineSize]]
           q == [i \in Moved..(all - 1) |-> Black]
<1>1. /\ all \in Nat /\ Moved \in Nat /\ LineSize \in Nat
      /\ Moved + LineSize = all
  <2>1. /\ fb.stride \in Nat /\ fb.height \in Nat
        /\ fb.height - FONT_HEIGHT \in Nat /\ FONT_HEIGHT \in Nat
    BY FontFits DEF Usable
  <2>2. all \in Nat /\ Moved \in Nat /\ LineSize \in Nat
    BY <2>1, Times DEF Moved, LineSize
  <2>3. fb.stride * (fb.height - FONT_HEIGHT)
          = fb.stride * fb.height - FONT_HEIGHT * fb.stride
    BY <2>1
  <2>4. QED
    BY <2>2, <2>3 DEF Moved, LineSize
<1>2. Frame(fb) = 0..(all - 1)
  BY DEF Frame, Usable
<1>3. gfxterm_scroll(s) = Painted(Painted(s, p), q)
  BY DEF gfxterm_scroll, Moved, LineSize, Usable
<1> HIDE DEF all
<1>4. DOMAIN p \subseteq Frame(fb) /\ DOMAIN q \subseteq Frame(fb)
  BY <1>1, <1>2
<1>5. /\ \A i : i \in DOMAIN p <=> i \in 0..(Moved - 1)
      /\ \A i : i \in DOMAIN q <=> i \in Moved..(all - 1)
      /\ \A i \in 0..(Moved - 1) : p[i] = s.px[i + LineSize]
      /\ \A i \in Moved..(all - 1) : q[i] = Black
  OBVIOUS
<1> HIDE DEF p, q
<1> DEFINE r == Painted(s, p)
<1>6. /\ IsScreen(r) /\ r.x = s.x /\ r.y = s.y /\ (r.wild <=> s.wild)
      /\ \A i \in Frame(fb) :
           r.px[i] = IF i \in DOMAIN p THEN p[i] ELSE s.px[i]
  BY <1>4, PaintedIs
<1> HIDE DEF r
<1> DEFINE t == Painted(r, q)
<1>7. /\ IsScreen(t) /\ t.x = r.x /\ t.y = r.y /\ (t.wild <=> r.wild)
      /\ \A i \in Frame(fb) :
           t.px[i] = IF i \in DOMAIN q THEN q[i] ELSE r.px[i]
  BY <1>4, <1>6, PaintedIs
<1> HIDE DEF t
<1>8. gfxterm_scroll(s) = t
  BY <1>3 DEF t, r
<1>9. \A i \in Frame(fb) : t.px[i] = IF i + LineSize \in Frame(fb)
                                     THEN s.px[i + LineSize] ELSE Black
  <2> SUFFICES ASSUME NEW i \in Frame(fb)
               PROVE  t.px[i] = IF i + LineSize \in Frame(fb)
                                THEN s.px[i + LineSize] ELSE Black
    OBVIOUS
  <2>1. CASE i < Moved
    <3>1. i \in 0..(Moved - 1) /\ i + LineSize \in Frame(fb)
      BY <1>1, <1>2, <2>1
    <3>2. i \notin Moved..(all - 1)
      BY <1>1, <1>2, <2>1
    <3>3. QED
      BY <1>5, <1>6, <1>7, <3>1, <3>2
  <2>2. CASE ~(i < Moved)
    <3>1. i \in Moved..(all - 1) /\ i + LineSize \notin Frame(fb)
      BY <1>1, <1>2, <2>2
    <3>2. QED
      BY <1>5, <1>7, <3>1
  <2>3. QED
    BY <2>1, <2>2
<1>10. QED
  BY <1>6, <1>7, <1>8, <1>9

At(s, x, y) == [s EXCEPT !.x = x, !.y = y]
AtYX(s, x, y) == [s EXCEPT !.y = y, !.x = x]
AtX(s, x) == [s EXCEPT !.x = x]
AtY(s, y) == [s EXCEPT !.y = y]

LEMMA CursorIsNumber ==
  ASSUME NEW s, IsScreen(s)
  PROVE  s.x \in Int /\ s.y \in Int
BY DEF IsScreen, Screens

LEMMA AtIs ==
  ASSUME NEW s, IsScreen(s), NEW x \in Int, NEW y \in Int
  PROVE  /\ IsScreen(At(s, x, y))
         /\ At(s, x, y).x = x /\ At(s, x, y).y = y
         /\ At(s, x, y).wild = s.wild /\ At(s, x, y).px = s.px
<1>1. PICK P : s \in Screens(P)
  BY DEF IsScreen
<1> DEFINE t == [s EXCEPT !.x = x, !.y = y]
<1>2. /\ t \in Screens(P)
      /\ t.x = x /\ t.y = y /\ t.wild = s.wild /\ t.px = s.px
  BY <1>1 DEF Screens
<1>3. At(s, x, y) = t
  BY DEF At
<1> HIDE DEF t
<1>4. QED
  BY <1>2, <1>3 DEF IsScreen

LEMMA AtForms ==
  ASSUME NEW s, IsScreen(s), NEW x \in Int, NEW y \in Int
  PROVE  /\ AtX(s, x) = At(s, x, s.y) /\ AtY(s, y) = At(s, s.x, y)
         /\ AtYX(s, x, y) = At(s, x, y) /\ At(s, s.x, s.y) = s
<1>1. PICK P : s \in Screens(P)
  BY DEF IsScreen
<1>2. QED
  BY <1>1 DEF Screens, At, AtX, AtY, AtYX

LEMMA AtTwice ==
  ASSUME NEW s, IsScreen(s), NEW x \in Int, NEW y \in Int,
         NEW x2 \in Int, NEW y2 \in Int
  PROVE  At(At(s, x, y), x2, y2) = At(s, x2, y2)
<1>1. PICK P : s \in Screens(P)
  BY DEF IsScreen
<1>2. QED
  BY <1>1 DEF Screens, At

(* The screen once a character has left its ink, and where it takes the    *)
(* cursor: before and after the end of a row is met.                       *)
Inked(s, c) ==
  IF c = Backspace /\ s.x > 0 THEN Drawn(At(s, s.x - 1, s.y), Blank)
  ELSE IF c \in Controls THEN s
  ELSE Drawn(s, c)

RawX(s, c) ==
  IF c \in {Newline, Return} THEN 0
  ELSE IF c = Backspace THEN IF s.x > 0 THEN s.x - 1 ELSE s.x
  ELSE IF c = Tab THEN ((s.x \div 8) + 1) * 8
  ELSE s.x + 1
RawY(s, c) == IF c = Newline THEN s.y + 1 ELSE s.y

NextX(s, c) == IF RawX(s, c) >= cols THEN 0 ELSE RawX(s, c)
NextY(s, c) == IF RawX(s, c) >= cols THEN RawY(s, c) + 1 ELSE RawY(s, c)

LEMMA DrawnIsScreen ==
  ASSUME NEW s, IsScreen(s), NEW c
  PROVE  /\ IsScreen(Drawn(s, c))
         /\ Drawn(s, c).x = s.x /\ Drawn(s, c).y = s.y
BY PaintedIs DEF Drawn

LEMMA InkedIsScreen ==
  ASSUME NEW s, IsScreen(s), NEW c
  PROVE  IsScreen(Inked(s, c))
<1>1. IsScreen(At(s, s.x - 1, s.y))
  BY AtIs, CursorIsNumber
<1>2. QED
  BY <1>1, DrawnIsScreen DEF Inked

LEMMA PutCases ==
  ASSUME NEW s, NEW c
  PROVE  Put(s, c) =
           IF c = Newline THEN AtYX(s, 0, s.y + 1)
           ELSE IF c = Return THEN AtX(s, 0)
           ELSE IF c = Backspace
                THEN IF s.x > 0 THEN Drawn(AtX(s, s.x - 1), Blank)
                     ELSE s
           ELSE IF c = Tab THEN AtX(s, ((s.x \div 8) + 1) * 8)
           ELSE AtX(Drawn(s, c), Drawn(s, c).x + 1)
BY DEF Put, Newline, Return, Backspace, Tab, AtX, AtYX

LEMMA ControlsDiffer ==
  /\ Newline # Return /\ Newline # Backspace /\ Newline # Tab
  /\ Return # Backspace /\ Return # Tab /\ Backspace # Tab
BY DEF Newline, Return, Backspace, Tab

LEMMA PutIs ==
  ASSUME NEW s, IsScreen(s), s.x >= 0, NEW c
  PROVE  /\ Put(s, c) = At(Inked(s, c), RawX(s, c), RawY(s, c))
         /\ RawX(s, c) \in Nat /\ RawY(s, c) \in Int
<1>0. s.x \in Nat /\ s.y \in Int
  BY CursorIsNumber
<1>1. CASE c = Newline
  <2>1. Put(s, c) = AtYX(s, 0, s.y + 1)
    BY <1>1, PutCases
  <2>2. /\ Inked(s, c) = s /\ RawX(s, c) = 0 /\ RawY(s, c) = s.y + 1
    BY <1>1, ControlsDiffer DEF Inked, RawX, RawY, Controls
  <2>3. 0 \in Int /\ s.y + 1 \in Int
    BY <1>0
  <2>4. AtYX(s, 0, s.y + 1) = At(s, 0, s.y + 1)
    BY <2>3, AtForms
  <2>5. QED
    BY <2>1, <2>2, <2>3, <2>4
<1>2. CASE c = Return
  <2>1. Put(s, c) = AtX(s, 0)
    BY <1>2, PutCases, ControlsDiffer
  <2>2. Inked(s, c) = s /\ RawX(s, c) = 0 /\ RawY(s, c) = s.y
    BY <1>2, ControlsDiffer DEF Inked, RawX, RawY, Controls
  <2>3. AtX(s, 0) = At(s, 0, s.y)
    BY <1>0, AtForms
  <2>4. QED
    BY <1>0, <2>1, <2>2, <2>3
<1>3. CASE c = Backspace
  <2>1. CASE s.x > 0
    <3>1. s.x - 1 \in Nat
      BY <1>0, <2>1
    <3>2. Put(s, c) = Drawn(AtX(s, s.x - 1), Blank)
      BY <1>3, <2>1, PutCases, ControlsDiffer
    <3>3. /\ Inked(s, c) = Drawn(At(s, s.x - 1, s.y), Blank)
          /\ RawX(s, c) = s.x - 1 /\ RawY(s, c) = s.y
      BY <1>3, <2>1, ControlsDiffer DEF Inked, RawX, RawY
    <3>4. AtX(s, s.x - 1) = At(s, s.x - 1, s.y)
      BY <1>0, <3>1, AtForms
    <3>5. /\ IsScreen(At(s, s.x - 1, s.y))
          /\ At(s, s.x - 1, s.y).x = s.x - 1 /\ At(s, s.x - 1, s.y).y = s.y
      BY <1>0, <3>1, AtIs
    <3>6. /\ IsScreen(Inked(s, c))
          /\ Inked(s, c).x = s.x - 1 /\ Inked(s, c).y = s.y
      BY <3>3, <3>5, DrawnIsScreen
    <3>7. At(Inked(s, c), s.x - 1, s.y) = Inked(s, c)
      BY <1>0, <3>1, <3>6, AtForms
    <3>8. QED
      BY <1>0, <3>1, <3>2, <3>3, <3>4, <3>7
  <2>2. CASE ~(s.x > 0)
    <3>1. Put(s, c) = s
      BY <1>3, <2>2, PutCases, ControlsDiffer
    <3>2. Inked(s, c) = s /\ RawX(s, c) = s.x /\ RawY(s, c) = s.y
      BY <1>3, <2>2, ControlsDiffer DEF Inked, RawX, RawY, Controls
    <3>3. At(s, s.x, s.y) = s
      BY <1>0, AtForms
    <3>4. QED
      BY <1>0, <3>1, <3>2, <3>3
  <2>3. QED
    BY <2>1, <2>2
<1>4. CASE c = Tab
  <2>1. Put(s, c) = AtX(s, ((s.x \div 8) + 1) * 8)
    BY <1>4, PutCases, ControlsDiffer
  <2>2. /\ Inked(s, c) = s /\ RawX(s, c) = ((s.x \div 8) + 1) * 8
        /\ RawY(s, c) = s.y
    BY <1>4, ControlsDiffer DEF Inked, RawX, RawY, Controls
  <2>3. ((s.x \div 8) + 1) * 8 \in Nat
    BY <1>0
  <2>4. AtX(s, ((s.x \div 8) + 1) * 8)
          = At(s, ((s.x \div 8) + 1) * 8, s.y)
    BY <1>0, <2>3, AtForms
  <2>5. QED
    BY <1>0, <2>1, <2>2, <2>3, <2>4
<1>5. CASE c \notin Controls
  <2> DEFINE d == Drawn(s, c)
  <2>1. Put(s, c) = AtX(d, d.x + 1)
    BY <1>5, PutCases DEF Controls
  <2>2. Inked(s, c) = d /\ RawX(s, c) = s.x + 1 /\ RawY(s, c) = s.y
    BY <1>5 DEF Inked, RawX, RawY, Controls
  <2>3. IsScreen(d) /\ d.x = s.x /\ d.y = s.y
    BY DrawnIsScreen
  <2> HIDE DEF d
  <2>4. AtX(d, d.x + 1) = At(d, d.x + 1, d.y)
    BY <1>0, <2>3, AtForms
  <2>5. QED
    BY <1>0, <2>1, <2>2, <2>3, <2>4
<1>6. QED
  BY <1>1, <1>2, <1>3, <1>4, <1>5 DEF Controls

LEMMA PutcForms ==
  ASSUME NEW s, IsScreen(s), s.x >= 0, NEW c, cols \in Nat, rows \in Nat
  PROVE  LET w == Inked(s, c)
             x == NextX(s, c)
             y == NextY(s, c)
         IN  /\ x \in Nat /\ y \in Int
             /\ y < rows => Putc(s, c) = At(w, x, y)
             /\ y >= rows =>
                  Putc(s, c) = AtY(gfxterm_scroll(At(w, x, y)), rows - 1)
<1> DEFINE w == Inked(s, c)
           x == NextX(s, c)
           y == NextY(s, c)
<1>1. /\ Put(s, c) = At(w, RawX(s, c), RawY(s, c))
      /\ RawX(s, c) \in Nat /\ RawY(s, c) \in Int
  BY PutIs
<1>2. IsScreen(w)
  BY InkedIsScreen
<1>3. x \in Nat /\ y \in Int
  BY <1>1 DEF NextX, NextY
<1>4. Wrapped(Put(s, c)) = At(w, x, y)
  <2> DEFINE p == At(w, RawX(s, c), RawY(s, c))
  <2>1. IsScreen(p) /\ p.x = RawX(s, c) /\ p.y = RawY(s, c)
    BY <1>1, <1>2, AtIs
  <2>2. CASE RawX(s, c) >= cols
    <3>1. Wrapped(p) = [p EXCEPT !.x = 0, !.y = p.y + 1]
      BY <2>1, <2>2 DEF Wrapped
    <3>2. [p EXCEPT !.x = 0, !.y = p.y + 1] = At(p, 0, p.y + 1)
      BY DEF At
    <3>3. At(p, 0, p.y + 1) = At(w, 0, RawY(s, c) + 1)
      BY <1>1, <1>2, <2>1, AtTwice
    <3>4. QED
      BY <1>1, <2>2, <3>1, <3>2, <3>3 DEF NextX, NextY
  <2>3. CASE ~(RawX(s, c) >= cols)
    BY <1>1, <2>1, <2>3 DEF Wrapped, NextX, NextY
  <2>4. QED
    BY <2>2, <2>3
<1>5. IsScreen(At(w, x, y)) /\ At(w, x, y).y = y
  BY <1>2, <1>3, AtIs
<1> HIDE DEF w, x, y
<1>6. Putc(s, c) = Scrolled(At(w, x, y))
  BY <1>4 DEF Putc
<1>7. /\ y < rows => Putc(s, c) = At(w, x, y)
      /\ y >= rows => Putc(s, c) = AtY(gfxterm_scroll(At(w, x, y)), rows - 1)
  BY <1>3, <1>5, <1>6 DEF Scrolled, AtY
<1>8. QED
  BY <1>3, <1>7 DEF w, x, y

LEMMA InkedIs ==
  ASSUME Usable(fb), NEW s, IsScreen(s), OnScreen(s), NEW c
  PROVE  /\ Inked(s, c).wild <=> s.wild
         /\ c = Backspace /\ s.x > 0 =>
              \A i \in Frame(fb) :
                Inked(s, c).px[i] = IF i \in CellArea(fb, s.x - 1, s.y)
                                    THEN Black ELSE s.px[i]
         /\ c \notin Controls =>
              \A i \in Frame(fb) :
                Inked(s, c).px[i] = IF i \in CellArea(fb, s.x, s.y)
                                    THEN Glyph(fb, s.x, s.y, c)[i]
                                    ELSE s.px[i]
         /\ c \in Controls /\ ~(c = Backspace /\ s.x > 0) =>
              Inked(s, c).px = s.px
<1>1. CASE c = Backspace /\ s.x > 0
  <2> DEFINE x == s.x - 1
             t == At(s, x, s.y)
  <2>1. x \in 0..(cols - 1) /\ x \in Int /\ s.y \in Int
    BY <1>1, CellsFit DEF OnScreen
  <2>2. IsScreen(t) /\ t.x = x /\ t.y = s.y /\ t.wild = s.wild /\ t.px = s.px
    BY <2>1, AtIs
  <2>3. OnScreen(t)
    BY <2>1, <2>2 DEF OnScreen
  <2>4. Inked(s, c) = Drawn(t, Blank)
    BY <1>1 DEF Inked
  <2> HIDE DEF t
  <2>5. /\ Drawn(t, Blank).wild <=> t.wild
        /\ \A i \in Frame(fb) :
             Drawn(t, Blank).px[i] = IF i \in CellArea(fb, x, s.y)
                                     THEN Glyph(fb, x, s.y, Blank)[i]
                                     ELSE s.px[i]
    BY <2>2, <2>3, DrawnIs
  <2>6. \A i \in CellArea(fb, x, s.y) : Glyph(fb, x, s.y, Blank)[i] = Black
    BY DEF Glyph, GlyphPixel
  <2>7. c \in Controls
    BY <1>1 DEF Controls
  <2>8. QED
    BY <1>1, <2>2, <2>4, <2>5, <2>6, <2>7
<1>2. CASE c \notin Controls
  <2>1. Inked(s, c) = Drawn(s, c) /\ c # Backspace
    BY <1>2 DEF Inked, Controls
  <2>2. QED
    BY <1>2, <2>1, DrawnIs
<1>3. CASE c \in Controls /\ ~(c = Backspace /\ s.x > 0)
  BY <1>3 DEF Inked
<1>4. QED
  BY <1>1, <1>2, <1>3

(* A character leaves the cursor on the screen; when it takes it below the *)
(* last row, the page moves up by a line.                                  *)
LEMMA PutcIs ==
  ASSUME Usable(fb), NEW s, IsScreen(s), OnScreen(s), NEW c
  PROVE  LET w == Inked(s, c)
             q == Putc(s, c)
             x == NextX(s, c)
             y == NextY(s, c)
         IN  /\ IsScreen(q) /\ OnScreen(q) /\ (q.wild <=> s.wild)
             /\ x \in 0..(cols - 1) /\ y \in s.y..rows
             /\ \/ /\ y < rows /\ q.x = x /\ q.y = y
                   /\ q.px = w.px
                \/ /\ y = rows /\ q.x = 0 /\ x = 0 /\ q.y = rows - 1
                   /\ \A i \in Frame(fb) :
                        q.px[i] = IF i + LineSize \in Frame(fb)
                                  THEN w.px[i + LineSize] ELSE Black
<1> DEFINE w == Inked(s, c)
           x == NextX(s, c)
           y == NextY(s, c)
           t == At(w, x, y)
<1>1. /\ cols \in Nat \ {0} /\ rows \in Nat \ {0}
      /\ s.x \in 0..(cols - 1) /\ s.y \in 0..(rows - 1)
  BY CellsFit DEF OnScreen
<1>2. /\ IsScreen(w) /\ (w.wild <=> s.wild)
  BY InkedIs, InkedIsScreen
<1>3. RawX(s, c) \in Nat
  BY <1>1, PutIs
<1>4. x \in 0..(cols - 1) /\ y \in s.y..rows /\ (y = rows => x = 0)
  BY <1>1, <1>3 DEF NextX, NextY, RawX, RawY
<1>5. /\ y < rows => Putc(s, c) = t
      /\ y >= rows => Putc(s, c) = AtY(gfxterm_scroll(t), rows - 1)
  BY <1>1, PutcForms
<1>6. IsScreen(t) /\ t.x = x /\ t.y = y /\ t.wild = w.wild /\ t.px = w.px
  <2>1. x \in Int /\ y \in Int
    BY <1>1, <1>4
  <2> HIDE DEF w, x, y
  <2>2. QED
    BY <1>2, <2>1, AtIs
<1> HIDE DEF w, x, y, t
<1>7. CASE y < rows
  <2>1. OnScreen(t)
    BY <1>1, <1>4, <1>6, <1>7 DEF OnScreen
  <2>2. QED
    BY <1>1, <1>2, <1>4, <1>5, <1>6, <1>7, <2>1 DEF w, x, y
<1>8. CASE y >= rows
  <2> DEFINE u == gfxterm_scroll(t)
             q == AtY(u, rows - 1)
  <2>1. y = rows /\ x = 0
    BY <1>1, <1>4, <1>8
  <2>2. /\ IsScreen(u) /\ u.x = t.x /\ u.y = t.y /\ (u.wild <=> t.wild)
        /\ \A i \in Frame(fb) :
             u.px[i] = IF i + LineSize \in Frame(fb)
                       THEN t.px[i + LineSize] ELSE Black
    BY <1>6, ScrollIs
  <2> HIDE DEF u
  <2>3. q = At(u, 0, rows - 1)
    BY <1>1, <1>6, <2>1, <2>2, AtForms
  <2>4. /\ IsScreen(q) /\ q.x = 0 /\ q.y = rows - 1 /\ q.wild = u.wild
        /\ q.px = u.px
    BY <1>1, <2>2, <2>3, AtIs
  <2>5. Putc(s, c) = q
    BY <1>5, <1>8 DEF u
  <2>6. OnScreen(q)
    BY <1>1, <2>4 DEF OnScreen
  <2> HIDE DEF q
  <2>7. QED
    BY <1>2, <1>4, <1>6, <2>1, <2>2, <2>4, <2>5, <2>6 DEF w, x, y
<1>9. QED
  BY <1>1, <1>4, <1>7, <1>8

(* Without a screen the cursor only counts, in rows 0 and -1.              *)
Dark(s) == s.x = 0 /\ s.y \in {0, -1}

LEMMA PutcInTheDark ==
  ASSUME ~fb.base, NEW s, IsScreen(s), Dark(s), NEW c
  PROVE  LET q == Putc(s, c)
         IN  IsScreen(q) /\ Dark(q) /\ (q.wild <=> s.wild)
<1> DEFINE w == Inked(s, c)
           x == NextX(s, c)
           y == NextY(s, c)
           t == At(w, x, y)
<1>1. cols = 0 /\ rows = 0
  BY DEF cols, rows
<1>2. /\ IsScreen(w) /\ (w.wild <=> s.wild)
  <2>1. s.wild <=> At(s, s.x - 1, s.y).wild
    BY AtIs, CursorIsNumber
  <2>2. QED
    BY <2>1, InkedIsScreen DEF Inked, Drawn
<1>3. RawX(s, c) \in Nat
  BY PutIs DEF Dark
<1>4. x = 0 /\ y \in {0, 1, 2}
  BY <1>1, <1>3 DEF NextX, NextY, RawY, Dark
<1>5. Putc(s, c) = AtY(gfxterm_scroll(t), rows - 1)
  BY <1>1, <1>4, PutcForms DEF Dark
<1>6. IsScreen(t) /\ t.x = x /\ t.y = y /\ t.wild = w.wild
  <2>1. x \in Int /\ y \in Int
    BY <1>4
  <2> HIDE DEF w, x, y
  <2>2. QED
    BY <1>2, <2>1, AtIs
<1> HIDE DEF w, x, y, t
<1>7. gfxterm_scroll(t) = t
  BY DEF gfxterm_scroll
<1>8. AtY(t, -1) = At(t, 0, -1)
  BY <1>4, <1>6, AtForms
<1>9. /\ IsScreen(At(t, 0, -1)) /\ At(t, 0, -1).x = 0
      /\ At(t, 0, -1).y = -1 /\ At(t, 0, -1).wild = t.wild
  BY <1>6, AtIs
<1>10. Putc(s, c) = At(t, 0, -1)
  BY <1>1, <1>5, <1>7, <1>8
<1>11. QED
  BY <1>2, <1>6, <1>9, <1>10 DEF Dark

(***************************************************************************)
(* Part 5.  Where the screen is not black: in the first n cells.           *)
(***************************************************************************)
CursorOf(s) == s.y * cols + s.x

InkIn(s, n) ==
  \A i \in Frame(fb) : s.px[i] # Black =>
    \E x \in 0..(cols - 1), y \in 0..(rows - 1) :
      y * cols + x < n /\ i \in CellArea(fb, x, y)

RowInk(s) == InkIn(s, (s.y + 1) * cols)

LEMMA CursorFits ==
  ASSUME Usable(fb), NEW s, OnScreen(s)
  PROVE  /\ cols \in Nat \ {0} /\ rows \in Nat \ {0}
         /\ s.x \in 0..(cols - 1) /\ s.y \in 0..(rows - 1)
         /\ CursorOf(s) \in Nat /\ (s.y + 1) * cols \in Nat
         /\ CursorOf(s) < (s.y + 1) * cols /\ (s.y + 1) * cols <= rows * cols
         /\ rows * cols \in Nat
<1>1. /\ cols \in Nat \ {0} /\ rows \in Nat \ {0}
      /\ s.x \in 0..(cols - 1) /\ s.y \in 0..(rows - 1)
  BY CellsFit DEF OnScreen
<1>2. s.y * cols \in Nat /\ (s.y + 1) * cols = s.y * cols + cols
  BY <1>1, Times, TimesNext
<1>3. (s.y + 1) * cols <= rows * cols /\ rows * cols \in Nat
  BY <1>1, Times
<1>4. QED
  BY <1>1, <1>2, <1>3 DEF CursorOf

LEMMA OneCell ==
  ASSUME Usable(fb), NEW x \in 0..(cols - 1), NEW y \in 0..(rows - 1),
         NEW x2 \in 0..(cols - 1), NEW y2 \in 0..(rows - 1),
         y * cols + x = y2 * cols + x2
  PROVE  x = x2 /\ y = y2
<1>1. cols \in Nat \ {0} /\ y \in Nat /\ y2 \in Nat
  BY CellsFit
<1>2. QED
  BY <1>1, Decode

LEMMA InkGrows ==
  ASSUME Usable(fb), NEW s, NEW n \in Int, NEW m \in Int, n <= m, InkIn(s, n)
  PROVE  InkIn(s, m)
<1>1. \A x \in 0..(cols - 1), y \in 0..(rows - 1) : y * cols + x \in Int
  BY CellsFit, Times
<1>2. QED
  BY <1>1 DEF InkIn

LEMMA CursorInRow ==
  ASSUME Usable(fb), NEW s, OnScreen(s), InkIn(s, CursorOf(s))
  PROVE  RowInk(s)
<1>1. /\ CursorOf(s) \in Int /\ (s.y + 1) * cols \in Int
      /\ CursorOf(s) <= (s.y + 1) * cols
  BY CursorFits
<1>2. QED
  BY <1>1, InkGrows DEF RowInk

LEMMA FrameIs ==
  ASSUME Usable(fb), NEW i \in Frame(fb)
  PROVE  i \in Nat
<1>1. fb.stride * fb.height \in Nat
  BY Times DEF Usable
<1>2. QED
  BY <1>1 DEF Frame, Usable

LEMMA InkScrolls ==
  ASSUME Usable(fb), NEW w, NEW q, NEW n \in Int, InkIn(w, n),
         \A i \in Frame(fb) : q.px[i] = IF i + LineSize \in Frame(fb)
                                        THEN w.px[i + LineSize] ELSE Black
  PROVE  InkIn(q, n - cols)
<1> SUFFICES ASSUME NEW i \in Frame(fb), q.px[i] # Black
             PROVE  \E x \in 0..(cols - 1), y \in 0..(rows - 1) :
                      y * cols + x < n - cols /\ i \in CellArea(fb, x, y)
  BY DEF InkIn
<1>1. i \in Nat /\ LineSize \in Nat
  BY FrameIs, FontFits, Times DEF LineSize, Usable
<1>2. PICK x \in 0..(cols - 1), y \in 0..(rows - 1) :
        y * cols + x < n /\ i + LineSize \in CellArea(fb, x, y)
  BY DEF InkIn
<1>3. cols \in Nat /\ rows \in Nat /\ x \in Nat /\ y \in Nat
  BY CellsFit
<1>4. y # 0
  BY <1>1, <1>2, TopLine
<1> DEFINE z == y - 1
<1>5. z \in 0..(rows - 1) /\ z \in Nat /\ y = z + 1
  BY <1>3, <1>4
<1> HIDE DEF z
<1>6. i \in CellArea(fb, x, z)
  BY <1>1, <1>2, <1>3, <1>5, CellAbove
<1>7. z * cols + x < n - cols
  <2>1. (z + 1) * cols = z * cols + cols /\ z * cols \in Nat
    BY <1>3, <1>5, Times, TimesNext
  <2>2. QED
    BY <1>2, <1>3, <1>5, <2>1
<1>8. QED
  BY <1>5, <1>6, <1>7

LEMMA InkOfChar ==
  ASSUME Usable(fb), NEW s, IsScreen(s), OnScreen(s), NEW c,
         NEW n \in Int, InkIn(s, n), CursorOf(s) < n \/ c \in Controls
  PROVE  InkIn(Inked(s, c), n)
<1> SUFFICES ASSUME NEW i \in Frame(fb), Inked(s, c).px[i] # Black
             PROVE  \E x \in 0..(cols - 1), y \in 0..(rows - 1) :
                      y * cols + x < n /\ i \in CellArea(fb, x, y)
  BY DEF InkIn
<1>1. CASE s.px[i] # Black
  BY <1>1 DEF InkIn
<1>2. CASE s.px[i] = Black
  <2>1. c \notin Controls /\ i \in CellArea(fb, s.x, s.y)
    BY <1>2, InkedIs
  <2>2. QED
    BY <2>1 DEF CursorOf, OnScreen
<1>3. QED
  BY <1>1, <1>2

(* A command's output takes the cursor only down, as far as rows count.    *)
LEMMA InkInRows ==
  ASSUME Usable(fb), NEW s, IsScreen(s), OnScreen(s), NEW c,
         RowInk(s)
  PROVE  RowInk(Putc(s, c))
<1> DEFINE w == Inked(s, c)
           q == Putc(s, c)
           n == (s.y + 1) * cols
<1>1. /\ cols \in Nat /\ rows \in Nat /\ s.y \in Nat
      /\ n \in Nat /\ CursorOf(s) < n /\ n <= rows * cols
      /\ rows * cols \in Nat
  BY CursorFits
<1>2. InkIn(w, n)
  BY <1>1, InkOfChar DEF RowInk
<1>3. CASE q.y >= s.y /\ q.px = w.px /\ q.y \in Int
  <2>1. n <= (q.y + 1) * cols /\ (q.y + 1) * cols \in Int
    BY <1>1, <1>3, Times
  <2>2. InkIn(q, n)
    BY <1>2, <1>3 DEF InkIn
  <2> HIDE DEF q, n
  <2>3. RowInk(q)
    BY <1>1, <2>1, <2>2, InkGrows DEF RowInk
  <2>4. QED
    BY <2>3 DEF q
<1>4. CASE /\ q.y = rows - 1
           /\ \A i \in Frame(fb) :
                  q.px[i] = IF i + LineSize \in Frame(fb)
                            THEN w.px[i + LineSize] ELSE Black
  <2>0. n \in Int
    BY <1>1
  <2> HIDE DEF q, w, n
  <2>1. InkIn(q, n - cols)
    BY <1>2, <1>4, <2>0, InkScrolls
  <2>2. (q.y + 1) * cols = rows * cols
    BY <1>1, <1>4
  <2>3. RowInk(q)
    BY <1>1, <2>1, <2>2, InkGrows DEF RowInk
  <2>4. QED
    BY <2>3 DEF q
<1>5. QED
  BY <1>1, <1>3, <1>4, PutcIs

(* Printing and newline characters leave no ink behind the cursor.         *)
NextPos(s, c) == NextY(s, c) * cols + NextX(s, c)

LEMMA InkBeforeCursor ==
  ASSUME Usable(fb), NEW s, IsScreen(s), OnScreen(s), NEW c,
         NEW n \in Int, InkIn(Inked(s, c), n), n <= NextPos(s, c)
  PROVE  InkIn(Putc(s, c), CursorOf(Putc(s, c)))
<1> DEFINE w == Inked(s, c)
           q == Putc(s, c)
           x == NextX(s, c)
           y == NextY(s, c)
<1>1. /\ cols \in Nat /\ rows \in Nat /\ s.y \in Nat
      /\ x \in 0..(cols - 1) /\ y \in s.y..rows /\ OnScreen(q)
      /\ \/ y < rows /\ q.x = x /\ q.y = y /\ q.px = w.px
         \/ /\ y = rows /\ q.x = 0 /\ x = 0 /\ q.y = rows - 1
            /\ \A i \in Frame(fb) :
                   q.px[i] = IF i + LineSize \in Frame(fb)
                             THEN w.px[i + LineSize] ELSE Black
  BY PutcIs, CursorFits
<1>2. y * cols \in Nat /\ NextPos(s, c) = y * cols + x
  <2>1. y \in Nat
    BY <1>1
  <2> HIDE DEF y
  <2>2. y * cols \in Nat
    BY <1>1, <2>1, Times
  <2>3. QED
    BY <2>2 DEF NextPos, y
<1> HIDE DEF w, q, x, y
<1>3. InkIn(w, n) /\ n <= y * cols + x
  BY <1>2 DEF w
<1>4. CASE y < rows /\ q.x = x /\ q.y = y /\ q.px = w.px
  <2>1. InkIn(q, n) /\ CursorOf(q) = y * cols + x
    BY <1>3, <1>4 DEF InkIn, CursorOf
  <2>2. InkIn(q, CursorOf(q))
    BY <1>1, <1>2, <1>3, <2>1, InkGrows
  <2>3. QED
    BY <2>2 DEF q
<1>5. CASE /\ y = rows /\ q.x = 0 /\ x = 0 /\ q.y = rows - 1
           /\ \A i \in Frame(fb) :
                  q.px[i] = IF i + LineSize \in Frame(fb)
                            THEN w.px[i + LineSize] ELSE Black
  <2>1. InkIn(q, n - cols)
    BY <1>1, <1>3, <1>5, InkScrolls
  <2>2. (rows - 1) * cols = rows * cols - cols
    BY <1>1
  <2>3. n - cols <= CursorOf(q) /\ CursorOf(q) \in Int
    BY <1>1, <1>2, <1>3, <1>5, <2>2 DEF CursorOf
  <2>4. InkIn(q, CursorOf(q))
    BY <1>1, <2>1, <2>3, InkGrows
  <2>5. QED
    BY <2>4 DEF q
<1>6. QED
  BY <1>1, <1>4, <1>5

LEMMA NextPosIs ==
  ASSUME Usable(fb), NEW s, OnScreen(s), NEW c
  PROVE  /\ c = Newline => NextPos(s, c) = (s.y + 1) * cols
         /\ c \notin Controls => NextPos(s, c) = CursorOf(s) + 1
         /\ c = Backspace /\ s.x > 0 => NextPos(s, c) = CursorOf(s) - 1
         /\ c = Backspace /\ ~(s.x > 0) => NextPos(s, c) = CursorOf(s)
         /\ c = Backspace => NextY(s, c) < rows
<1>1. /\ cols \in Nat \ {0} /\ rows \in Nat \ {0}
      /\ s.x \in 0..(cols - 1) /\ s.y \in 0..(rows - 1)
  BY CursorFits
<1>2. s.y * cols \in Nat /\ (s.y + 1) * cols = s.y * cols + cols
  BY <1>1, Times, TimesNext
<1>3. CASE c = Newline
  <2>1. NextX(s, c) = 0 /\ NextY(s, c) = s.y + 1
    BY <1>1, <1>3 DEF NextX, NextY, RawX, RawY
  <2>2. QED
    BY <1>1, <1>2, <1>3, <2>1, ControlsDiffer DEF NextPos, Controls
<1>4. CASE c \notin Controls
  <2>1. RawX(s, c) = s.x + 1 /\ RawY(s, c) = s.y
    BY <1>4 DEF RawX, RawY, Controls
  <2>2. NextPos(s, c) = CursorOf(s) + 1
    BY <1>1, <1>2, <2>1 DEF NextPos, NextX, NextY, CursorOf
  <2>3. QED
    BY <1>4, <2>2 DEF Controls
<1>5. CASE c = Backspace
  <2>1. /\ RawX(s, c) = IF s.x > 0 THEN s.x - 1 ELSE s.x
        /\ RawY(s, c) = s.y
    BY <1>5, ControlsDiffer DEF RawX, RawY
  <2>2. /\ s.x > 0 => NextPos(s, c) = CursorOf(s) - 1
        /\ ~(s.x > 0) => NextPos(s, c) = CursorOf(s)
        /\ NextY(s, c) < rows
    BY <1>1, <1>2, <2>1 DEF NextPos, NextX, NextY, CursorOf
  <2>3. QED
    BY <1>5, <2>2, ControlsDiffer DEF Controls
<1>6. QED
  BY <1>3, <1>4, <1>5 DEF Controls

LEMMA NewlineInk ==
  ASSUME Usable(fb), NEW s, IsScreen(s), OnScreen(s),
         RowInk(s)
  PROVE  InkIn(Putc(s, Newline), CursorOf(Putc(s, Newline)))
<1> DEFINE n == (s.y + 1) * cols
<1>1. n \in Int /\ n <= NextPos(s, Newline)
  BY CursorFits, NextPosIs
<1>2. InkIn(Inked(s, Newline), n)
  BY <1>1, InkOfChar DEF Controls, RowInk
<1> HIDE DEF n
<1>3. QED
  BY <1>1, <1>2, InkBeforeCursor

LEMMA PrintInk ==
  ASSUME Usable(fb), NEW s, IsScreen(s), OnScreen(s),
         NEW c, c \notin Controls, InkIn(s, CursorOf(s))
  PROVE  InkIn(Putc(s, c), CursorOf(Putc(s, c)))
<1> DEFINE n == CursorOf(s) + 1
<1>1. n \in Int /\ CursorOf(s) \in Int /\ CursorOf(s) < n
      /\ n <= NextPos(s, c)
  BY CursorFits, NextPosIs
<1> HIDE DEF n
<1>2. InkIn(s, n)
  BY <1>1, InkGrows
<1>3. InkIn(Inked(s, c), n)
  BY <1>1, <1>2, InkOfChar
<1>4. QED
  BY <1>1, <1>3, InkBeforeCursor

LEMMA BackspaceInk ==
  ASSUME Usable(fb), NEW s, IsScreen(s), OnScreen(s), InkIn(s, CursorOf(s))
  PROVE  InkIn(Putc(s, Backspace), CursorOf(Putc(s, Backspace)))
<1> DEFINE w == Inked(s, Backspace)
           n == NextPos(s, Backspace)
<1>0. Backspace \in Controls
  BY DEF Controls
<1>1. CursorOf(s) \in Int /\ n \in Int
  BY CursorFits, NextPosIs
<1>2. InkIn(w, CursorOf(s))
  BY <1>0, <1>1, InkOfChar
<1>3. InkIn(w, n)
  <2>1. CASE s.x > 0
    <3>1. n = CursorOf(s) - 1
      BY <2>1, NextPosIs
    <3> HIDE DEF n
    <3>2. SUFFICES ASSUME NEW i \in Frame(fb), w.px[i] # Black,
                          NEW x \in 0..(cols - 1), NEW y \in 0..(rows - 1),
                          y * cols + x < CursorOf(s),
                          i \in CellArea(fb, x, y)
                   PROVE  y * cols + x < n
      BY <1>2 DEF InkIn
    <3>3. i \notin CellArea(fb, s.x - 1, s.y)
      BY <2>1, <3>2, InkedIs
    <3> DEFINE a == s.y * cols
               b == y * cols
               z == s.x - 1
    <3>4. /\ cols \in Nat \ {0} /\ s.y \in 0..(rows - 1)
          /\ y \in 0..(rows - 1) /\ a \in Nat /\ b \in Nat
          /\ z \in 0..(cols - 1) /\ x \in 0..(cols - 1) /\ s.x = z + 1
      BY <2>1, <3>2, CursorFits, Times
    <3> HIDE DEF z
    <3>5. CASE b + x = a + z
      <4>1. y = s.y /\ x = z
        BY <3>4, <3>5, OneCell
      <4>2. QED
        BY <3>2, <3>3, <4>1 DEF z
    <3>6. CASE b + x # a + z
      <4>1. n = a + z /\ b + x < a + z + 1
        BY <3>1, <3>2, <3>4 DEF CursorOf
      <4> HIDE DEF a, b
      <4>2. b + x < n
        BY <3>4, <3>6, <4>1
      <4>3. QED
        BY <4>2 DEF b
    <3>7. QED
      BY <3>5, <3>6
  <2>2. CASE ~(s.x > 0)
    BY <1>2, <2>2, NextPosIs
  <2>3. QED
    BY <2>1, <2>2
<1> HIDE DEF n, w
<1>4. n <= NextPos(s, Backspace) /\ InkIn(Inked(s, Backspace), n)
  BY <1>1, <1>3 DEF n, w
<1>5. QED
  BY <1>1, <1>4, InkBeforeCursor

(***************************************************************************)
(* Part 6.  What stands before position n: the characters of str, the last *)
(* one in the cell before n, as far back as the screen goes.               *)
(***************************************************************************)
CellShows(s, x, y, c) ==
  \A i \in CellArea(fb, x, y) : s.px[i] = Glyph(fb, x, y, c)[i]

TrailIn(s, n, str) ==
  \A i \in 1..Len(str), x \in 0..(cols - 1), y \in 0..(rows - 1) :
    y * cols + x = n - i => CellShows(s, x, y, str[Len(str) + 1 - i])

LEMMA GlyphAbove ==
  ASSUME Usable(fb), NEW x \in Nat, NEW y \in Nat, NEW c,
         NEW i \in CellArea(fb, x, y), i \in Nat
  PROVE  Glyph(fb, x, y + 1, c)[i + LineSize] = Glyph(fb, x, y, c)[i]
<1> DEFINE a == CellIndex(fb, x, y)
           b == CellIndex(fb, x, y + 1)
<1>1. /\ a \in Nat /\ b = a + LineSize
      /\ i + LineSize \in CellArea(fb, x, y + 1)
  BY CellAbove, PixelOfCell
<1>2. LineSize \in Nat
  BY FontFits, Times DEF LineSize, Usable
<1>3. (i + LineSize) - b = i - a
  <2> HIDE DEF a, b
  <2>1. QED
    BY <1>1, <1>2
<1>4. /\ Glyph(fb, x, y, c)[i]
           = GlyphPixel(c, (i - a) \div fb.stride, (i - a) % fb.stride)
      /\ Glyph(fb, x, y + 1, c)[i + LineSize]
           = GlyphPixel(c, ((i + LineSize) - b) \div fb.stride,
                           ((i + LineSize) - b) % fb.stride)
  BY <1>1 DEF Glyph
<1>5. QED
  BY <1>3, <1>4

LEMMA TrailScrolls ==
  ASSUME Usable(fb), NEW w, NEW q, NEW n \in Int, n <= rows * cols,
         NEW S, NEW str \in Seq(S), TrailIn(w, n, str),
         \A i \in Frame(fb) : q.px[i] = IF i + LineSize \in Frame(fb)
                                        THEN w.px[i + LineSize] ELSE Black
  PROVE  TrailIn(q, n - cols, str)
<1> SUFFICES ASSUME NEW i \in 1..Len(str),
                    NEW x \in 0..(cols - 1), NEW y \in 0..(rows - 1),
                    y * cols + x = (n - cols) - i,
                    NEW k \in CellArea(fb, x, y)
             PROVE  q.px[k] = Glyph(fb, x, y, str[Len(str) + 1 - i])[k]
  BY DEF TrailIn, CellShows
<1>1. cols \in Nat /\ rows \in Nat /\ x \in Nat /\ y \in Nat
  BY CellsFit
<1>2. (y + 1) * cols + x = n - i
  <2>1. (y + 1) * cols = y * cols + cols /\ y * cols \in Nat
    BY <1>1, Times, TimesNext
  <2>2. QED
    BY <1>1, <2>1
<1>3. y + 1 \in 0..(rows - 1)
  <2>1. y + 1 < rows <=> (y + 1) * cols + x < rows * cols
    BY <1>1, Below
  <2>2. (y + 1) * cols + x < rows * cols
    <3>1. rows * cols \in Nat
      BY <1>1, Times
    <3>2. QED
      BY <1>2, <3>1
  <2>3. QED
    BY <1>1, <2>1, <2>2
<1>4. CellShows(w, x, y + 1, str[Len(str) + 1 - i])
  BY <1>2, <1>3 DEF TrailIn
<1>5. k \in Frame(fb) /\ k \in Nat
  BY CellInFrame, FrameIs
<1>6. k + LineSize \in CellArea(fb, x, y + 1)
  BY <1>1, <1>5, CellAbove
<1>7. k + LineSize \in Frame(fb)
  BY <1>3, <1>6, CellInFrame
<1>8. q.px[k] = Glyph(fb, x, y + 1, str[Len(str) + 1 - i])[k + LineSize]
  BY <1>4, <1>5, <1>6, <1>7 DEF CellShows
<1>9. QED
  BY <1>1, <1>5, <1>8, GlyphAbove

LEMMA TrailAtCursor ==
  ASSUME Usable(fb), NEW s, IsScreen(s), OnScreen(s), NEW c,
         NEW S, NEW str \in Seq(S), TrailIn(Inked(s, c), NextPos(s, c), str)
  PROVE  TrailIn(Putc(s, c), CursorOf(Putc(s, c)), str)
<1> DEFINE w == Inked(s, c)
           q == Putc(s, c)
           x == NextX(s, c)
           y == NextY(s, c)
<1>1. /\ cols \in Nat /\ rows \in Nat /\ s.y \in Nat
      /\ x \in 0..(cols - 1) /\ y \in s.y..rows
      /\ \/ y < rows /\ q.x = x /\ q.y = y /\ q.px = w.px
         \/ /\ y = rows /\ q.x = 0 /\ x = 0 /\ q.y = rows - 1
            /\ \A i \in Frame(fb) :
                   q.px[i] = IF i + LineSize \in Frame(fb)
                             THEN w.px[i + LineSize] ELSE Black
  BY PutcIs, CursorFits
<1>2. NextPos(s, c) = y * cols + x
  BY DEF NextPos
<1>3. TrailIn(w, y * cols + x, str)
  BY <1>2
<1> HIDE DEF w, q, x, y
<1>4. CASE y < rows /\ q.x = x /\ q.y = y /\ q.px = w.px
  <2>1. TrailIn(q, CursorOf(q), str)
    BY <1>3, <1>4 DEF TrailIn, CellShows, CursorOf
  <2>2. QED
    BY <2>1 DEF q
<1>5. CASE /\ y = rows /\ q.x = 0 /\ x = 0 /\ q.y = rows - 1
           /\ \A i \in Frame(fb) :
                  q.px[i] = IF i + LineSize \in Frame(fb)
                            THEN w.px[i + LineSize] ELSE Black
  <2>1. rows * cols \in Nat /\ (rows - 1) * cols = rows * cols - cols
    BY <1>1, Times
  <2> DEFINE n == rows * cols
  <2>2. n \in Int /\ n <= rows * cols /\ TrailIn(w, n, str)
    BY <1>3, <1>5, <2>1
  <2> HIDE DEF n
  <2>3. TrailIn(q, n - cols, str)
    BY <1>5, <2>2, TrailScrolls
  <2>4. n - cols = CursorOf(q)
    BY <1>1, <1>5, <2>1 DEF CursorOf, n
  <2>5. TrailIn(q, CursorOf(q), str)
    BY <2>3, <2>4
  <2>6. QED
    BY <2>5 DEF q
<1>6. QED
  BY <1>1, <1>4, <1>5

LEMMA PrintTrail ==
  ASSUME Usable(fb), NEW s, IsScreen(s), OnScreen(s),
         NEW S, NEW c \in S, c \notin Controls,
         NEW str \in Seq(S), TrailIn(s, CursorOf(s), str)
  PROVE  TrailIn(Putc(s, c), CursorOf(Putc(s, c)), Append(str, c))
<1> DEFINE w == Inked(s, c)
           new == Append(str, c)
           n == CursorOf(s)
<1>1. /\ n \in Nat /\ s.x \in 0..(cols - 1) /\ s.y \in 0..(rows - 1)
      /\ NextPos(s, c) = n + 1
  BY CursorFits, NextPosIs
<1>2. \A i \in Frame(fb) :
        w.px[i] = IF i \in CellArea(fb, s.x, s.y)
                  THEN Glyph(fb, s.x, s.y, c)[i] ELSE s.px[i]
  BY InkedIs
<1>3. /\ new \in Seq(S) /\ Len(new) = Len(str) + 1 /\ Len(str) \in Nat
      /\ new[Len(str) + 1] = c
      /\ \A i \in 1..Len(str) : new[i] = str[i]
  OBVIOUS
<1> HIDE DEF w, new
<1>4. ASSUME NEW i \in 1..Len(new),
             NEW x \in 0..(cols - 1), NEW y \in 0..(rows - 1),
             y * cols + x = (n + 1) - i
      PROVE  CellShows(w, x, y, new[Len(new) + 1 - i])
  <2>1. CASE i = 1
    <3>1. y * cols + x = s.y * cols + s.x
      BY <1>1, <1>4, <2>1 DEF CursorOf
    <3>2. x = s.x /\ y = s.y
      BY <1>1, <3>1, OneCell
    <3>3. new[Len(new) + 1 - i] = c
      BY <1>3, <2>1
    <3>4. CellArea(fb, x, y) \subseteq Frame(fb)
      BY CellInFrame
    <3>5. QED
      BY <1>2, <3>2, <3>3, <3>4 DEF CellShows
  <2>2. CASE i # 1
    <3> DEFINE j == i - 1
    <3>1. j \in 1..Len(str) /\ y * cols + x = n - j /\ y * cols + x # n
      BY <1>1, <1>3, <1>4, <2>2
    <3>2. new[Len(new) + 1 - i] = str[Len(str) + 1 - j]
      BY <1>3, <3>1
    <3> HIDE DEF j
    <3>3. CellShows(s, x, y, str[Len(str) + 1 - j])
      BY <3>1 DEF TrailIn
    <3>4. ASSUME NEW k \in CellArea(fb, x, y) PROVE w.px[k] = s.px[k]
      <4>1. k \notin CellArea(fb, s.x, s.y)
        BY <1>1, <3>1, CellsAreDisjoint DEF CursorOf
      <4>2. k \in Frame(fb)
        BY CellInFrame
      <4>3. QED
        BY <1>2, <4>1, <4>2
    <3>5. QED
      BY <3>2, <3>3, <3>4 DEF CellShows
  <2>3. QED
    BY <2>1, <2>2
<1>5. TrailIn(w, n + 1, new)
  BY <1>4 DEF TrailIn
<1> HIDE DEF n
<1>6. TrailIn(Inked(s, c), NextPos(s, c), new)
  BY <1>1, <1>5 DEF w
<1>7. TrailIn(Putc(s, c), CursorOf(Putc(s, c)), new)
  BY <1>3, <1>6, TrailAtCursor
<1>8. QED
  BY <1>7 DEF new

LEMMA FrontIs ==
  ASSUME NEW S, NEW str \in Seq(S), str # <<>>
  PROVE  /\ Front(str) \in Seq(S)
         /\ Len(str) \in Nat \ {0} /\ Len(Front(str)) = Len(str) - 1
         /\ \A i \in 1..(Len(str) - 1) : Front(str)[i] = str[i]
<1> DEFINE k == Len(str) - 1
<1>1. Len(str) \in Nat \ {0} /\ k \in Nat /\ k < Len(str)
  OBVIOUS
<1>2. Front(str) = SubSeq(str, 1, k)
  BY DEF Front
<1>3. SubSeq(str, 1, k) \in Seq(S)
  BY <1>1
<1> HIDE DEF k
<1>4. /\ Len(SubSeq(str, 1, k)) = k
      /\ \A i \in 1..k : SubSeq(str, 1, k)[i] = str[i]
  BY <1>1
<1>5. QED
  BY <1>1, <1>2, <1>3, <1>4 DEF k

LEMMA FrontOfAppended ==
  ASSUME NEW S, NEW a \in Seq(S), NEW b \in Seq(S), b # <<>>
  PROVE  a \o b \in Seq(S) /\ a \o b # <<>> /\ Front(a \o b) = a \o Front(b)
<1> DEFINE c == a \o b
           d == a \o Front(b)
<1>1. /\ Front(b) \in Seq(S) /\ Len(b) \in Nat \ {0}
      /\ Len(Front(b)) = Len(b) - 1
      /\ \A i \in 1..(Len(b) - 1) : Front(b)[i] = b[i]
  BY FrontIs
<1>2. /\ c \in Seq(S) /\ Len(c) = Len(a) + Len(b) /\ Len(a) \in Nat
      /\ \A i \in 1..Len(c) : c[i] = IF i <= Len(a) THEN a[i]
                                     ELSE b[i - Len(a)]
  BY <1>1
<1>3. /\ d \in Seq(S) /\ Len(d) = Len(c) - 1
      /\ \A i \in 1..Len(d) : d[i] = IF i <= Len(a) THEN a[i]
                                     ELSE Front(b)[i - Len(a)]
  <2> DEFINE f == Front(b)
  <2> HIDE DEF f
  <2>1. f \in Seq(S) /\ Len(f) = Len(b) - 1
    BY <1>1 DEF f
  <2>2. a \o f \in Seq(S) /\ Len(a \o f) = Len(a) + Len(f)
    BY <2>1
  <2>3. \A i \in 1..Len(a \o f) :
          (a \o f)[i] = IF i <= Len(a) THEN a[i] ELSE f[i - Len(a)]
    BY <2>1
  <2>4. QED
    BY <1>1, <1>2, <2>1, <2>2, <2>3 DEF f
<1> HIDE DEF c, d
<1>4. c # <<>>
  BY <1>1, <1>2
<1>5. /\ Front(c) \in Seq(S) /\ Len(Front(c)) = Len(c) - 1
      /\ \A i \in 1..(Len(c) - 1) : Front(c)[i] = c[i]
  BY <1>2, <1>4, FrontIs
<1>6. ASSUME NEW i \in 1..Len(d) PROVE Front(c)[i] = d[i]
  <2>1. Front(c)[i] = c[i] /\ i \in 1..Len(c)
    BY <1>1, <1>2, <1>3, <1>5
  <2>2. CASE i <= Len(a)
    BY <1>2, <1>3, <2>1, <2>2
  <2>3. CASE ~(i <= Len(a))
    <3>1. i - Len(a) \in 1..(Len(b) - 1)
      BY <1>1, <1>2, <1>3, <2>3
    <3>2. QED
      BY <1>1, <1>2, <1>3, <2>1, <2>3, <3>1
  <2>4. QED
    BY <2>2, <2>3
<1>7. Front(c) = d
  <2> DEFINE e == Front(c)
  <2>1. e \in Seq(S) /\ Len(e) = Len(d) /\ \A i \in 1..Len(d) : e[i] = d[i]
    BY <1>3, <1>5, <1>6
  <2> HIDE DEF e
  <2>2. e = d
    BY <1>3, <2>1
  <2>3. QED
    BY <2>2 DEF e
<1>8. QED
  BY <1>2, <1>4, <1>7 DEF c, d

LEMMA BackspaceTrail ==
  ASSUME Usable(fb), NEW s, IsScreen(s), OnScreen(s), s.x > 0,
         NEW S, NEW str \in Seq(S), str # <<>>, TrailIn(s, CursorOf(s), str)
  PROVE  LET q == Putc(s, Backspace)
         IN  TrailIn(q, CursorOf(q), Front(str))
<1> DEFINE w == Inked(s, Backspace)
           new == Front(str)
           n == CursorOf(s)
           z == s.x - 1
<1>1. /\ n \in Nat /\ s.x \in 0..(cols - 1) /\ s.y \in 0..(rows - 1)
      /\ z \in 0..(cols - 1) /\ NextPos(s, Backspace) = n - 1
      /\ s.y * cols + z = n - 1
  <2>1. /\ n \in Nat /\ s.x \in 0..(cols - 1) /\ s.y \in 0..(rows - 1)
        /\ cols \in Nat /\ rows \in Nat
    BY CursorFits
  <2>2. s.y * cols \in Nat /\ z \in 0..(cols - 1)
    BY <2>1, Times
  <2>3. s.y * cols + z = n - 1
    BY <2>1, <2>2 DEF CursorOf
  <2>4. QED
    BY <2>1, <2>2, <2>3, NextPosIs
<1>2. \A i \in Frame(fb) :
        w.px[i] = IF i \in CellArea(fb, z, s.y) THEN Black ELSE s.px[i]
  BY InkedIs
<1>3. /\ new \in Seq(S) /\ Len(new) = Len(str) - 1 /\ Len(str) \in Nat \ {0}
      /\ \A i \in 1..(Len(str) - 1) : new[i] = str[i]
  BY FrontIs
<1> HIDE DEF w, new, z, n
<1>4. ASSUME NEW i \in 1..Len(new),
             NEW x \in 0..(cols - 1), NEW y \in 0..(rows - 1),
             y * cols + x = (n - 1) - i
      PROVE  CellShows(w, x, y, new[Len(new) + 1 - i])
  <2> DEFINE j == i + 1
  <2>1. /\ j \in 1..Len(str) /\ y * cols + x = n - j
        /\ y * cols + x # s.y * cols + z
    BY <1>1, <1>3, <1>4
  <2>2. new[Len(new) + 1 - i] = str[Len(str) + 1 - j]
    BY <1>3, <2>1
  <2> HIDE DEF j
  <2>3. CellShows(s, x, y, str[Len(str) + 1 - j])
    BY <2>1 DEF TrailIn, n
  <2>4. ASSUME NEW k \in CellArea(fb, x, y) PROVE w.px[k] = s.px[k]
    <3>1. k \notin CellArea(fb, z, s.y)
      BY <1>1, <2>1, CellsAreDisjoint
    <3>2. k \in Frame(fb)
      BY CellInFrame
    <3>3. QED
      BY <1>2, <3>1, <3>2
  <2>5. QED
    BY <2>2, <2>3, <2>4 DEF CellShows
<1>5. TrailIn(w, n - 1, new)
  BY <1>4 DEF TrailIn
<1>6. TrailIn(Inked(s, Backspace), NextPos(s, Backspace), new)
  BY <1>1, <1>5 DEF w
<1>7. TrailIn(Putc(s, Backspace), CursorOf(Putc(s, Backspace)), new)
  BY <1>3, <1>6, TrailAtCursor
<1>8. QED
  BY <1>7 DEF new

(***************************************************************************)
(* Part 7.  Texts.                                                         *)
(***************************************************************************)
Fine(s) ==
  /\ IsScreen(s) /\ ~s.wild
  /\ IF fb.base THEN OnScreen(s) ELSE Dark(s)

FrameOK == fb.base \in BOOLEAN /\ (fb.base => Usable(fb))

LEMMA PutcKeepsFine ==
  ASSUME FrameOK, NEW s, Fine(s), NEW c
  PROVE  Fine(Putc(s, c))
<1>1. CASE fb.base
  BY <1>1, PutcIs DEF Fine, FrameOK
<1>2. CASE ~fb.base
  BY <1>2, PutcInTheDark DEF Fine
<1>3. QED
  BY <1>1, <1>2

LEMMA TextKeepsFine ==
  ASSUME FrameOK, NEW s, Fine(s), NEW S, NEW str \in Seq(S)
  PROVE  Fine(PutAll(s, str))
<1>1. PICK at : /\ at[0] = s /\ PutAll(s, str) = at[Len(str)]
                /\ \A i \in 1..Len(str) : at[i] = Putc(at[i - 1], str[i])
  BY PutAllHasStates
<1> DEFINE T == {i \in 0..Len(str) : Fine(at[i])}
<1>2. ASSUME NEW k \in 0..Len(str), k < Len(str), k \in T PROVE k + 1 \in T
  <2>1. k + 1 \in 1..Len(str) /\ (k + 1) - 1 = k
    BY <1>2
  <2>2. at[k + 1] = Putc(at[k], str[k + 1])
    BY <1>1, <2>1
  <2>3. Fine(at[k + 1])
    BY <1>2, <2>2, PutcKeepsFine
  <2>4. QED
    BY <2>1, <2>3
<1>3. 0 \in T /\ Len(str) \in Nat
  BY <1>1
<1> HIDE DEF T
<1>4. Len(str) \in T
  BY <1>2, <1>3, IntervalInduction
<1>5. QED
  BY <1>1, <1>4 DEF T

LEMMA TextInkInRows ==
  ASSUME Usable(fb), NEW s, Fine(s), RowInk(s),
         NEW S, NEW str \in Seq(S)
  PROVE  RowInk(PutAll(s, str))
<1>0. FrameOK /\ \A q : Fine(q) => IsScreen(q) /\ OnScreen(q)
  BY DEF FrameOK, Fine, Usable
<1>1. PICK at : /\ at[0] = s /\ PutAll(s, str) = at[Len(str)]
                /\ \A i \in 1..Len(str) : at[i] = Putc(at[i - 1], str[i])
  BY PutAllHasStates
<1> DEFINE T == {i \in 0..Len(str) :
                   Fine(at[i]) /\ RowInk(at[i])}
<1>2. ASSUME NEW k \in 0..Len(str), k < Len(str), k \in T PROVE k + 1 \in T
  <2>1. k + 1 \in 1..Len(str) /\ (k + 1) - 1 = k
    BY <1>2
  <2>2. at[k + 1] = Putc(at[k], str[k + 1])
    BY <1>1, <2>1
  <2>3. Fine(at[k + 1])
    BY <1>0, <1>2, <2>2, PutcKeepsFine
  <2>4. RowInk(at[k + 1])
    BY <1>0, <1>2, <2>2, InkInRows
  <2>5. QED
    BY <2>1, <2>3, <2>4
<1>3. 0 \in T /\ Len(str) \in Nat
  BY <1>1
<1> HIDE DEF T
<1>4. Len(str) \in T
  BY <1>2, <1>3, IntervalInduction
<1>5. QED
  BY <1>1, <1>4 DEF T

LEMMA PrefixGrows ==
  ASSUME NEW S, NEW str \in Seq(S), NEW k \in 0..Len(str)
  PROVE  /\ SubSeq(str, 1, k) \in Seq(S)
         /\ k < Len(str) => /\ str[k + 1] \in S
                            /\ SubSeq(str, 1, k + 1)
                                 = Append(SubSeq(str, 1, k), str[k + 1])
         /\ k = Len(str) => SubSeq(str, 1, k) = str
<1>1. Len(str) \in Nat /\ k \in Nat
  OBVIOUS
<1>2. SubSeq(str, 1, k) \in Seq(S)
  BY <1>1
<1>3. Len(SubSeq(str, 1, k)) = k
  BY <1>1
<1>4. \A i \in 1..k : SubSeq(str, 1, k)[i] = str[i]
  BY <1>1
<1>5. ASSUME k < Len(str)
      PROVE  /\ str[k + 1] \in S
             /\ SubSeq(str, 1, k + 1) = Append(SubSeq(str, 1, k), str[k + 1])
  <2> DEFINE m == k + 1
             a == SubSeq(str, 1, k)
             b == SubSeq(str, 1, m)
             d == Append(a, str[m])
  <2>1. m \in 1..Len(str) /\ m \in Nat /\ m = k + 1
    BY <1>1, <1>5
  <2> HIDE DEF m
  <2>2. b \in Seq(S) /\ Len(b) = m /\ \A i \in 1..m : b[i] = str[i]
    BY <1>1, <2>1
  <2>3. str[m] \in S
    BY <2>1
  <2> HIDE DEF a, b
  <2>4. a \in Seq(S) /\ Len(a) = k /\ \A i \in 1..k : a[i] = str[i]
    BY <1>2, <1>3, <1>4 DEF a
  <2>5. d \in Seq(S) /\ Len(d) = m /\ \A i \in 1..m : d[i] = str[i]
    BY <1>1, <2>1, <2>3, <2>4
  <2> HIDE DEF d
  <2>6. b = d
    BY <2>2, <2>5
  <2>7. QED
    BY <2>3, <2>6 DEF m, a, b, d
<1>6. ASSUME k = Len(str) PROVE SubSeq(str, 1, k) = str
  <2> DEFINE a == SubSeq(str, 1, k)
  <2> HIDE DEF a
  <2>1. /\ a \in Seq(S) /\ Len(a) = Len(str)
        /\ \A i \in 1..Len(str) : a[i] = str[i]
    BY <1>2, <1>3, <1>4, <1>6 DEF a
  <2>2. a = str
    BY <2>1
  <2>3. QED
    BY <2>2 DEF a
<1>7. QED
  BY <1>2, <1>5, <1>6

(* The prompt, on a fresh row.                                             *)
LEMMA PromptOnScreen ==
  ASSUME Usable(fb), NEW s, Fine(s), RowInk(s), NEW text \in Prompts
  PROVE  LET q == PutAll(s, <<Newline>> \o text)
         IN  InkIn(q, CursorOf(q)) /\ TrailIn(q, CursorOf(q), text)
<1> DEFINE C == STRING \cup {Newline}
           str == <<Newline>> \o text
           n == Len(text)
<1>0. FrameOK /\ \A q : Fine(q) => IsScreen(q) /\ OnScreen(q)
  BY DEF FrameOK, Fine, Usable
<1>1. /\ text \in Seq(C) /\ \A i \in 1..n : text[i] \notin Controls
      /\ n \in Nat
  <2>1. text \in Seq(STRING) /\ Range(text) \cap Controls = {}
    BY TerminalAssumption
  <2>2. DOMAIN text = 1..n /\ n \in Nat
    BY <2>1
  <2>3. text \in Seq(C)
    BY <2>1
  <2>4. QED
    BY <2>1, <2>2, <2>3 DEF Range
<1>2. /\ str \in Seq(C) /\ Len(str) = n + 1 /\ str[1] = Newline
      /\ \A i \in 1..n : str[i + 1] = text[i]
  <2>1. <<Newline>> \in Seq(C) /\ Len(<<Newline>>) = 1
    OBVIOUS
  <2>2. QED
    BY <1>1, <2>1
<1> HIDE DEF str, n, C
<1>3. PICK at : /\ at[0] = s /\ PutAll(s, str) = at[Len(str)]
                /\ \A i \in 1..Len(str) : at[i] = Putc(at[i - 1], str[i])
  BY <1>2, PutAllHasStates
<1> DEFINE Ok(q, k) == /\ Fine(q) /\ InkIn(q, CursorOf(q))
                       /\ TrailIn(q, CursorOf(q), SubSeq(text, 1, k))
           T == {k \in 0..n : Ok(at[k + 1], k)}
<1>4. 0 \in T
  <2>1. at[1] = Putc(s, Newline)
    <3>1. 1 \in 1..Len(str) /\ 1 - 1 = 0
      BY <1>1, <1>2
    <3>2. QED
      BY <1>2, <1>3, <3>1
  <2>2. Fine(at[1])
    BY <1>0, <2>1, PutcKeepsFine
  <2>3. InkIn(at[1], CursorOf(at[1]))
    BY <1>0, <2>1, NewlineInk
  <2>4. Len(SubSeq(text, 1, 0)) = 0
    BY <1>1
  <2>5. TrailIn(at[1], CursorOf(at[1]), SubSeq(text, 1, 0))
    BY <2>4 DEF TrailIn
  <2>6. QED
    BY <1>1, <2>2, <2>3, <2>5
<1>5. ASSUME NEW k \in 0..n, k < n, k \in T PROVE k + 1 \in T
  <2> DEFINE q == at[k + 1]
             c == text[k + 1]
             r == at[(k + 1) + 1]
  <2>1. Ok(q, k)
    BY <1>5
  <2>2. r = Putc(q, c) /\ c \notin Controls
    <3>1. /\ (k + 1) + 1 \in 1..Len(str) /\ ((k + 1) + 1) - 1 = k + 1
          /\ k + 1 \in 1..n
      BY <1>1, <1>2, <1>5
    <3>2. QED
      BY <1>1, <1>2, <1>3, <3>1
  <2>3. /\ SubSeq(text, 1, k) \in Seq(C) /\ c \in C
        /\ SubSeq(text, 1, k + 1) = Append(SubSeq(text, 1, k), c)
    BY <1>1, <1>5, PrefixGrows DEF n
  <2> HIDE DEF q, c, r
  <2>4. Fine(r)
    BY <1>0, <2>1, <2>2, PutcKeepsFine
  <2>5. InkIn(r, CursorOf(r))
    BY <1>0, <2>1, <2>2, PrintInk
  <2>6. TrailIn(r, CursorOf(r), SubSeq(text, 1, k + 1))
    BY <1>0, <2>1, <2>2, <2>3, PrintTrail
  <2>7. k + 1 \in 0..n
    BY <1>1, <1>5
  <2>8. QED
    BY <2>4, <2>5, <2>6, <2>7 DEF r
<1> HIDE DEF T
<1>6. n \in T
  BY <1>1, <1>4, <1>5, IntervalInduction
<1>7. Ok(at[n + 1], n)
  BY <1>6 DEF T
<1>8. SubSeq(text, 1, n) = text
  BY <1>1, PrefixGrows DEF n
<1>9. QED
  BY <1>2, <1>3, <1>7, <1>8 DEF str

(* The picture lies within the frame, and clearing leaves nothing.         *)
LEMMA PictureKeepsFine ==
  ASSUME FrameOK, NEW s, Fine(s)
  PROVE  Fine(gop_render_wallpaper(fb, s))
<1>1. CASE ~fb.base
  BY <1>1 DEF gop_render_wallpaper
<1>2. CASE fb.base
  <2> DEFINE area == {(y + Offset(fb.height, IMAGE_HEIGHT)) * fb.stride
                        + x + Offset(fb.width, IMAGE_WIDTH) :
                        y \in 0..(Clipped(fb.height, IMAGE_HEIGHT) - 1),
                        x \in 0..(Clipped(fb.width, IMAGE_WIDTH) - 1)}
             paint == [i \in area |-> Picture]
             q == Painted(s, paint)
  <2>1. Usable(fb)
    BY <1>2 DEF FrameOK
  <2>2. area \subseteq Frame(fb)
    <3>1. SUFFICES
            ASSUME NEW y \in 0..(Clipped(fb.height, IMAGE_HEIGHT) - 1),
                   NEW x \in 0..(Clipped(fb.width, IMAGE_WIDTH) - 1)
            PROVE  (y + Offset(fb.height, IMAGE_HEIGHT)) * fb.stride
                     + x + Offset(fb.width, IMAGE_WIDTH) \in Frame(fb)
      OBVIOUS
    <3> DEFINE Y == y + Offset(fb.height, IMAGE_HEIGHT)
               X == x + Offset(fb.width, IMAGE_WIDTH)
    <3>2. /\ fb.height \in Nat /\ fb.width \in Nat /\ fb.stride \in Nat
          /\ fb.stride >= fb.width
          /\ IMAGE_HEIGHT \in Nat /\ IMAGE_WIDTH \in Nat
      BY <2>1, TerminalAssumption DEF Usable
    <3>3. Y \in 0..(fb.height - 1) /\ Y \in Nat
      BY <3>2 DEF Offset, Clipped
    <3>4. X \in 0..(fb.stride - 1) /\ X \in Nat
      BY <3>2 DEF Offset, Clipped
    <3>5. Offset(fb.width, IMAGE_WIDTH) \in Nat /\ x \in Nat
      BY <3>2 DEF Offset, Clipped
    <3> DEFINE Z == Y * fb.stride
    <3> HIDE DEF Y
    <3>6. Z + X < fb.height * fb.stride /\ Z \in Nat
      BY <3>2, <3>3, <3>4, Below, Times
    <3>7. fb.height * fb.stride = fb.stride * fb.height
      BY <3>2
    <3> HIDE DEF Z
    <3>8. Z + x + Offset(fb.width, IMAGE_WIDTH) = Z + X
      BY <3>5, <3>6
    <3>9. fb.height * fb.stride \in Nat
      BY <3>2, Times
    <3> HIDE DEF X
    <3>10. Z + X \in 0..(fb.stride * fb.height - 1)
      BY <3>4, <3>6, <3>7, <3>9
    <3>11. QED
      BY <2>1, <3>8, <3>10 DEF Frame, Usable, Z, Y
  <2> HIDE DEF area
  <2>3. DOMAIN paint \subseteq Frame(fb)
    BY <2>2
  <2> HIDE DEF paint
  <2>4. IsScreen(q) /\ q.x = s.x /\ q.y = s.y /\ (q.wild <=> s.wild)
    BY <2>3, PaintedIs DEF Fine
  <2>5. gop_render_wallpaper(fb, s) = q
    BY <1>2 DEF gop_render_wallpaper, paint, area
  <2> HIDE DEF q
  <2>6. QED
    BY <1>2, <2>4, <2>5 DEF Fine, OnScreen
<1>3. QED
  BY <1>1, <1>2 DEF FrameOK

LEMMA ClearIs ==
  ASSUME FrameOK, NEW s, Fine(s)
  PROVE  LET q == gfxterm_clear(fb, s)
         IN  /\ Fine(q)
             /\ fb.base => \A n : InkIn(q, n)
<1>1. CASE ~fb.base
  BY <1>1 DEF gfxterm_clear
<1>2. CASE fb.base
  <2> DEFINE paint == [i \in Frame(fb) |-> Black]
             p == Painted(s, paint)
             q == At(p, 0, 0)
  <2>1. /\ IsScreen(p) /\ (p.wild <=> s.wild)
        /\ \A i \in Frame(fb) : p.px[i] = Black
    BY PaintedIs DEF Fine
  <2> HIDE DEF p
  <2>2. /\ IsScreen(q) /\ q.x = 0 /\ q.y = 0 /\ q.wild = p.wild
        /\ q.px = p.px
    BY <2>1, AtIs
  <2>3. gfxterm_clear(fb, s) = q
    BY <1>2 DEF gfxterm_clear, p, At
  <2>4. OnScreen(q)
    <3>1. cols \in Nat \ {0} /\ rows \in Nat \ {0}
      BY <1>2, CellsFit DEF FrameOK
    <3>2. QED
      BY <2>2, <3>1 DEF OnScreen
  <2> HIDE DEF q
  <2>5. QED
    BY <1>2, <2>1, <2>2, <2>3, <2>4 DEF Fine, InkIn
<1>3. QED
  BY <1>1, <1>2 DEF FrameOK

(***************************************************************************)
(* Part 8.  The inductive invariant.  Between two commands nothing is      *)
(* drawn below the cursor's row; while a line is read and run, nothing     *)
(* behind the cursor; and while it is read, the line stands before it.     *)
(***************************************************************************)
Good(s, p, b, k, t) ==
  /\ Fine(s)
  /\ fb.base =>
       /\ p = "prompt" => RowInk(s)
       /\ p \in {"read", "execute"} => InkIn(s, CursorOf(s))
       /\ p = "read" /\ ~k => TrailIn(s, CursorOf(s), t \o b)

LineOK ==
  /\ pc \in {"prompt", "read", "execute", "picture"}
  /\ buf \in Seq(Printable) /\ Len(buf) < max_len
  /\ stuck \in BOOLEAN
  /\ prompt \in Prompts \cup {<<>>}

Inv == fb \in Framebuffers /\ LineOK /\ Good(scr, pc, buf, stuck, prompt)

LEMMA GoodNext ==
  ASSUME fb' = fb
  PROVE  Good(scr, pc, buf, stuck, prompt)'
           <=> Good(scr', pc', buf', stuck', prompt')
BY DEF Good, Fine, IsScreen, Screens, Frame, OnScreen, Dark, InkIn, TrailIn,
       CellShows, CellArea, CellIndex, Glyph, CursorOf, cols, rows, RowInk

LEMMA InvFacts ==
  ASSUME Inv
  PROVE  /\ FrameOK /\ Fine(scr) /\ LineOK
         /\ fb.base => Usable(fb) /\ IsScreen(scr) /\ OnScreen(scr)
BY ModesAreUsable DEF Inv, FrameOK, Good, Fine

LEMMA PromptIsText ==
  ASSUME LineOK
  PROVE  prompt \in Seq(STRING)
<1>1. prompt \in Prompts \/ prompt = <<>>
  BY DEF LineOK
<1>2. \A p \in Prompts : p \in Seq(STRING)
  BY TerminalAssumption
<1>3. \A S : <<>> \in Seq(S)
  OBVIOUS
<1>4. QED
  BY <1>1, <1>2, <1>3, Zenon

LEMMA InitInv == Init => Inv
<1> SUFFICES ASSUME Init PROVE Inv
  OBVIOUS
<1>1. FrameOK
  BY ModesAreUsable DEF Init, FrameOK
<1> DEFINE dark == [px   |-> [i \in Frame(fb) |-> Leftover],
                    wild |-> FALSE, x |-> 0, y |-> 0]
<1>2. Fine(dark)
  <2>1. dark \in Screens({Leftover})
    BY DEF Screens
  <2>2. fb.base => OnScreen(dark)
    BY <1>1, CellsFit DEF FrameOK, OnScreen
  <2>3. QED
    BY <2>1, <2>2 DEF Fine, IsScreen, Dark
<1>3. PICK shown \in {dark, gop_render_wallpaper(fb, dark)} :
        scr = gfxterm_clear(fb, shown)
  BY DEF Init
<1> HIDE DEF dark
<1>4. Fine(shown)
  BY <1>1, <1>2, <1>3, PictureKeepsFine
<1>5. Fine(scr) /\ (fb.base => \A n : InkIn(scr, n))
  BY <1>1, <1>3, <1>4, ClearIs
<1>6. /\ pc = "prompt" /\ buf = <<>> /\ stuck = FALSE /\ prompt = <<>>
      /\ fb \in Framebuffers
  BY DEF Init
<1>7. Good(scr, pc, buf, stuck, prompt)
  BY <1>5, <1>6 DEF Good, RowInk
<1>8. LineOK
  <2>1. MAX_LINE \in Nat \ {0} /\ max_len = MAX_LINE
    BY <1>6, TerminalAssumption DEF max_len
  <2>2. QED
    <3>1. <<>> \in Seq(Printable) /\ Len(<<>>) = 0
      OBVIOUS
    <3>2. buf \in Seq(Printable) /\ Len(buf) < max_len
      BY <1>6, <2>1, <3>1
    <3>3. stuck \in BOOLEAN /\ prompt \in Prompts \cup {<<>>}
      BY <1>6, Zenon
    <3>4. QED
      BY <1>6, <3>2, <3>3, Zenon DEF LineOK
<1>9. QED
  BY <1>6, <1>7, <1>8 DEF Inv

LEMMA PromptKeepsGood ==
  ASSUME Inv, ShowPrompt
  PROVE  Good(scr', pc', buf', stuck', prompt')
<1> DEFINE q == PutAll(scr, <<Newline>> \o prompt')
           C == STRING \cup {Newline}
<1>1. /\ pc = "prompt" /\ scr' = q /\ pc' = "read" /\ buf' = <<>>
      /\ prompt' \in Prompts
  BY DEF ShowPrompt
<1>2. <<Newline>> \o prompt' \in Seq(C) /\ prompt' \in Seq(C)
  BY <1>1, TerminalAssumption
<1>3. Fine(q)
  BY <1>2, InvFacts, TextKeepsFine
<1>4. fb.base => InkIn(q, CursorOf(q)) /\ TrailIn(q, CursorOf(q), prompt')
  <2>1. fb.base => RowInk(scr)
    BY <1>1 DEF Inv, Good
  <2>2. QED
    BY <1>1, <2>1, InvFacts, PromptOnScreen
<1> HIDE DEF q
<1>5. prompt' \o buf' = prompt'
  BY <1>1, <1>2
<1>6. QED
  BY <1>1, <1>3, <1>4, <1>5 DEF Good

LEMMA EnterKeepsGood ==
  ASSUME Inv, TypeEnter
  PROVE  Good(scr', pc', buf', stuck', prompt')
<1> DEFINE q == Putc(scr, Newline)
<1>1. pc = "read" /\ scr' = q /\ pc' \in {"prompt", "execute"}
  BY DEF TypeEnter
<1>2. Fine(q)
  BY InvFacts, PutcKeepsFine
<1>3. ASSUME fb.base
      PROVE  InkIn(q, CursorOf(q)) /\ RowInk(q)
  <2>1. Usable(fb) /\ IsScreen(scr) /\ OnScreen(scr)
    BY <1>3, InvFacts
  <2>2. InkIn(scr, CursorOf(scr))
    BY <1>1, <1>3 DEF Inv, Good
  <2>3. /\ CursorOf(scr) \in Int /\ (scr.y + 1) * cols \in Int
        /\ CursorOf(scr) <= (scr.y + 1) * cols
    BY <2>1, CursorFits
  <2>4. RowInk(scr)
    BY <2>1, <2>2, <2>3, InkGrows DEF RowInk
  <2>5. QED
    BY <2>1, <2>4, NewlineInk, InkInRows
<1> HIDE DEF q
<1>4. QED
  BY <1>1, <1>2, <1>3 DEF Good

LEMMA BackspaceKeepsGood ==
  ASSUME Inv, TypeBackspace
  PROVE  Good(scr', pc', buf', stuck', prompt')
<1> DEFINE q == Putc(scr, Backspace)
<1>1. /\ pc \in {"read", "picture"} /\ pc' = pc /\ scr' = q
      /\ prompt' = prompt
      /\ buf # <<>> /\ buf' = Front(buf) /\ stuck' = (stuck \/ scr.x = 0)
  BY DEF TypeBackspace
<1>2. Fine(q)
  BY InvFacts, PutcKeepsFine
<1>3. ASSUME fb.base, pc = "read" PROVE InkIn(q, CursorOf(q))
  <2>1. InkIn(scr, CursorOf(scr))
    BY <1>3 DEF Inv, Good
  <2>2. QED
    BY <1>3, <2>1, InvFacts, BackspaceInk
<1>4. ASSUME fb.base, pc = "read", ~stuck, scr.x # 0
      PROVE  TrailIn(q, CursorOf(q), prompt' \o buf')
  <2> DEFINE str == prompt \o buf
             C == STRING \cup Printable
  <2>1. prompt \in Seq(C) /\ buf \in Seq(C)
    BY InvFacts, PromptIsText DEF LineOK
  <2>2. str \in Seq(C) /\ str # <<>> /\ Front(str) = prompt \o Front(buf)
    <3> HIDE DEF C
    <3>1. QED
      BY <1>1, <2>1, FrontOfAppended
  <2>3. TrailIn(scr, CursorOf(scr), str)
    BY <1>4 DEF Inv, Good
  <2>4. scr.x > 0
    BY <1>4, InvFacts, CursorFits
  <2> HIDE DEF str
  <2>5. TrailIn(q, CursorOf(q), Front(str))
    BY <1>4, <2>2, <2>3, <2>4, InvFacts, BackspaceTrail
  <2>6. QED
    BY <1>1, <2>2, <2>5
<1> HIDE DEF q
<1>5. QED
  BY <1>1, <1>2, <1>3, <1>4 DEF Good

LEMMA CtrlCKeepsGood ==
  ASSUME Inv, TypeCtrlC
  PROVE  Good(scr', pc', buf', stuck', prompt')
<1> DEFINE str == <<"^", "C", Newline>>
           q == PutAll(scr, str)
<1>1. pc = "read" /\ scr' = q /\ pc' = "prompt"
  BY DEF TypeCtrlC
<1>2. str \in Seq({"^", "C", Newline})
  OBVIOUS
<1> HIDE DEF str
<1>3. Fine(q)
  BY <1>2, InvFacts, TextKeepsFine
<1>4. ASSUME fb.base PROVE RowInk(q)
  <2>1. Usable(fb) /\ IsScreen(scr) /\ OnScreen(scr) /\ Fine(scr)
    BY <1>4, InvFacts
  <2>2. InkIn(scr, CursorOf(scr))
    BY <1>1, <1>4 DEF Inv, Good
  <2>3. RowInk(scr)
    BY <2>1, <2>2, CursorInRow
  <2>4. QED
    BY <1>2, <2>1, <2>3, TextInkInRows
<1> HIDE DEF q
<1>5. QED
  BY <1>1, <1>3, <1>4 DEF Good

LEMMA PrintableKeepsGood ==
  ASSUME Inv, NEW c \in Printable, TypePrintable(c)
  PROVE  Good(scr', pc', buf', stuck', prompt')
<1> DEFINE q == Putc(scr, c)
<1>1. /\ pc \in {"read", "picture"} /\ pc' = pc /\ scr' = q
      /\ buf' = Append(buf, c) /\ stuck' = stuck /\ prompt' = prompt
  BY DEF TypePrintable
<1>2. c \notin Controls
  BY TerminalAssumption DEF Printable, Controls, Blank, Newline, Return,
                            Backspace, Tab
<1>3. Fine(q)
  BY InvFacts, PutcKeepsFine
<1>4. ASSUME fb.base, pc = "read" PROVE InkIn(q, CursorOf(q))
  <2>1. InkIn(scr, CursorOf(scr))
    BY <1>4 DEF Inv, Good
  <2>2. QED
    BY <1>2, <1>4, <2>1, InvFacts, PrintInk
<1>5. ASSUME fb.base, pc = "read", ~stuck
      PROVE  TrailIn(q, CursorOf(q), prompt' \o buf')
  <2> DEFINE str == prompt \o buf
             C == STRING \cup Printable
  <2>1. prompt \in Seq(C) /\ buf \in Seq(C) /\ c \in C
    BY InvFacts, PromptIsText DEF LineOK
  <2>2. str \in Seq(C) /\ Append(str, c) = prompt \o Append(buf, c)
    <3> HIDE DEF C
    <3>1. QED
      BY <2>1
  <2>3. TrailIn(scr, CursorOf(scr), str)
    BY <1>5 DEF Inv, Good
  <2> HIDE DEF str, C
  <2>4. TrailIn(q, CursorOf(q), Append(str, c))
    BY <1>2, <1>5, <2>1, <2>2, <2>3, InvFacts, PrintTrail
  <2>5. QED
    BY <1>1, <2>2, <2>4
<1> HIDE DEF q
<1>6. QED
  BY <1>1, <1>3, <1>4, <1>5 DEF Good

LEMMA OutputKeepsGood ==
  ASSUME Inv, Execute
  PROVE  Good(scr', pc', buf', stuck', prompt')
<1>1. pc = "execute" /\ pc' = "prompt"
  BY DEF Execute
<1>2. ASSUME fb.base PROVE RowInk(scr)
  <2>1. InkIn(scr, CursorOf(scr))
    BY <1>1, <1>2 DEF Inv, Good
  <2>2. QED
    BY <1>2, <2>1, InvFacts, CursorInRow
<1>3. CASE scr' = scr
  BY <1>1, <1>2, <1>3, InvFacts DEF Good
<1>4. ASSUME NEW o \in Outputs, scr' = PutAll(scr, o)
      PROVE  Good(scr', pc', buf', stuck', prompt')
  <2> DEFINE q == PutAll(scr, o)
  <2>1. o \in Seq(STRING)
    BY TerminalAssumption
  <2>2. Fine(q)
    BY <2>1, InvFacts, TextKeepsFine
  <2>3. fb.base => RowInk(q)
    BY <1>2, <2>1, InvFacts, TextInkInRows
  <2> HIDE DEF q
  <2>4. scr' = q
    BY <1>4 DEF q
  <2>5. QED
    BY <1>1, <2>2, <2>3, <2>4 DEF Good
<1>5. QED
  BY <1>3, <1>4 DEF Execute

LEMMA ClearKeepsGood ==
  ASSUME Inv, Clear
  PROVE  Good(scr', pc', buf', stuck', prompt')
<1> DEFINE q == gfxterm_clear(fb, scr)
<1>1. Fine(q) /\ (fb.base => \A n : InkIn(q, n))
  BY InvFacts, ClearIs
<1> HIDE DEF q
<1>2. scr' = q /\ pc' = "prompt"
  BY DEF Clear, q
<1>3. QED
  BY <1>1, <1>2 DEF Good, RowInk

LEMMA PictureKeepsGood ==
  ASSUME Inv, OpenPicture
  PROVE  Good(scr', pc', buf', stuck', prompt')
<1> DEFINE loading == PutAll(scr, LoadingText)
           shown == gop_render_wallpaper(fb, loading)
           q == PutAll(shown, DoneText)
<1>1. LoadingText \in Seq(STRING) /\ DoneText \in Seq(STRING)
  BY TerminalAssumption
<1>2. Fine(loading)
  BY <1>1, InvFacts, TextKeepsFine
<1> HIDE DEF loading
<1>3. Fine(shown)
  BY <1>2, InvFacts, PictureKeepsFine
<1> HIDE DEF shown
<1>4. Fine(q)
  BY <1>1, <1>3, InvFacts, TextKeepsFine
<1> HIDE DEF q
<1>5. scr' = q /\ pc' = "picture"
  BY DEF OpenPicture, loading, shown, q
<1>6. QED
  BY <1>4, <1>5 DEF Good

LEMMA CloseKeepsGood ==
  ASSUME Inv, ClosePicture
  PROVE  Good(scr', pc', buf', stuck', prompt')
<1>1. pc' = "prompt"
  BY DEF ClosePicture
<1>2. PICK end \in {<<Newline>>, <<"^", "C", Newline>>} :
        scr' = gfxterm_clear(fb, PutAll(scr, end))
  BY DEF ClosePicture
<1> DEFINE p == PutAll(scr, end)
           q == gfxterm_clear(fb, p)
<1>3. end \in Seq({"^", "C", Newline})
  <2>1. CASE end = <<Newline>>
    BY <2>1
  <2>2. CASE end = <<"^", "C", Newline>>
    BY <2>2
  <2>3. QED
    BY <1>2, <2>1, <2>2
<1>4. Fine(p)
  BY <1>3, InvFacts, TextKeepsFine
<1> HIDE DEF p
<1>5. Fine(q) /\ (fb.base => \A n : InkIn(q, n))
  BY <1>4, InvFacts, ClearIs
<1> HIDE DEF q
<1>6. scr' = q
  BY <1>2 DEF p, q
<1>7. QED
  BY <1>1, <1>5, <1>6 DEF Good, RowInk

(* A line and the zero that ends it fit the buffer of either reader.       *)
LEMMA LineStaysOK ==
  ASSUME Inv, Next
  PROVE  LineOK'
<1>1. /\ LineOK /\ MAX_LINE \in Nat \ {0} /\ DUMMY_LINE \in Nat \ {0}
      /\ Len(buf) \in Nat
  BY TerminalAssumption DEF Inv, LineOK
<1>2. CASE ShowPrompt \/ ClosePicture \/ OpenPicture \/ TypeCtrlC
  <2>1. /\ buf' = <<>> /\ stuck' \in BOOLEAN
        /\ prompt' \in Prompts \cup {<<>>}
        /\ pc' \in {"prompt", "read", "execute", "picture"}
    BY <1>1, <1>2 DEF LineOK, ShowPrompt, ClosePicture, OpenPicture,
                      TypeCtrlC
  <2>2. max_len' \in Nat \ {0}
    BY <1>1 DEF max_len
  <2>3. QED
    BY <2>1, <2>2 DEF LineOK
<1>3. CASE TypeEnter \/ Execute \/ Clear
  <2>1. /\ pc \in {"read", "execute"} /\ pc' \in {"prompt", "execute"}
        /\ buf' = buf /\ stuck' = stuck /\ prompt' = prompt
    BY <1>3 DEF TypeEnter, Execute, Clear
  <2>2. max_len' = max_len
    BY <2>1 DEF max_len
  <2>3. QED
    BY <1>1, <2>1, <2>2 DEF LineOK
<1>4. CASE TypeBackspace
  <2>1. /\ buf # <<>> /\ buf' = Front(buf) /\ pc' = pc
        /\ prompt' = prompt
        /\ stuck' \in BOOLEAN /\ max_len' = max_len
    BY <1>1, <1>4 DEF TypeBackspace, LineOK, max_len
  <2>2. buf' \in Seq(Printable) /\ Len(buf') = Len(buf) - 1
    BY <1>1, <2>1, FrontIs DEF LineOK
  <2>3. max_len \in Nat
    BY <1>1 DEF max_len
  <2>4. QED
    BY <1>1, <2>1, <2>2, <2>3 DEF LineOK
<1>5. ASSUME NEW c \in Printable, TypePrintable(c) PROVE LineOK'
  <2>1. /\ buf' = Append(buf, c) /\ pc' = pc /\ stuck' = stuck
        /\ prompt' = prompt
        /\ max_len' = max_len /\ Len(buf) < max_len - 1
    BY <1>5 DEF TypePrintable, Room, max_len
  <2>2. max_len \in Nat
    BY <1>1 DEF max_len
  <2>3. QED
    BY <1>1, <2>1, <2>2 DEF LineOK
<1>6. QED
  BY <1>2, <1>3, <1>4, <1>5 DEF Next

LEMMA StepInv ==
  ASSUME Inv, [Next]_vars
  PROVE  Inv'
<1>1. CASE Next
  <2>1. fb' = fb
    BY <1>1 DEF Next, ShowPrompt, TypeEnter, TypeBackspace, TypeCtrlC,
                TypePrintable, Execute, Clear, OpenPicture, ClosePicture
  <2>2. Good(scr', pc', buf', stuck', prompt')
    BY <1>1, PromptKeepsGood, EnterKeepsGood, BackspaceKeepsGood,
       CtrlCKeepsGood, PrintableKeepsGood, OutputKeepsGood, ClearKeepsGood,
       PictureKeepsGood, CloseKeepsGood DEF Next
  <2>3. Good(scr, pc, buf, stuck, prompt)'
    BY <2>1, <2>2, GoodNext
  <2>4. LineOK'
    BY <1>1, LineStaysOK
  <2>5. (fb \in Framebuffers)'
    BY <2>1 DEF Inv, Framebuffers, NoFrame, gop_init
  <2>6. QED
    BY <2>3, <2>4, <2>5 DEF Inv
<1>2. CASE UNCHANGED vars
  <2>1. /\ fb' = fb /\ scr' = scr /\ pc' = pc /\ buf' = buf
        /\ stuck' = stuck /\ prompt' = prompt
    BY <1>2 DEF vars
  <2>2. Good(scr, pc, buf, stuck, prompt)'
    BY <2>1, GoodNext DEF Inv
  <2>3. LineOK' /\ (fb \in Framebuffers)'
    BY <2>1 DEF Inv, LineOK, max_len, Framebuffers, NoFrame, gop_init
  <2>4. QED
    BY <2>2, <2>3 DEF Inv
<1>3. QED
  BY <1>1, <1>2

LEMMA AlwaysInv == Spec => []Inv
BY InitInv, StepInv, PTL DEF Spec

(***************************************************************************)
(* Part 9.  What follows.                                                  *)
(***************************************************************************)

(* Between two characters the cursor is on a cell of the screen (or, with  *)
(* no screen, in column 0), every pixel of the frame has a content and no  *)
(* other exists, and a line fits its buffer with the zero behind it.       *)
THEOREM TerminalTypeCorrect == Spec => []TypeOK
<1>1. ASSUME Inv PROVE TypeOK
  <2>1. /\ fb \in Framebuffers /\ IsScreen(scr)
        /\ IF fb.base THEN OnScreen(scr) ELSE Dark(scr)
    BY <1>1 DEF Inv, Good, Fine
  <2>2. DOMAIN scr.px = Frame(fb)
    BY <2>1 DEF IsScreen, Screens
  <2>3. LineOK
    BY <1>1, InvFacts
  <2>4. QED
    BY <2>1, <2>2, <2>3 DEF TypeOK, LineOK, Dark
<1>2. QED
  BY <1>1, AlwaysInv, PTL

(* gfxterm_draw_char, gfxterm_scroll, gfxterm_clear and the wallpaper      *)
(* never write outside the framebuffer, for any size, stride, font and     *)
(* picture, whatever is typed and printed.                                 *)
THEOREM FrameIsKept == Spec => []StaysInFrame
<1>1. ASSUME Inv PROVE StaysInFrame
  BY <1>1, InvFacts DEF Fine, StaysInFrame
<1>2. QED
  BY <1>1, AlwaysInv, PTL

LEMMA PlaceOf ==
  ASSUME Usable(fb), NEW x \in 0..(cols - 1), NEW y \in 0..(rows - 1)
  PROVE  LET p == y * cols + x
         IN  p \in Nat /\ p % cols = x /\ p \div cols = y
<1> DEFINE c == cols
           p == y * c + x
           q == p \div c
           r == p % c
<1>1. c \in Nat \ {0} /\ y \in Nat /\ x \in 0..(c - 1)
  BY CellsFit
<1>2. y * c \in Nat
  BY <1>1, Times
<1>3. p \in Nat
  BY <1>1, <1>2
<1> HIDE DEF c
<1>4. q \in Nat /\ r \in 0..(c - 1) /\ p = q * c + r
  <2> HIDE DEF p
  <2>1. QED
    BY <1>1, <1>3, Division
<1> HIDE DEF q, r
<1>5. q = y /\ r = x
  <2>1. y * c + x = q * c + r
    BY <1>4 DEF p
  <2>2. QED
    BY <1>1, <1>4, <2>1, Decode
<1>6. QED
  BY <1>3, <1>5 DEF c, q, r, p

(* After any number of pages, deletions, clearings and pictures the frame  *)
(* is black except for the cells up to the cursor: erasing and scrolling   *)
(* reach every pixel that was drawn, the margins included.                 *)
THEOREM BlackIsKept == Spec => []BlackBehindCursor
<1>1. ASSUME Inv PROVE BlackBehindCursor
  <2> DEFINE end     == IF pc = "prompt" THEN (scr.y + 1) * cols ELSE Cursor
             written == UNION {CellArea(fb, p % cols, p \div cols) :
                                 p \in 0..(end - 1)}
  <2>1. SUFFICES ASSUME fb.base, pc # "picture",
                        NEW i \in DOMAIN scr.px, i \notin written
                 PROVE  scr.px[i] = Black
    BY DEF BlackBehindCursor
  <2>2. Usable(fb) /\ IsScreen(scr) /\ OnScreen(scr)
    BY <1>1, <2>1, InvFacts
  <2>3. InkIn(scr, end)
    BY <1>1, <2>1, InvFacts DEF Inv, Good, LineOK, Cursor, CursorOf, RowInk
  <2>4. i \in Frame(fb)
    BY <2>1, <2>2 DEF IsScreen, Screens
  <2>5. end \in Int
    BY <2>2, CursorFits DEF Cursor, CursorOf
  <2> HIDE DEF end
  <2>6. ASSUME scr.px[i] # Black PROVE FALSE
    <3>1. PICK x \in 0..(cols - 1), y \in 0..(rows - 1) :
            y * cols + x < end /\ i \in CellArea(fb, x, y)
      BY <2>3, <2>4, <2>6 DEF InkIn
    <3> DEFINE p == y * cols + x
    <3>2. p \in Nat /\ p % cols = x /\ p \div cols = y
      BY <2>2, PlaceOf
    <3>3. p < end
      BY <3>1
    <3> HIDE DEF p
    <3>4. p \in 0..(end - 1)
      BY <2>5, <3>2, <3>3
    <3>5. i \in CellArea(fb, p % cols, p \div cols)
      BY <3>1, <3>2
    <3>6. QED
      BY <2>1, <3>4, <3>5
  <2>7. QED
    BY <2>6
<1>2. QED
  BY <1>1, AlwaysInv, PTL

(* What a user reads before the cursor is, pixel by pixel, the prompt and  *)
(* the line that Enter will run: over row ends, over any scrolling, and    *)
(* after deleting, unless a deletion met the start of a row.               *)
THEOREM ScreenIsTheLine == Spec => []ScreenShowsLine
<1>1. ASSUME Inv PROVE ScreenShowsLine
  <2> DEFINE shown == prompt \o buf
  <2>1. SUFFICES ASSUME fb.base, pc = "read", ~stuck,
                        NEW i \in 1..Len(shown), i <= Cursor
                 PROVE  Shows(Cursor - i, shown[Len(shown) + 1 - i])
    BY DEF ScreenShowsLine
  <2>2. TrailIn(scr, Cursor, shown)
    BY <1>1, <2>1 DEF Inv, Good, Cursor, CursorOf
  <2> HIDE DEF shown
  <2> DEFINE p == Cursor - i
             q == p \div cols
             r == p % cols
  <2>3. /\ cols \in Nat \ {0} /\ rows \in Nat \ {0}
        /\ Cursor \in Nat /\ Cursor < rows * cols /\ rows * cols \in Nat
    <3>1. /\ cols \in Nat \ {0} /\ rows \in Nat \ {0}
          /\ CursorOf(scr) \in Nat /\ (scr.y + 1) * cols \in Nat
          /\ CursorOf(scr) < (scr.y + 1) * cols
          /\ (scr.y + 1) * cols <= rows * cols /\ rows * cols \in Nat
      BY <1>1, <2>1, InvFacts, CursorFits
    <3>2. Cursor = CursorOf(scr)
      BY DEF Cursor, CursorOf
    <3>3. QED
      BY <3>1, <3>2
  <2>4. p \in Nat /\ p < rows * cols
    BY <2>1, <2>3
  <2> HIDE DEF p
  <2>5. q \in Nat /\ r \in 0..(cols - 1) /\ p = q * cols + r
    BY <2>3, <2>4, Division
  <2> HIDE DEF q, r
  <2>6. q \in 0..(rows - 1)
    <3>1. q < rows
      BY <2>3, <2>4, <2>5, Below
    <3>2. QED
      BY <2>3, <2>5, <3>1
  <2>7. CellShows(scr, r, q, shown[Len(shown) + 1 - i])
    BY <2>1, <2>2, <2>5, <2>6 DEF TrailIn, p
  <2>8. QED
    BY <2>7 DEF CellShows, Shows, p, q, r
<1>2. QED
  BY <1>1, AlwaysInv, PTL

(***************************************************************************)
(* Part 10.  The tokenizer.  After k characters of a line, argv holds the  *)
(* words that start among them, as far as they have been read.             *)
(***************************************************************************)
IsStart(line, i) == line[i] # Blank /\ (i > 1 => line[i - 1] = Blank)
Starts(line, k) == {i \in 1..k : IsStart(line, i)}
Count(line, k) == Cardinality(Starts(line, k))

WordAt(line, k, t, m, i, e) ==
  /\ i \in Starts(line, k) /\ e \in i..k /\ Count(line, i) = m
  /\ \A q \in i..e : line[q] # Blank
  /\ e < k => line[e + 1] = Blank
  /\ e = k <=> t.open /\ m = Len(t.argv)
  /\ t.argv[m] = SubSeq(line, i, e)

Tokens(line, k, t) ==
  /\ t \in [argv: Seq(Seq(Printable)), open: BOOLEAN]
  /\ Len(t.argv) = IF Count(line, k) < SHELL_MAX_ARGS THEN Count(line, k)
                   ELSE SHELL_MAX_ARGS
  /\ t.open <=> /\ k > 0 /\ line[k] # Blank
                /\ Count(line, k) <= SHELL_MAX_ARGS
  /\ t.open => Len(t.argv) > 0
  /\ \A m \in 1..Len(t.argv) :
       \E i \in 1..k, e \in 1..k : WordAt(line, k, t, m, i, e)

LEMMA CountNext ==
  ASSUME NEW line, NEW k \in Nat
  PROVE  /\ IsFiniteSet(Starts(line, k)) /\ Count(line, k) \in Nat
         /\ k = 0 => Count(line, k) = 0
         /\ IsStart(line, k + 1) =>
              /\ Starts(line, k + 1) = Starts(line, k) \cup {k + 1}
              /\ Count(line, k + 1) = Count(line, k) + 1
         /\ ~IsStart(line, k + 1) =>
              /\ Starts(line, k + 1) = Starts(line, k)
              /\ Count(line, k + 1) = Count(line, k)
<1>1. IsFiniteSet(1..k)
  BY FS_Interval
<1>2. Starts(line, k) \in SUBSET (1..k)
  BY DEF Starts
<1>3. IsFiniteSet(Starts(line, k))
  BY <1>1, <1>2, FS_Subset
<1>4. Count(line, k) \in Nat
  BY <1>3, FS_CardinalityType DEF Count
<1>5. ASSUME k = 0 PROVE Count(line, k) = 0
  <2>1. Starts(line, k) = {}
    BY <1>5 DEF Starts
  <2>2. QED
    BY <2>1, FS_EmptySet DEF Count
<1>6. 1..(k + 1) = (1..k) \cup {k + 1} /\ k + 1 \notin 1..k
  OBVIOUS
<1>7. ASSUME IsStart(line, k + 1)
      PROVE  /\ Starts(line, k + 1) = Starts(line, k) \cup {k + 1}
             /\ Count(line, k + 1) = Count(line, k) + 1
  <2>1. /\ Starts(line, k + 1) = Starts(line, k) \cup {k + 1}
        /\ k + 1 \notin Starts(line, k)
    <3> HIDE DEF IsStart
    <3>1. QED
      BY <1>6, <1>7 DEF Starts
  <2>2. QED
    BY <1>3, <2>1, FS_AddElement DEF Count
<1>8. ASSUME ~IsStart(line, k + 1)
      PROVE  Starts(line, k + 1) = Starts(line, k)
  <2> HIDE DEF IsStart
  <2>1. QED
    BY <1>6, <1>8 DEF Starts
<1>9. QED
  BY <1>3, <1>4, <1>5, <1>7, <1>8 DEF Count

LEMMA CountGrows ==
  ASSUME NEW line, NEW i \in Nat, NEW j \in Nat, i <= j
  PROVE  Count(line, i) <= Count(line, j)
<1>1. Starts(line, i) \in SUBSET Starts(line, j)
  BY DEF Starts
<1>2. QED
  BY <1>1, CountNext, FS_Subset DEF Count

(* No two starts have the same count.                                      *)
LEMMA StartsAreCounted ==
  ASSUME NEW line, NEW i \in Nat \ {0}, NEW j \in Nat \ {0},
         IsStart(line, i), IsStart(line, j)
  PROVE  /\ i < j => Count(line, i) < Count(line, j)
         /\ Count(line, i) = Count(line, j) => i = j
<1>1. ASSUME NEW a \in Nat \ {0}, NEW b \in Nat \ {0},
             IsStart(line, b), a < b
      PROVE  Count(line, a) < Count(line, b)
  <2> DEFINE p == b - 1
  <2>1. p \in Nat /\ b = p + 1 /\ a <= p /\ a \in Nat
    BY <1>1
  <2> HIDE DEF p
  <2>2. Count(line, b) = Count(line, p) + 1
    BY <1>1, <2>1, CountNext
  <2>3. Count(line, a) <= Count(line, p)
    BY <2>1, CountGrows
  <2>4. Count(line, a) \in Nat /\ Count(line, p) \in Nat
    BY <2>1, CountNext
  <2>5. QED
    BY <2>2, <2>3, <2>4
<1>2. Count(line, i) \in Nat /\ Count(line, j) \in Nat
  BY CountNext
<1>3. i < j \/ i = j \/ j < i
  OBVIOUS
<1>4. QED
  BY <1>1, <1>2, <1>3

LEMMA BlankTaken ==
  ASSUME NEW line, NEW k \in Nat, NEW t, Tokens(line, k, t),
         line[k + 1] = Blank
  PROVE  Tokens(line, k + 1, Taken(t, line[k + 1]))
<1> DEFINE u == Taken(t, line[k + 1])
<1>1. /\ u \in [argv: Seq(Seq(Printable)), open: BOOLEAN]
      /\ u.argv = t.argv /\ u.open = FALSE
  BY DEF Taken, Tokens
<1>2. /\ Starts(line, k + 1) = Starts(line, k)
      /\ Count(line, k + 1) = Count(line, k)
  BY CountNext DEF IsStart
<1> HIDE DEF u
<1>3. ASSUME NEW m \in 1..Len(u.argv)
      PROVE  \E i \in 1..(k + 1), e \in 1..(k + 1) :
               WordAt(line, k + 1, u, m, i, e)
  <2>1. PICK i \in 1..k, e \in 1..k : WordAt(line, k, t, m, i, e)
    BY <1>1, <1>3 DEF Tokens
  <2>2. i \in 1..(k + 1) /\ e \in 1..(k + 1) /\ e \in i..(k + 1) /\ e < k + 1
    BY <2>1 DEF WordAt
  <2>3. line[e + 1] = Blank
    BY <2>1 DEF WordAt
  <2>4. WordAt(line, k + 1, u, m, i, e)
    BY <1>1, <1>2, <2>1, <2>2, <2>3 DEF WordAt
  <2>5. QED
    BY <2>2, <2>4
<1>4. QED
  BY <1>1, <1>2, <1>3 DEF Tokens, u

(* A word that is not the one being read has ended.                        *)
LEMMA EndedStays ==
  ASSUME NEW line, NEW k \in Nat, NEW t, NEW u, NEW m, NEW i \in 1..k,
         NEW e \in 1..k, WordAt(line, k, t, m, i, e),
         ~(t.open /\ m = Len(t.argv)), ~(u.open /\ m = Len(u.argv)),
         u.argv[m] = t.argv[m]
  PROVE  WordAt(line, k + 1, u, m, i, e)
<1>1. i \in Starts(line, k + 1)
  BY DEF WordAt, Starts
<1>2. e < k
  BY DEF WordAt
<1>3. QED
  BY <1>1, <1>2 DEF WordAt

LEMMA SubSeqGrows ==
  ASSUME NEW S, NEW line \in Seq(S), NEW i \in Nat \ {0}, NEW k \in Nat,
         i <= k, k < Len(line)
  PROVE  /\ SubSeq(line, i, k) \in Seq(S)
         /\ SubSeq(line, i, k + 1) = Append(SubSeq(line, i, k), line[k + 1])
<1> DEFINE m == k + 1
           a == SubSeq(line, i, k)
           b == SubSeq(line, i, m)
           d == Append(a, line[m])
<1>1. m \in 1..Len(line) /\ m \in Nat /\ m = k + 1 /\ Len(line) \in Nat
  OBVIOUS
<1> HIDE DEF m
<1>2. a \in Seq(S) /\ Len(a) = m - i
      /\ \A j \in 1..(m - i) : a[j] = line[i + j - 1]
  BY <1>1
<1>3. b \in Seq(S) /\ Len(b) = m + 1 - i
      /\ \A j \in 1..(m + 1 - i) : b[j] = line[i + j - 1]
  BY <1>1
<1>4. line[m] \in S
  BY <1>1
<1> HIDE DEF a, b
<1>5. d \in Seq(S) /\ Len(d) = m + 1 - i
      /\ \A j \in 1..(m + 1 - i) : d[j] = line[i + j - 1]
  <2>1. /\ d \in Seq(S) /\ Len(d) = m + 1 - i /\ d[m + 1 - i] = line[m]
        /\ \A j \in 1..(m - i) : d[j] = a[j]
    BY <1>1, <1>2, <1>4
  <2> HIDE DEF d
  <2>2. ASSUME NEW j \in 1..(m + 1 - i) PROVE d[j] = line[i + j - 1]
    <3>1. CASE j \in 1..(m - i)
      BY <1>2, <2>1, <3>1
    <3>2. CASE j = m + 1 - i
      <4>1. i + j - 1 = m
        BY <1>1, <3>2
      <4>2. QED
        BY <2>1, <3>2, <4>1
    <3>3. QED
      BY <1>1, <3>1, <3>2
  <2>3. QED
    BY <2>1, <2>2
<1> HIDE DEF d
<1>6. b = d
  BY <1>3, <1>5
<1>7. QED
  BY <1>2, <1>6 DEF a, b, d, m

LEMMA GrownTaken ==
  ASSUME NEW line \in Seq(Printable), NEW k \in Nat, k < Len(line),
         NEW t, Tokens(line, k, t), line[k + 1] # Blank, t.open
  PROVE  Tokens(line, k + 1, Taken(t, line[k + 1]))
<1> DEFINE c == line[k + 1]
           last == Len(t.argv)
           u == Taken(t, c)
<1>1. /\ t \in [argv: Seq(Seq(Printable)), open: BOOLEAN]
      /\ last \in Nat \ {0} /\ c \in Printable /\ c # Blank
      /\ k > 0 /\ line[k] # Blank /\ Count(line, k) <= SHELL_MAX_ARGS
  BY DEF Tokens
<1>2. /\ u \in [argv: Seq(Seq(Printable)), open: BOOLEAN]
      /\ Len(u.argv) = last /\ u.open = TRUE
      /\ u.argv[last] = Append(t.argv[last], c)
      /\ \A m \in 1..last : m # last => u.argv[m] = t.argv[m]
  <2> DEFINE word == Append(t.argv[last], c)
             argv == [t.argv EXCEPT ![last] = word]
  <2>1. word \in Seq(Printable)
    BY <1>1
  <2>2. /\ argv \in Seq(Seq(Printable)) /\ Len(argv) = last
        /\ argv[last] = word
        /\ \A m \in 1..last : m # last => argv[m] = t.argv[m]
    <3> HIDE DEF word
    <3>1. QED
      BY <1>1, <2>1
  <2>3. u = [t EXCEPT !.argv = argv]
    BY <1>1 DEF Taken
  <2> HIDE DEF argv, u, c
  <2>4. /\ u \in [argv: Seq(Seq(Printable)), open: BOOLEAN]
        /\ u.argv = argv /\ u.open = t.open
    BY <1>1, <2>2, <2>3
  <2>5. QED
    BY <2>2, <2>4
<1>3. /\ Starts(line, k + 1) = Starts(line, k)
      /\ Count(line, k + 1) = Count(line, k)
  <2>1. ~IsStart(line, k + 1)
    BY <1>1 DEF IsStart
  <2>2. QED
    BY <2>1, CountNext
<1> HIDE DEF u
<1>4. ASSUME NEW m \in 1..Len(u.argv)
      PROVE  \E i \in 1..(k + 1), e \in 1..(k + 1) :
               WordAt(line, k + 1, u, m, i, e)
  <2>1. m \in 1..last
    BY <1>2, <1>4
  <2>2. PICK i \in 1..k, e \in 1..k : WordAt(line, k, t, m, i, e)
    BY <2>1 DEF Tokens
  <2>3. CASE m = last
    <3>1. /\ e = k /\ i <= k /\ t.argv[m] = SubSeq(line, i, k)
          /\ Count(line, i) = m /\ i \in Starts(line, k + 1)
          /\ \A q \in i..k : line[q] # Blank
      BY <1>3, <2>2, <2>3 DEF WordAt
    <3>2. u.argv[m] = SubSeq(line, i, k + 1)
      <4>1. SubSeq(line, i, k + 1) = Append(SubSeq(line, i, k), line[k + 1])
        BY SubSeqGrows
      <4>2. u.argv[m] = Append(t.argv[m], line[k + 1])
        BY <1>2, <2>3
      <4>3. QED
        BY <3>1, <4>1, <4>2, Zenon
    <3>3. \A q \in i..(k + 1) : line[q] # Blank
      <4>1. \A q \in i..(k + 1) : q \in i..k \/ q = k + 1
        OBVIOUS
      <4>2. QED
        BY <1>1, <3>1, <4>1
    <3>4. k + 1 \in 1..(k + 1) /\ i \in 1..(k + 1) /\ k + 1 \in i..(k + 1)
      OBVIOUS
    <3>5. WordAt(line, k + 1, u, m, i, k + 1)
      BY <1>2, <2>3, <3>1, <3>2, <3>3, <3>4 DEF WordAt
    <3>6. QED
      BY <3>4, <3>5
  <2>4. CASE m # last
    <3>1. WordAt(line, k + 1, u, m, i, e)
      BY <1>2, <2>1, <2>2, <2>4, EndedStays
    <3>2. QED
      BY <3>1
  <2>5. QED
    BY <2>3, <2>4
<1>5. QED
  BY <1>1, <1>2, <1>3, <1>4 DEF Tokens, u

LEMMA StartedTaken ==
  ASSUME NEW line \in Seq(Printable), NEW k \in Nat, k < Len(line),
         NEW t, Tokens(line, k, t), line[k + 1] # Blank, ~t.open,
         Len(t.argv) < SHELL_MAX_ARGS
  PROVE  Tokens(line, k + 1, Taken(t, line[k + 1]))
<1> DEFINE c == line[k + 1]
           n == Len(t.argv)
           u == Taken(t, c)
<1>1. /\ t \in [argv: Seq(Seq(Printable)), open: BOOLEAN]
      /\ n \in Nat /\ c \in Printable /\ c # Blank
      /\ SHELL_MAX_ARGS \in Nat /\ Count(line, k) \in Nat
  BY TerminalAssumption, CountNext DEF Tokens
<1>2. /\ u \in [argv: Seq(Seq(Printable)), open: BOOLEAN]
      /\ Len(u.argv) = n + 1 /\ u.open = TRUE
      /\ u.argv[n + 1] = <<c>>
      /\ \A m \in 1..n : u.argv[m] = t.argv[m]
  <2> DEFINE argv == Append(t.argv, <<c>>)
  <2>1. u = [argv |-> argv, open |-> TRUE]
    BY <1>1 DEF Taken
  <2> HIDE DEF u, c
  <2>2. <<c>> \in Seq(Printable)
    BY <1>1
  <2>3. /\ argv \in Seq(Seq(Printable)) /\ Len(argv) = n + 1
        /\ argv[n + 1] = <<c>>
        /\ \A m \in 1..n : argv[m] = t.argv[m]
    BY <1>1, <2>2
  <2> HIDE DEF argv
  <2>4. QED
    BY <2>1, <2>3
<1>3. n = Count(line, k)
  BY <1>1 DEF Tokens
<1>4. IsStart(line, k + 1)
  BY <1>1, <1>3 DEF Tokens, IsStart
<1>5. /\ Starts(line, k + 1) = Starts(line, k) \cup {k + 1}
      /\ Count(line, k + 1) = n + 1
  BY <1>3, <1>4, CountNext
<1> HIDE DEF u
<1>6. ASSUME NEW m \in 1..Len(u.argv)
      PROVE  \E i \in 1..(k + 1), e \in 1..(k + 1) :
               WordAt(line, k + 1, u, m, i, e)
  <2>1. CASE m = n + 1
    <3>1. SubSeq(line, k + 1, k + 1) = <<c>>
      <4> DEFINE p == k + 1
                 one == SubSeq(line, p, p)
                 word == <<line[p]>>
      <4>1. p \in 1..Len(line) /\ Len(line) \in Nat
        BY <1>1
      <4> HIDE DEF p
      <4>2. /\ one \in Seq(Printable) /\ Len(one) = 1
            /\ one[1] = line[p]
        BY <4>1
      <4>3. /\ word \in Seq(Printable) /\ Len(word) = 1
            /\ word[1] = line[p]
        BY <4>1
      <4> HIDE DEF one, word
      <4>4. \A j \in 1..1 : one[j] = word[j]
        BY <4>2, <4>3
      <4>5. one = word
        BY <4>2, <4>3, <4>4
      <4>6. QED
        BY <4>5 DEF one, word, p
    <3>2. k + 1 \in 1..(k + 1) /\ k + 1 \in (k + 1)..(k + 1)
      OBVIOUS
    <3>3. \A q \in (k + 1)..(k + 1) : line[q] # Blank
      BY <1>1
    <3>4. /\ k + 1 \in Starts(line, k + 1) /\ Count(line, k + 1) = m
          /\ u.open /\ m = Len(u.argv)
      BY <1>2, <1>5, <2>1
    <3>5. u.argv[m] = SubSeq(line, k + 1, k + 1)
      BY <1>2, <2>1, <3>1
    <3> DEFINE p == k + 1
    <3>6. p \in p..p /\ ~(p < p)
      BY <3>2
    <3> HIDE DEF p
    <3>7. WordAt(line, p, u, m, p, p)
      BY <3>3, <3>4, <3>5, <3>6 DEF WordAt, p
    <3>8. QED
      BY <3>2, <3>7 DEF p
  <2>2. CASE m # n + 1
    <3>1. m \in 1..n
      BY <1>1, <1>2, <1>6, <2>2
    <3>2. PICK i \in 1..k, e \in 1..k : WordAt(line, k, t, m, i, e)
      BY <3>1 DEF Tokens
    <3>3. WordAt(line, k + 1, u, m, i, e)
      BY <1>2, <2>2, <3>1, <3>2, EndedStays
    <3>4. QED
      BY <3>3
  <2>3. QED
    BY <2>1, <2>2
<1>7. QED
  BY <1>1, <1>2, <1>3, <1>5, <1>6 DEF Tokens, u

LEMMA DroppedTaken ==
  ASSUME NEW line \in Seq(Printable), NEW k \in Nat, k < Len(line),
         NEW t, Tokens(line, k, t), line[k + 1] # Blank, ~t.open,
         ~(Len(t.argv) < SHELL_MAX_ARGS)
  PROVE  Tokens(line, k + 1, Taken(t, line[k + 1]))
<1>1. Taken(t, line[k + 1]) = t
  BY DEF Taken
<1>2. /\ SHELL_MAX_ARGS \in Nat /\ Count(line, k) \in Nat
      /\ Len(t.argv) = SHELL_MAX_ARGS /\ Count(line, k) >= SHELL_MAX_ARGS
  BY TerminalAssumption, CountNext DEF Tokens
<1>3. Count(line, k + 1) \in Nat /\ Count(line, k + 1) > SHELL_MAX_ARGS
  <2>1. CASE IsStart(line, k + 1)
    BY <1>2, <2>1, CountNext
  <2>2. CASE ~IsStart(line, k + 1)
    <3>1. k > 0 /\ line[k] # Blank
      BY <2>2 DEF IsStart
    <3>2. Count(line, k) > SHELL_MAX_ARGS
      BY <1>2, <3>1 DEF Tokens
    <3>3. QED
      BY <1>2, <2>2, <3>2, CountNext
  <2>3. QED
    BY <2>1, <2>2
<1>4. ASSUME NEW m \in 1..Len(t.argv)
      PROVE  \E i \in 1..(k + 1), e \in 1..(k + 1) :
               WordAt(line, k + 1, t, m, i, e)
  <2>1. PICK i \in 1..k, e \in 1..k : WordAt(line, k, t, m, i, e)
    BY <1>4 DEF Tokens
  <2>2. WordAt(line, k + 1, t, m, i, e)
    BY <2>1, EndedStays
  <2>3. QED
    BY <2>2
<1>5. Tokens(line, k + 1, t)
  BY <1>2, <1>3, <1>4 DEF Tokens
<1>6. QED
  BY <1>1, <1>5

LEMMA TokensOfLine ==
  ASSUME NEW line \in Seq(Printable)
  PROVE  \E t : Words(line) = t.argv /\ Tokens(line, Len(line), t)
<1> DEFINE s == [argv |-> <<>>, open |-> FALSE]
           n == Len(line)
<1>1. Words(line) = Folded("tok", s, line).argv
  BY DEF Words, Folded, FoldLeft, MapThenFoldSet, Step
<1>2. PICK at : /\ at[0] = s /\ Follows("tok", at, line, n)
                /\ Folded("tok", s, line) = at[n]
  BY FoldHasStates
<1> DEFINE T == {k \in 0..n : Tokens(line, k, at[k])}
<1>3. 0 \in T /\ n \in Nat
  <2>1. s \in [argv: Seq(Seq(Printable)), open: BOOLEAN] /\ Len(s.argv) = 0
    OBVIOUS
  <2>2. Count(line, 0) = 0 /\ SHELL_MAX_ARGS \in Nat \ {0}
    BY CountNext, TerminalAssumption
  <2>3. s.open = FALSE
    OBVIOUS
  <2> HIDE DEF s
  <2>4. Tokens(line, 0, s)
    BY <2>1, <2>2, <2>3 DEF Tokens
  <2>5. QED
    BY <1>2, <2>4
<1>4. ASSUME NEW k \in 0..n, k < n, k \in T PROVE k + 1 \in T
  <2>1. k + 1 \in 1..n /\ (k + 1) - 1 = k /\ k \in Nat
    BY <1>4
  <2>2. at[k + 1] = Taken(at[k], line[k + 1])
    BY <1>2, <2>1 DEF Follows, Step
  <2>3. Tokens(line, k, at[k])
    BY <1>4
  <2>4. Tokens(line, k + 1, at[k + 1])
    BY <1>4, <2>1, <2>2, <2>3, BlankTaken, GrownTaken, StartedTaken,
       DroppedTaken
  <2>5. QED
    BY <2>1, <2>4
<1> HIDE DEF T
<1>5. n \in T
  BY <1>3, <1>4, IntervalInduction
<1>6. QED
  BY <1>1, <1>2, <1>5 DEF T

LEMMA StartsAreWordStarts ==
  ASSUME NEW line \in Seq(Printable)
  PROVE  WordStarts(line) = Starts(line, Len(line))
<1> DEFINE n == Len(line)
<1>0. n \in Nat
  OBVIOUS
<1>1. ASSUME NEW i \in 1..n, NEW j \in i..n, IsWord(line, i, j)
      PROVE  IsStart(line, i)
  BY <1>1 DEF IsWord, IsStart
<1>2. ASSUME NEW i \in 1..n, IsStart(line, i)
      PROVE  \E j \in i..n : IsWord(line, i, j)
  <2> DEFINE S == {q \in i..n : q < n => line[q + 1] = Blank}
  <2>1. S \in SUBSET Nat /\ n \in S
    BY <1>0
  <2>2. PICK j \in S : \A q \in S : j <= q
    <3> HIDE DEF S
    <3>1. QED
      BY <2>1, LeastNumber
  <2>3. ASSUME NEW k \in i..j PROVE line[k] # Blank
    <3>1. CASE k = i
      BY <1>2, <3>1 DEF IsStart
    <3>2. CASE k # i
      <4> DEFINE q == k - 1
      <4>1. /\ q \in i..n /\ q < n /\ q < j /\ k = q + 1
            /\ j \in Nat /\ q \in Nat
        BY <1>0, <2>2, <2>3, <3>2
      <4> HIDE DEF q
      <4>2. q \notin S
        <5> HIDE DEF S
        <5>1. QED
          BY <2>2, <4>1
      <4>3. QED
        BY <4>1, <4>2
    <3>3. QED
      BY <3>1, <3>2
  <2>4. j \in i..n /\ (j < n => line[j + 1] = Blank)
    BY <2>2
  <2>5. IsWord(line, i, j)
    BY <1>2, <2>3, <2>4 DEF IsWord, IsStart
  <2>6. QED
    BY <2>4, <2>5
<1>3. QED
  BY <1>1, <1>2 DEF WordStarts, Starts

LEMMA OneEnd ==
  ASSUME NEW line \in Seq(Printable), NEW i \in 1..Len(line),
         NEW e \in i..Len(line), IsWord(line, i, e)
  PROVE  Word(line, i) = SubSeq(line, i, e)
<1>1. ASSUME NEW a \in i..Len(line), NEW b \in i..Len(line),
             IsWord(line, i, a), IsWord(line, i, b)
      PROVE  ~(a < b)
  <2>1. ASSUME a < b PROVE FALSE
    <3>1. a + 1 \in i..b /\ a < Len(line)
      BY <2>1
    <3>2. QED
      BY <1>1, <3>1 DEF IsWord
  <2>2. QED
    BY <2>1
<1>2. \A j \in i..Len(line) : IsWord(line, i, j) => j = e
  BY <1>1
<1>3. (CHOOSE j \in i..Len(line) : IsWord(line, i, j)) = e
  BY <1>2
<1>4. QED
  BY <1>3 DEF Word

LEMMA NthIs ==
  ASSUME NEW line \in Seq(Printable), NEW i \in Starts(line, Len(line))
  PROVE  Nth(line, Count(line, i)) = i
<1> DEFINE W == WordStarts(line)
<1>1. W = Starts(line, Len(line))
  BY StartsAreWordStarts
<1>2. \A x \in W : x \in Nat \ {0} /\ IsStart(line, x)
  BY <1>1 DEF Starts
<1>3. ASSUME NEW x \in W PROVE {k \in W : k <= x} = Starts(line, x)
  <2>1. x \in 1..Len(line)
    BY <1>1 DEF Starts
  <2>2. QED
    BY <1>1, <2>1 DEF Starts
<1>4. \A x \in W : Cardinality({k \in W : k <= x}) = Count(line, x)
  BY <1>3 DEF Count
<1> HIDE DEF W
<1>5. \A x \in W :
        Cardinality({k \in W : k <= x}) = Count(line, i) <=> x = i
  BY <1>1, <1>2, <1>4, StartsAreCounted
<1>6. (CHOOSE x \in W : Cardinality({k \in W : k <= x}) = Count(line, i)) = i
  BY <1>1, <1>5
<1>7. QED
  BY <1>6 DEF Nth, W

(* The early words are those that begin in the first characters.           *)
LEMMA EarlyIs ==
  ASSUME NEW line \in Seq(Printable), NEW i \in Starts(line, Len(line)),
         Count(line, i) <= EarlyWords(line)
  PROVE  i <= POINTER_SIZE
<1> DEFINE p == Min({POINTER_SIZE, Len(line)})
           head == SubSeq(line, 1, p)
<1>1. /\ POINTER_SIZE \in Nat \ {0} /\ SHELL_MAX_ARGS \in Nat \ {0}
      /\ Len(line) \in Nat
  BY TerminalAssumption
<1>2. p \in Nat /\ p <= POINTER_SIZE /\ p <= Len(line)
  <2>1. CASE POINTER_SIZE <= Len(line)
    <3>1. p = POINTER_SIZE
      BY <1>1, <2>1 DEF Min
    <3>2. QED
      BY <1>1, <2>1, <3>1
  <2>2. CASE ~(POINTER_SIZE <= Len(line))
    <3>1. p = Len(line)
      BY <1>1, <2>2 DEF Min
    <3>2. QED
      BY <1>1, <2>2, <3>1
  <2>3. QED
    BY <2>1, <2>2
<1>3. EarlyWords(line) = Len(Words(head))
  BY DEF EarlyWords
<1> HIDE DEF p
<1>4. /\ head \in Seq(Printable) /\ Len(head) = p
      /\ \A q \in 1..p : head[q] = line[q]
  BY <1>1, <1>2
<1> HIDE DEF head
<1>5. Starts(head, p) = Starts(line, p)
  <2>1. ASSUME NEW q \in 1..p PROVE IsStart(head, q) <=> IsStart(line, q)
    <3>1. q > 1 => q - 1 \in 1..p
      BY <1>2
    <3>2. QED
      BY <1>4, <3>1 DEF IsStart
  <2>2. QED
    BY <2>1 DEF Starts
<1>6. Count(head, p) = Count(line, p) /\ Count(line, p) \in Nat
  BY <1>2, <1>5, CountNext DEF Count
<1>7. PICK t : Words(head) = t.argv /\ Tokens(head, p, t)
  BY <1>4, TokensOfLine
<1>8. EarlyWords(line) <= Count(line, p)
  BY <1>1, <1>3, <1>6, <1>7 DEF Tokens
<1>9. i \in 1..Len(line) /\ IsStart(line, i)
  BY DEF Starts
<1>10. ASSUME p < i PROVE FALSE
  <2> DEFINE b == i - 1
  <2>1. b \in Nat /\ i = b + 1 /\ p <= b
    BY <1>2, <1>9, <1>10
  <2> HIDE DEF b
  <2>2. Count(line, i) = Count(line, b) + 1 /\ Count(line, b) \in Nat
    BY <1>9, <2>1, CountNext
  <2>3. Count(line, p) <= Count(line, b)
    BY <1>2, <2>1, CountGrows
  <2>4. EarlyWords(line) \in Nat
    BY <1>1, <1>3, <1>6, <1>7 DEF Tokens
  <2>5. QED
    BY <1>6, <1>8, <2>2, <2>3, <2>4
<1>11. QED
  BY <1>1, <1>2, <1>9, <1>10

(* Whichever variable of shell.cpp the build puts behind g_argv,           *)
(* shell_tokenize gives a command the words of its line, each whole, in    *)
(* their order, the first SHELL_MAX_ARGS of them, for any line; a word can *)
(* be lost only from a full vector, and only when it begins in the first   *)
(* POINTER_SIZE characters.                                                *)
THEOREM WordsAreTaken == Spec => []ArgsAreWords
<1>1. ASSUME Inv PROVE ArgsAreWords
  <2> DEFINE taken == Words(buf)
             words == Cardinality(WordStarts(buf))
  <2>0. buf \in Seq(Printable)
    BY <1>1, InvFacts DEF LineOK
  <2>1. PICK t : taken = t.argv /\ Tokens(buf, Len(buf), t)
    BY <2>0, TokensOfLine
  <2>2. words = Count(buf, Len(buf)) /\ words \in Nat
    <3>1. words = Count(buf, Len(buf))
      BY <2>0, StartsAreWordStarts DEF Count
    <3> HIDE DEF words
    <3>2. QED
      BY <2>0, <3>1, CountNext
  <2> HIDE DEF taken, words
  <2>3. Len(taken) = IF words < SHELL_MAX_ARGS THEN words
                     ELSE SHELL_MAX_ARGS
    BY <2>1, <2>2 DEF Tokens
  <2>4. ASSUME NEW m \in 1..Len(taken)
        PROVE  /\ taken[m] = Word(buf, Nth(buf, m))
               /\ m <= EarlyWords(buf) => Nth(buf, m) <= POINTER_SIZE
    <3>1. PICK i \in 1..Len(buf), e \in 1..Len(buf) :
            WordAt(buf, Len(buf), t, m, i, e)
      BY <2>1, <2>4 DEF Tokens
    <3>2. /\ i \in Starts(buf, Len(buf)) /\ Count(buf, i) = m
          /\ e \in i..Len(buf) /\ taken[m] = SubSeq(buf, i, e)
      BY <2>1, <3>1 DEF WordAt
    <3>3. IsWord(buf, i, e)
      BY <3>1, <3>2 DEF WordAt, IsWord, Starts, IsStart
    <3>4. Nth(buf, m) = i
      BY <2>0, <3>2, NthIs
    <3>5. Word(buf, i) = SubSeq(buf, i, e)
      BY <2>0, <3>2, <3>3, OneEnd
    <3>6. m <= EarlyWords(buf) => i <= POINTER_SIZE
      BY <2>0, <3>2, EarlyIs
    <3>7. QED
      BY <3>2, <3>4, <3>5, <3>6
  <2>5. ASSUME NEW argv \in shell_tokenize(buf)
        PROVE  /\ Len(argv) = Len(taken)
               /\ \A n \in 1..Len(argv) :
                    \/ argv[n] = Word(buf, Nth(buf, n))
                    \/ /\ argv[n] = <<>> /\ Len(argv) = SHELL_MAX_ARGS
                       /\ Nth(buf, n) <= POINTER_SIZE
    <3>1. CASE argv = taken
      BY <2>4, <3>1
    <3>2. CASE argv # taken
      <4>1. /\ Len(taken) = SHELL_MAX_ARGS
            /\ argv = [n \in 1..SHELL_MAX_ARGS |->
                         IF n <= EarlyWords(buf) THEN <<>> ELSE taken[n]]
        BY <3>2 DEF shell_tokenize, taken
      <4>2. Len(argv) = SHELL_MAX_ARGS
        BY <4>1, TerminalAssumption
      <4>3. QED
        BY <2>4, <4>1, <4>2
    <3>3. QED
      BY <3>1, <3>2
  <2>6. QED
    BY <2>3, <2>5 DEF ArgsAreWords, words
<1>2. QED
  BY <1>1, AlwaysInv, PTL
=============================================================================
