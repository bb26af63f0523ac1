----------------------------- MODULE FatProofs -----------------------------
(***************************************************************************)
(* Theorems about the current directory of module Fat, kept as a string    *)
(* and as a handle, for every set of names, every tree of directories and  *)
(* every path that is typed.                                               *)
(*                                                                         *)
(* The argument: walking a path is a fold over its components, so a walk   *)
(* along s \o t is a walk along s and then one along t.  A command changes *)
(* the string by such a concatenation or by taking off its end, and the    *)
(* handle by a walk along what was typed or along the new string.          *)
(***************************************************************************)
EXTENDS Fat, Integers, WellFoundedInduction, TLAPS

(***************************************************************************)
(* Part 1.  Induction over an interval, with a set of numbers in the place *)
(* of a claim.                                                             *)
(***************************************************************************)
LEMMA LeastNumber ==
  ASSUME NEW T \in SUBSET Nat, T # {}
  PROVE  \E n \in T : \A m \in T : n <= m
<1> DEFINE Less == {p \in Nat \X Nat : p[1] < p[2]}
<1>1. IsWellFoundedOn(Less, Nat)
  BY NatLessThanWellFounded DEF OpToRel
<1>2. \A m, n \in Nat : m < n => <<m, n>> \in Less
  OBVIOUS
<1> HIDE DEF Less
<1>3. PICK n \in T : \A m \in T : ~(<<m, n>> \in Less)
  BY <1>1, WFMin
<1>4. \A m \in T : ~(m < n)
  BY <1>2, <1>3
<1>5. QED
  BY <1>4

LEMMA IntervalInduction ==
  ASSUME NEW j \in Nat, NEW T, 0 \in T,
         \A k \in 0..j : k < j /\ k \in T => k + 1 \in T
  PROVE  \A k \in 0..j : k \in T
<1> SUFFICES ASSUME NEW x \in 0..j, x \notin T PROVE FALSE
  OBVIOUS
<1> DEFINE Bad == {k \in 0..j : k \notin T}
<1>1. Bad \in SUBSET Nat /\ Bad # {}
  OBVIOUS
<1> HIDE DEF Bad
<1>2. PICK n \in Bad : \A m \in Bad : n <= m
  BY <1>1, LeastNumber
<1> USE DEF Bad
<1>3. n \in 0..j /\ n \notin T /\ n # 0
  BY <1>2
<1>4. n - 1 \in 0..j /\ n - 1 \in T /\ n - 1 < j
  BY <1>2, <1>3
<1>5. QED
  BY <1>3, <1>4

(***************************************************************************)
(* Part 2.  Walks in a partition with directories D and nodes N.           *)
(***************************************************************************)
Step(D, N, n, t) ==
  IF Skipped(t) THEN n
  ELSE IF n \notin D THEN NoNode
  ELSE CASE t = "."  -> n
         [] t = ".." -> IF n = Root THEN NoNode ELSE Front(n)
         [] OTHER    -> IF Append(n, t) \in N THEN Append(n, t) ELSE NoNode

Walk(D, N, n, toks) == FoldLeft(LAMBDA m, t : Step(D, N, m, t), n, toks)

Follows(D, N, at, toks, j) ==
  \A i \in 1..j : at[i] = Step(D, N, at[i - 1], toks[i])

IsWalk(D, N, at, n, toks) ==
  at[0] = n /\ Follows(D, N, at, toks, Len(toks))

(* The fold takes the components off from the end.                         *)
FoldBody(D, N, n, toks, g, s) ==
  IF s = {} THEN n ELSE Step(D, N, g[s \ {Max(s)}], toks[Max(s)])

LEMMA MaxIsLast ==
  ASSUME NEW k \in Nat, NEW s \in SUBSET (1..k), k \in s
  PROVE  Max(s) = k
<1>1. \A y \in s : k >= y
  OBVIOUS
<1>2. \A x \in s : (\A y \in s : x >= y) => x = k
  OBVIOUS
<1>3. QED
  BY <1>1, <1>2 DEF Max

LEMMA FoldExists ==
  ASSUME NEW D, NEW N, NEW n, NEW toks, NEW j \in Nat
  PROVE  \E g : g = [s \in SUBSET (1..j) |-> FoldBody(D, N, n, toks, g, s)]
<1> DEFINE Body(g, s) == FoldBody(D, N, n, toks, g, s)
           Has(k) == \E g : g = [s \in SUBSET (1..k) |-> Body(g, s)]
<1>1. Has(0)
  <2> DEFINE g == [s \in SUBSET (1..0) |-> n]
  <2>1. g = [s \in SUBSET (1..0) |-> Body(g, s)]
    BY DEF FoldBody
  <2>2. QED
    BY <2>1
<1>2. ASSUME NEW k \in 0..j, k < j, Has(k) PROVE Has(k + 1)
  <2>1. PICK g : g = [s \in SUBSET (1..k) |-> Body(g, s)]
    BY <1>2
  <2> DEFINE B == SUBSET (1..(k + 1))
             h == [s \in B |->
                    IF k + 1 \in s
                    THEN Step(D, N, g[s \ {k + 1}], toks[k + 1]) ELSE g[s]]
  <2>2. \A s \in SUBSET (1..k) : s \in B /\ k + 1 \notin s /\ h[s] = g[s]
    OBVIOUS
  <2>3. ASSUME NEW s \in B PROVE h[s] = Body(h, s)
    <3>1. CASE k + 1 \in s
      <4>1. Max(s) = k + 1
        BY <3>1, MaxIsLast
      <4>2. s \ {k + 1} \in SUBSET (1..k)
        OBVIOUS
      <4>3. h[s \ {k + 1}] = g[s \ {k + 1}]
        BY <4>2, <2>2
      <4>4. h[s] = Step(D, N, g[s \ {k + 1}], toks[k + 1])
        BY <3>1
      <4>5. QED
        BY <3>1, <4>1, <4>3, <4>4 DEF FoldBody
    <3>2. CASE k + 1 \notin s
      <4>1. s \in SUBSET (1..k)
        BY <3>2
      <4>2. h[s] = Body(g, s)
        BY <4>1, <2>1, <2>2
      <4>3. s \ {Max(s)} \in SUBSET (1..k)
        BY <4>1
      <4>4. h[s \ {Max(s)}] = g[s \ {Max(s)}]
        BY <4>3, <2>2
      <4>5. QED
        BY <4>2, <4>4 DEF FoldBody
    <3>3. QED
      BY <3>1, <3>2
  <2>4. h = [s \in B |-> Body(h, s)]
    <3> HIDE DEF Body
    <3>1. h = [s \in B |-> h[s]]
      OBVIOUS
    <3> HIDE DEF h
    <3>2. QED
      BY <3>1, <2>3
  <2>5. QED
    BY <2>4
<1> HIDE DEF Has
<1> DEFINE T == {k \in 0..j : Has(k)}
<1>3. 0 \in T /\ \A k \in 0..j : k < j /\ k \in T => k + 1 \in T
  BY <1>1, <1>2
<1> HIDE DEF T
<1>4. j \in T
  BY <1>3, IntervalInduction
<1>5. Has(j)
  BY <1>4 DEF T
<1>6. QED
  BY <1>5 DEF Has

(* A walk passes the places a fold computes, one for each component.       *)
LEMMA WalkExists ==
  ASSUME NEW D, NEW N, NEW n, NEW S, NEW toks \in Seq(S)
  PROVE  \E at : /\ IsWalk(D, N, at, n, toks)
                 /\ Walk(D, N, n, toks) = at[Len(toks)]
<1> DEFINE j == Len(toks)
           iter == CHOOSE g : g = [s \in SUBSET (1..j) |->
                                     FoldBody(D, N, n, toks, g, s)]
<1>1. j \in Nat /\ DOMAIN toks = 1..j
  OBVIOUS
<1>2. Walk(D, N, n, toks) = iter[1..j]
  BY <1>1 DEF Walk, FoldLeft, MapThenFoldSet, FoldBody
<1>3. iter = [s \in SUBSET (1..j) |-> FoldBody(D, N, n, toks, iter, s)]
  BY <1>1, FoldExists
<1> DEFINE at == [i \in 0..j |-> iter[1..i]]
<1> HIDE DEF iter
<1>4. at[0] = n
  BY <1>3, <1>1 DEF FoldBody
<1>5. ASSUME NEW i \in 1..j PROVE at[i] = Step(D, N, at[i - 1], toks[i])
  <2>1. Max(1..i) = i
    BY <1>1, MaxIsLast
  <2>2. (1..i) \ {i} = 1..(i - 1)
    BY <1>1
  <2>3. (1..i) \in SUBSET (1..j) /\ (1..i) # {}
    <3>1. i \in 1..i /\ \A k \in 1..i : k \in 1..j
      BY <1>1
    <3>2. QED
      BY <3>1
  <2>4. iter[1..i] = Step(D, N, iter[1..(i - 1)], toks[i])
    BY <1>3, <2>1, <2>2, <2>3 DEF FoldBody
  <2>5. QED
    BY <2>4, <1>1
<1>6. at[j] = iter[1..j]
  BY <1>1
<1>7. IsWalk(D, N, at, n, toks)
  <2> HIDE DEF at
  <2>1. QED
    BY <1>4, <1>5 DEF IsWalk, Follows
<1>8. QED
  BY <1>2, <1>6, <1>7

LEMMA WalkIsUnique ==
  ASSUME NEW D, NEW N, NEW toks, NEW at, NEW bt, NEW j \in Nat,
         Follows(D, N, at, toks, j), Follows(D, N, bt, toks, j),
         at[0] = bt[0]
  PROVE  at[j] = bt[j]
<1> DEFINE T == {i \in 0..j : at[i] = bt[i]}
<1>1. ASSUME NEW k \in 0..j, k < j, k \in T PROVE k + 1 \in T
  <2>1. k + 1 \in 1..j /\ (k + 1) - 1 = k
    BY <1>1
  <2>2. QED
    BY <1>1, <2>1 DEF Follows
<1>2. 0 \in T
  OBVIOUS
<1> HIDE DEF T
<1>3. j \in T
  <2>1. j \in 0..j
    OBVIOUS
  <2>2. QED
    BY <1>1, <1>2, <2>1, IntervalInduction
<1>4. QED
  BY <1>3 DEF T

(* The recursive laws of walks, on which all that follows rests.           *)
LEMMA WalkNowhere ==
  ASSUME NEW D, NEW N, NEW n
  PROVE  Walk(D, N, n, <<>>) = n
<1>1. <<>> \in Seq({}) /\ Len(<<>>) = 0
  OBVIOUS
<1>2. PICK at : IsWalk(D, N, at, n, <<>>) /\ Walk(D, N, n, <<>>) = at[0]
  BY <1>1, WalkExists
<1>3. QED
  BY <1>2 DEF IsWalk, Follows

LEMMA WalkConcat ==
  ASSUME NEW D, NEW N, NEW n, NEW S, NEW s \in Seq(S), NEW t \in Seq(S)
  PROVE  Walk(D, N, n, s \o t) = Walk(D, N, Walk(D, N, n, s), t)
<1>1. PICK at : /\ IsWalk(D, N, at, n, s \o t)
                /\ Walk(D, N, n, s \o t) = at[Len(s \o t)]
  <2>1. s \o t \in Seq(S)
    OBVIOUS
  <2>2. QED
    BY <2>1, WalkExists
<1>2. PICK bt : /\ IsWalk(D, N, bt, n, s)
                /\ Walk(D, N, n, s) = bt[Len(s)]
  BY WalkExists
<1>3. PICK ct : /\ IsWalk(D, N, ct, bt[Len(s)], t)
                /\ Walk(D, N, bt[Len(s)], t) = ct[Len(t)]
  BY WalkExists
<1>4. /\ Len(s) \in Nat /\ Len(t) \in Nat
      /\ Len(s \o t) = Len(s) + Len(t)
      /\ \A i \in 1..Len(s) : (s \o t)[i] = s[i]
      /\ \A i \in 1..Len(t) : (s \o t)[Len(s) + i] = t[i]
  OBVIOUS
<1>5. at[Len(s)] = bt[Len(s)]
  <2>1. Follows(D, N, at, s, Len(s))
    BY <1>1, <1>4 DEF IsWalk, Follows
  <2>2. Follows(D, N, bt, s, Len(s))
    BY <1>2 DEF IsWalk, Follows
  <2>3. at[0] = bt[0] /\ Len(s) \in Nat
    BY <1>1, <1>2, <1>4 DEF IsWalk, Follows
  <2>4. QED
    BY <2>1, <2>2, <2>3, WalkIsUnique
<1> DEFINE dt == [i \in 0..Len(t) |-> at[Len(s) + i]]
<1>6. Follows(D, N, dt, t, Len(t))
  <2> SUFFICES ASSUME NEW i \in 1..Len(t)
               PROVE  dt[i] = Step(D, N, dt[i - 1], t[i])
    BY DEF Follows
  <2>1. Len(s) + i \in 1..Len(s \o t) /\ (Len(s) + i) - 1 = Len(s) + (i - 1)
    BY <1>4
  <2>2. at[Len(s) + i] = Step(D, N, at[Len(s) + (i - 1)], t[i])
    BY <1>1, <1>4, <2>1 DEF IsWalk, Follows
  <2>3. i \in 0..Len(t) /\ i - 1 \in 0..Len(t)
    BY <1>4
  <2>4. QED
    BY <2>2, <2>3
<1>7. dt[0] = at[Len(s)] /\ dt[Len(t)] = at[Len(s \o t)]
  BY <1>4
<1> HIDE DEF dt
<1>8. dt[Len(t)] = ct[Len(t)]
  <2>1. Follows(D, N, ct, t, Len(t))
    BY <1>3 DEF IsWalk, Follows
  <2>2. dt[0] = ct[0] /\ Len(t) \in Nat
    BY <1>3, <1>4, <1>5, <1>7 DEF IsWalk, Follows
  <2>3. QED
    BY <1>6, <2>1, <2>2, WalkIsUnique
<1>9. QED
  BY <1>1, <1>2, <1>3, <1>7, <1>8

LEMMA WalkOne ==
  ASSUME NEW D, NEW N, NEW n, NEW S, NEW b \in Seq(S), Len(b) = 1
  PROVE  Walk(D, N, n, b) = Step(D, N, n, b[1])
<1>1. PICK at : IsWalk(D, N, at, n, b) /\ Walk(D, N, n, b) = at[1]
  BY WalkExists
<1>2. QED
  BY <1>1 DEF IsWalk, Follows

LEMMA WalkSkipped ==
  ASSUME NEW D, NEW N, NEW n, NEW S, NEW toks \in Seq(S),
         \A i \in 1..Len(toks) : Skipped(toks[i])
  PROVE  Walk(D, N, n, toks) = n
<1>1. PICK at : /\ IsWalk(D, N, at, n, toks)
                /\ Walk(D, N, n, toks) = at[Len(toks)]
  BY WalkExists
<1> DEFINE T == {i \in 0..Len(toks) : at[i] = n}
<1>2. ASSUME NEW k \in 0..Len(toks), k < Len(toks), k \in T PROVE k + 1 \in T
  <2>1. k + 1 \in 1..Len(toks) /\ (k + 1) - 1 = k
    BY <1>2
  <2>2. QED
    BY <1>1, <1>2, <2>1 DEF IsWalk, Follows, Step
<1>3. 0 \in T /\ Len(toks) \in Nat
  BY <1>1 DEF IsWalk, Follows
<1> HIDE DEF T
<1>4. Len(toks) \in T
  <2>1. Len(toks) \in 0..Len(toks)
    BY <1>3
  <2>2. QED
    BY <1>2, <1>3, <2>1, IntervalInduction
<1>5. QED
  BY <1>1, <1>4 DEF T

(* A walk ends at a node or nowhere.                                       *)
IsTree(D, N) ==
  /\ D \subseteq N /\ N \subseteq Seq(Names) /\ Root \in D
  /\ \A n \in N \ {Root} : Front(n) \in D

LEMMA WalkEndsAtNode ==
  ASSUME NEW D, NEW N, IsTree(D, N), NEW n \in N,
         NEW S, NEW toks \in Seq(S)
  PROVE  Walk(D, N, n, toks) \in N \cup {NoNode}
<1>1. PICK at : /\ IsWalk(D, N, at, n, toks)
                /\ Walk(D, N, n, toks) = at[Len(toks)]
  BY WalkExists
<1> DEFINE T == {i \in 0..Len(toks) : at[i] \in N \cup {NoNode}}
<1>2. ASSUME NEW k \in 0..Len(toks), k < Len(toks), k \in T PROVE k + 1 \in T
  <2>1. k + 1 \in 1..Len(toks) /\ (k + 1) - 1 = k
    BY <1>2
  <2>2. at[k + 1] = Step(D, N, at[k], toks[k + 1])
    BY <1>1, <2>1 DEF IsWalk, Follows
  <2>3. at[k + 1] \in N \cup {NoNode}
    BY <1>2, <2>2 DEF Step, IsTree
  <2>4. QED
    BY <2>1, <2>3
<1>3. 0 \in T /\ Len(toks) \in Nat
  BY <1>1 DEF IsWalk, Follows
<1> HIDE DEF T
<1>4. Len(toks) \in T
  <2>1. Len(toks) \in 0..Len(toks)
    BY <1>3
  <2>2. QED
    BY <1>2, <1>3, <2>1, IntervalInduction
<1>5. QED
  BY <1>1, <1>4 DEF T

LEMMA NoNodeIsNone == \A s \in Seq(Names) : s # NoNode
<1> SUFFICES ASSUME NoNode \in Seq(Names) PROVE FALSE
  OBVIOUS
<1>1. Len(NoNode) = 1 /\ NoNode[1] = "no such node"
  BY DEF NoNode
<1>2. NoNode[1] \in Names
  <2>1. \A s \in Seq(Names) : Len(s) = 1 => s[1] \in Names
    <3> TAKE s \in Seq(Names)
    <3>1. s \in [1..Len(s) -> Names]
      OBVIOUS
    <3>2. QED
      BY <3>1
  <2>2. QED
    BY <1>1, <2>1
<1>3. QED
  BY <1>1, <1>2, FatAssumption

(* New directories are in no walk's way.                                   *)
LEMMA WalkStays ==
  ASSUME NEW D, NEW N, NEW E, NEW M, D \subseteq E, N \subseteq M,
         NoNode \notin E, NEW n, NEW S, NEW toks \in Seq(S),
         Walk(D, N, n, toks) # NoNode
  PROVE  Walk(E, M, n, toks) = Walk(D, N, n, toks)
<1>1. PICK at : /\ IsWalk(D, N, at, n, toks)
                /\ Walk(D, N, n, toks) = at[Len(toks)]
  BY WalkExists
<1>2. PICK bt : /\ IsWalk(E, M, bt, n, toks)
                /\ Walk(E, M, n, toks) = bt[Len(toks)]
  BY WalkExists
<1> DEFINE T == {i \in 0..Len(toks) : at[i] = NoNode \/ at[i] = bt[i]}
<1>3. ASSUME NEW k \in 0..Len(toks), k < Len(toks), k \in T PROVE k + 1 \in T
  <2>1. k + 1 \in 1..Len(toks) /\ (k + 1) - 1 = k
    BY <1>3
  <2>2. /\ at[k + 1] = Step(D, N, at[k], toks[k + 1])
        /\ bt[k + 1] = Step(E, M, bt[k], toks[k + 1])
    BY <1>1, <1>2, <2>1 DEF IsWalk, Follows
  <2>3. at[k + 1] = NoNode \/ at[k + 1] = bt[k + 1]
    BY <1>3, <2>2 DEF Step
  <2>4. QED
    BY <2>1, <2>3
<1>4. 0 \in T /\ Len(toks) \in Nat
  BY <1>1, <1>2 DEF IsWalk, Follows
<1> HIDE DEF T
<1>5. Len(toks) \in T
  <2>1. Len(toks) \in 0..Len(toks)
    BY <1>4
  <2>2. QED
    BY <1>3, <1>4, <2>1, IntervalInduction
<1>6. QED
  BY <1>1, <1>2, <1>5 DEF T

(***************************************************************************)
(* Part 3.  The invariant.                                                 *)
(***************************************************************************)
Inv == TypeOK /\ PromptTellsWhere

LEMMA NodesAreTree == ASSUME TypeOK PROVE IsTree(dirs, Nodes)
BY DEF TypeOK, IsTree, Nodes

LEMMA WalkedIsWalk ==
  ASSUME NEW n, NEW toks
  PROVE  Walked(n, toks) = Walk(dirs, Nodes, n, toks)
BY DEF Walked, Walk, FoldLeft, MapThenFoldSet, Step, Opened

LEMMA PromptIsWalk ==
  /\ PromptTellsWhere <=> (~astray => Walk(dirs, Nodes, Root, cwd) = Here)
  /\ PromptTellsWhere' <=>
       (~astray' => Walk(dirs', Nodes', Root, cwd') = Here')
<1>1. Walked(Root, cwd) = Walk(dirs, Nodes, Root, cwd)
  BY WalkedIsWalk
<1>2. Walked(Root, cwd)' = Walk(dirs', Nodes', Root, cwd')
  BY DEF Walked, Walk, FoldLeft, MapThenFoldSet, Step, Opened, Nodes
<1>3. QED
  BY <1>1, <1>2 DEF PromptTellsWhere

PromptToks == Toks \cup {Cut}

LEMMA FrontAndLast ==
  ASSUME NEW S, NEW s \in Seq(S), s # <<>>
  PROVE  /\ Front(s) \in Seq(S) /\ Len(Front(s)) = Len(s) - 1
         /\ <<Last(s)>> \in Seq(S) /\ Last(s) \in S
         /\ s = Front(s) \o <<Last(s)>>
         /\ \A i \in 1..(Len(s) - 1) : Front(s)[i] = s[i]
BY DEF Front, Last

LEMMA FrontOfAppend ==
  ASSUME NEW S, NEW s \in Seq(S), NEW e
  PROVE  /\ Front(Append(s, e)) = s
         /\ Append(s, e) # <<>>
<1>1. /\ Len(Append(s, e)) = Len(s) + 1
      /\ \A i \in 1..Len(s) : Append(s, e)[i] = s[i]
  OBVIOUS
<1>2. QED
  BY <1>1 DEF Front

LEMMA MaxTokensIsPositive == MAX_TOKENS \in Nat \ {0}
BY FatAssumption

LEMMA PathIsSeq ==
  \A path : path \in Paths <=>
    path \in Seq(PromptToks) /\ Len(path) <= MAX_TOKENS
<1>1. MAX_TOKENS \in Nat
  BY MaxTokensIsPositive
<1>2. QED
  BY <1>1 DEF Paths, PromptToks

(* A trailing slash leads nowhere else.                                    *)
LEMMA WalkPastSkipped ==
  ASSUME NEW D, NEW N, NEW n, NEW S, NEW a \in Seq(S), NEW b \in Seq(S),
         \A i \in 1..Len(b) : Skipped(b[i])
  PROVE  Walk(D, N, n, a \o b) = Walk(D, N, n, a)
<1>1. Walk(D, N, n, a \o b) = Walk(D, N, Walk(D, N, n, a), b)
  BY WalkConcat
<1>2. Walk(D, N, Walk(D, N, n, a), b) = Walk(D, N, n, a)
  BY WalkSkipped
<1>3. QED
  BY <1>1, <1>2

LEMMA WalkTrailingSlash ==
  ASSUME NEW D, NEW N, NEW n, NEW S, NEW path \in Seq(S),
         path # <<>>, Skipped(Last(path))
  PROVE  Walk(D, N, n, Front(path)) = Walk(D, N, n, path)
<1> DEFINE a == Front(path)
           b == <<Last(path)>>
<1>1. a \in Seq(S) /\ b \in Seq(S) /\ path = a \o b
  BY FrontAndLast
<1>2. \A i \in 1..Len(b) : Skipped(b[i])
  OBVIOUS
<1> HIDE DEF a, b
<1>3. Walk(D, N, n, a \o b) = Walk(D, N, n, a)
  BY <1>1, <1>2, WalkPastSkipped
<1>4. QED
  BY <1>1, <1>3 DEF a

LEMMA WalkJoined ==
  ASSUME NEW D, NEW N, NEW n, NEW S, NEW base \in Seq(S), NEW toks \in Seq(S)
  PROVE  /\ Joined(base, toks) \in Seq(S)
         /\ Walk(D, N, n, Joined(base, toks))
              = Walk(D, N, Walk(D, N, n, base), toks)
<1>1. CASE base # <<>> /\ Last(base) = ""
  <2>1. Joined(base, toks) = Front(base) \o toks /\ Front(base) \in Seq(S)
    BY <1>1, FrontAndLast DEF Joined
  <2>2. Walk(D, N, n, Front(base) \o toks)
          = Walk(D, N, Walk(D, N, n, Front(base)), toks)
    BY <2>1, WalkConcat
  <2>3. Walk(D, N, n, Front(base)) = Walk(D, N, n, base)
    BY <1>1, WalkTrailingSlash DEF Skipped
  <2>4. Front(base) \o toks \in Seq(S)
    BY <2>1
  <2>5. QED
    BY <2>1, <2>2, <2>3, <2>4
<1>2. CASE ~(base # <<>> /\ Last(base) = "")
  <2>1. Joined(base, toks) = base \o toks
    BY <1>2 DEF Joined
  <2>2. Walk(D, N, n, base \o toks) = Walk(D, N, Walk(D, N, n, base), toks)
    BY WalkConcat
  <2>3. base \o toks \in Seq(S)
    OBVIOUS
  <2>4. QED
    BY <2>1, <2>2, <2>3
<1>3. QED
  BY <1>1, <1>2

LEMMA KeptIsPath ==
  ASSUME NEW path \in Seq(PromptToks), NEW k \in Kept(path)
  PROVE  k \in Paths
<1>1. MAX_TOKENS \in Nat \ {0} /\ Cut \in PromptToks
  BY MaxTokensIsPositive DEF PromptToks
<1>2. CASE Len(path) <= MAX_TOKENS
  <2>1. k = path
    BY <1>2 DEF Kept
  <2>2. QED
    BY <1>2, <2>1, PathIsSeq
<1>3. CASE Len(path) > MAX_TOKENS
  <2>1. /\ SubSeq(path, 1, MAX_TOKENS) \in Seq(PromptToks)
        /\ Len(SubSeq(path, 1, MAX_TOKENS)) = MAX_TOKENS
    BY <1>1, <1>3
  <2> DEFINE a == SubSeq(path, 1, MAX_TOKENS - 1)
             b == a \o <<Cut>>
  <2>2. a \in Seq(PromptToks) /\ Len(a) = MAX_TOKENS - 1
    BY <1>1, <1>3
  <2> HIDE DEF a
  <2>3. b \in Seq(PromptToks) /\ Len(b) = MAX_TOKENS
    BY <1>1, <2>2
  <2>4. k = SubSeq(path, 1, MAX_TOKENS) \/ k = b
    BY <1>1, <1>3 DEF Kept, a
  <2> HIDE DEF b
  <2>5. QED
    BY <1>1, <2>1, <2>3, <2>4, PathIsSeq
<1>4. QED
  BY <1>1, <1>2, <1>3

(* A path that opens nothing leads to where it starts, and what an open    *)
(* finds is where the walk ends.                                           *)
LEMMA OpenedIsWalk ==
  ASSUME TypeOK, NEW p, p.toks \in Seq(PromptToks),
         NEW n \in Results(p), n # NoNode
  PROVE  /\ n = Walk(dirs, Nodes, NodeOf(Start(p)), p.toks)
         /\ n \in Nodes
         /\ ~Fresh(p) => n = NodeOf(Start(p))
<1>1. n = Walk(dirs, Nodes, NodeOf(Start(p)), p.toks)
  BY WalkedIsWalk DEF Results
<1>2. NodeOf(Start(p)) \in Nodes /\ IsTree(dirs, Nodes)
  BY NodesAreTree DEF TypeOK, NodeOf, Start, Nodes
<1>3. n \in Nodes
  BY <1>1, <1>2, WalkEndsAtNode
<1>4. ASSUME ~Fresh(p) PROVE n = NodeOf(Start(p))
  <2>1. \A i \in 1..Len(p.toks) : Skipped(p.toks[i])
    BY <1>4 DEF Fresh
  <2>2. QED
    BY <1>1, <2>1, WalkSkipped
<1>5. QED
  BY <1>1, <1>3, <1>4

(* The last component is the last step of a walk.                          *)
LEMMA WalkLast ==
  ASSUME NEW D, NEW N, NEW n, NEW S, NEW path \in Seq(S), path # <<>>
  PROVE  Walk(D, N, n, path)
           = Step(D, N, Walk(D, N, n, Front(path)), Last(path))
<1> DEFINE a == Front(path)
           b == <<Last(path)>>
<1>1. a \in Seq(S) /\ b \in Seq(S) /\ path = a \o b
  BY FrontAndLast
<1>2. Len(b) = 1 /\ b[1] = Last(path)
  OBVIOUS
<1> HIDE DEF a, b
<1>3. Walk(D, N, n, a \o b) = Walk(D, N, Walk(D, N, n, a), b)
  BY <1>1, WalkConcat
<1>4. Walk(D, N, Walk(D, N, n, a), b)
        = Step(D, N, Walk(D, N, n, a), Last(path))
  BY <1>1, <1>2, WalkOne
<1>5. QED
  BY <1>1, <1>3, <1>4 DEF a

(***************************************************************************)
(* Part 4.  Every command keeps the invariant.                             *)
(***************************************************************************)
LEMMA TypedToks ==
  \A p \in TypedPaths \cup {NoPath} :
    p.toks \in Seq(Toks) /\ p.toks \in Seq(PromptToks)
<1>1. \A s \in Seq(Toks) : s \in Seq(PromptToks)
  BY DEF PromptToks
<1>2. \A p \in TypedPaths \cup {NoPath} : p.toks \in Seq(Toks)
  <2>1. NoPath.toks = <<>> /\ <<>> \in Seq(Toks)
    BY DEF NoPath
  <2>2. \A p \in TypedPaths : p.toks \in Seq(Toks)
    BY FatAssumption
  <2>3. QED
    BY <2>1, <2>2
<1>3. QED
  BY <1>1, <1>2

Kids(N, n) == {m \in N : m # Root /\ Front(m) = n}

LEMMA InitInv == Init => Inv
<1> SUFFICES ASSUME Init PROVE Inv
  OBVIOUS
<1>1. TypeOK
  <2>1. cwd \in Paths
    <3>1. cwd \in Seq(PromptToks) /\ Len(cwd) = 0
      BY DEF Init
    <3>2. 0 <= MAX_TOKENS
      BY MaxTokensIsPositive
    <3>3. QED
      BY <3>1, <3>2, PathIsSeq
  <2>2. Root \in Nodes
    BY FatAssumption DEF Init, Nodes
  <2>3. QED
    BY <2>1, <2>2, FatAssumption DEF Init, TypeOK, Nodes, Handles
<1>2. PromptTellsWhere
  BY PromptIsWalk, WalkNowhere DEF Init, Here, NodeOf, Root
<1>3. QED
  BY <1>1, <1>2 DEF Inv

LEMMA LsKeeps ==
  ASSUME Inv, NEW p \in TypedPaths \cup {NoPath}, Ls(p)
  PROVE  Inv'
<1>1. /\ UNCHANGED <<dirs, files, cwd, pwd, own, astray>>
      /\ Nodes' = Nodes /\ Here' = Here
      /\ \A n : Children(n)' = Children(n)
      /\ \A h : NodeOf(h)' = NodeOf(h)
  BY DEF Ls, Nodes, Here, NodeOf, Children
<1>2. /\ seen' \in [Handles -> SUBSET Nodes]
      /\ \A h \in Handles : seen'[h] \subseteq Children(NodeOf(h))
  <2>1. PICK n \in Results(p) :
          \/ seen' = seen
          \/ /\ n \in dirs /\ ~Fresh(p)
             /\ seen' = [seen EXCEPT ![Start(p)] = Children(n)]
    BY DEF Ls
  <2>2. CASE n \in dirs /\ ~Fresh(p)
    <3>1. n # NoNode
      BY <2>2, NoNodeIsNone DEF Inv, TypeOK, Nodes
    <3>2. n = NodeOf(Start(p))
      BY <2>2, <3>1, TypedToks, OpenedIsWalk DEF Inv
    <3>3. Start(p) \in Handles /\ Children(n) \subseteq Nodes
      BY DEF Inv, TypeOK, Start, Handles, Children
    <3>4. QED
      BY <2>1, <3>2, <3>3 DEF Inv, TypeOK
  <2>3. QED
    BY <2>1, <2>2 DEF Inv, TypeOK
<1>3. TypeOK'
  BY <1>1, <1>2 DEF Inv, TypeOK
<1>4. PromptTellsWhere'
  BY <1>1, PromptIsWalk DEF Inv
<1>5. QED
  BY <1>3, <1>4 DEF Inv

LEMMA MkDirKeeps ==
  ASSUME Inv, NEW name \in Names, MkDir(name)
  PROVE  Inv'
<1> DEFINE e == Append(Here, name)
<1>1. /\ dirs' = dirs \cup {e} /\ Nodes' = Nodes \cup {e}
      /\ UNCHANGED <<files, cwd, pwd, own, seen, astray>>
      /\ Here \in dirs /\ e \notin files
  BY DEF MkDir, Nodes
<1>2. /\ Here \in Seq(Names) /\ e \in Seq(Names)
      /\ Front(e) = Here
  <2>1. Here \in Seq(Names)
    BY <1>1 DEF Inv, TypeOK, Nodes
  <2>2. QED
    BY <2>1, FrontOfAppend
<1>3. Here' = Here /\ \A h : NodeOf(h)' = NodeOf(h)
  BY <1>1 DEF Here, NodeOf
<1> HIDE DEF e
<1>4. TypeOK'
  <2>1. \A n : Kids(Nodes, n) \subseteq Kids(Nodes', n)
    BY <1>1 DEF Kids
  <2>2. /\ Nodes' \subseteq Seq(Names) /\ dirs' \cap files' = {}
        /\ Root \in dirs' /\ \A n \in Nodes' \ {Root} : Front(n) \in dirs'
    BY <1>1, <1>2 DEF Inv, TypeOK
  <2>3. /\ cwd' \in Paths /\ pwd' \in Handles /\ own' \in Nodes'
        /\ astray' \in BOOLEAN
    BY <1>1 DEF Inv, TypeOK
  <2>4. seen' \in [Handles -> SUBSET Nodes']
    BY <1>1 DEF Inv, TypeOK
  <2>5. \A h \in Handles :
          seen'[h] \subseteq Kids(Nodes', IF h = "root" THEN Root ELSE own')
    BY <1>1, <2>1 DEF Inv, TypeOK, Children, NodeOf, Kids
  <2>6. QED
    BY <2>2, <2>3, <2>4, <2>5 DEF TypeOK, Children, NodeOf, Kids
<1>5. PromptTellsWhere'
  <2>1. SUFFICES ASSUME ~astray PROVE Walk(dirs', Nodes', Root, cwd') = Here'
    BY <1>1, PromptIsWalk
  <2>2. Walk(dirs, Nodes, Root, cwd) = Here
    BY <2>1, PromptIsWalk DEF Inv
  <2>3. Here # NoNode /\ NoNode \notin dirs'
    BY <1>1, <1>2, NoNodeIsNone DEF Inv, TypeOK, Nodes
  <2>4. cwd \in Seq(PromptToks)
    BY PathIsSeq DEF Inv, TypeOK
  <2>5. Walk(dirs', Nodes', Root, cwd) = Walk(dirs, Nodes, Root, cwd)
    <3>1. dirs \subseteq dirs' /\ Nodes \subseteq Nodes'
      BY <1>1
    <3>2. QED
      BY <2>2, <2>3, <2>4, <3>1, WalkStays
  <2>6. QED
    BY <1>1, <1>3, <2>2, <2>5
<1>6. QED
  BY <1>4, <1>5 DEF Inv

LEMMA CdKeeps ==
  ASSUME Inv, NEW p \in TypedPaths, Cd(p)
  PROVE  Inv'
<1>1. /\ UNCHANGED <<dirs, files>> /\ Nodes' = Nodes
      /\ p.toks \in Seq(PromptToks)
  BY TypedToks DEF Cd, Nodes
<1>2. PICK n \in Results(p) \ {NoNode} :
        /\ \/ /\ Fresh(p) /\ pwd' = "own" /\ own' = n
              /\ \E s \in SUBSET Children(n) :
                   seen' = [seen EXCEPT !["own"] = s]
           \/ /\ ~Fresh(p) /\ pwd' = Start(p) /\ own' = own
              /\ \E s \in Touched(Start(p), n) :
                   seen' = [seen EXCEPT ![Start(p)] = s]
        /\ cwd' \in Kept(NewCwd(p))
        /\ astray' = ((astray /\ ~p.abs) \/ cwd' # NewCwd(p))
  BY DEF Cd
<1>3. /\ n = Walk(dirs, Nodes, NodeOf(Start(p)), p.toks) /\ n \in Nodes
      /\ ~Fresh(p) => n = NodeOf(Start(p))
  BY <1>1, OpenedIsWalk DEF Inv
<1>4. Here' = n
  BY <1>2, <1>3 DEF Here, NodeOf
<1>5. /\ NewCwd(p) \in Seq(PromptToks)
      /\ p.abs \/ ~astray => Walk(dirs, Nodes, Root, NewCwd(p)) = n
  <2>1. CASE p.abs
    BY <1>1, <1>3, <2>1 DEF NewCwd, Start, NodeOf
  <2>2. CASE ~p.abs
    <3>1. cwd \in Seq(PromptToks)
      BY PathIsSeq DEF Inv, TypeOK
    <3>2. /\ Joined(cwd, p.toks) \in Seq(PromptToks)
          /\ Walk(dirs, Nodes, Root, Joined(cwd, p.toks))
               = Walk(dirs, Nodes, Walk(dirs, Nodes, Root, cwd), p.toks)
      BY <1>1, <3>1, WalkJoined
    <3>3. ~astray => Walk(dirs, Nodes, Root, cwd) = Here
      BY PromptIsWalk DEF Inv
    <3>4. QED
      BY <1>3, <2>2, <3>2, <3>3 DEF NewCwd, Start, Here
  <2>3. QED
    BY <2>1, <2>2
<1>6. PromptTellsWhere'
  <2>1. ~astray' => cwd' = NewCwd(p) /\ (p.abs \/ ~astray)
    BY <1>2
  <2>2. ~astray' => Walk(dirs', Nodes', Root, cwd') = Here'
    BY <1>1, <1>4, <1>5, <2>1
  <2>3. QED
    BY <2>2, PromptIsWalk
<1>7. TypeOK'
  <2>1. cwd' \in Paths
    BY <1>2, <1>5, KeptIsPath
  <2>2. pwd' \in Handles /\ own' \in Nodes /\ Start(p) \in Handles
    BY <1>2, <1>3 DEF Inv, TypeOK, Handles, Start
  <2>3. \A m : Children(m) = Kids(Nodes, m) /\ Children(m) \subseteq Nodes
    BY DEF Children, Kids
  <2>4. /\ seen' \in [Handles -> SUBSET Nodes]
        /\ \A h \in Handles : seen'[h] \subseteq
             Kids(Nodes, IF h = "root" THEN Root ELSE own')
    <3>1. /\ seen \in [Handles -> SUBSET Nodes]
          /\ \A h \in Handles : seen[h] \subseteq
               Kids(Nodes, IF h = "root" THEN Root ELSE own)
      BY <2>3 DEF Inv, TypeOK, NodeOf
    <3>2. CASE Fresh(p)
      BY <1>2, <1>3, <2>3, <3>1, <3>2 DEF Handles
    <3>3. CASE ~Fresh(p)
      <4>1. n = IF Start(p) = "root" THEN Root ELSE own
        BY <1>3, <3>3 DEF NodeOf
      <4>2. PICK s \in Touched(Start(p), n) :
              seen' = [seen EXCEPT ![Start(p)] = s]
        BY <1>2, <3>3
      <4>3. s \subseteq Kids(Nodes, n)
        BY <2>2, <2>3, <3>1, <4>1, <4>2 DEF Touched
      <4>4. QED
        BY <1>2, <2>2, <2>3, <3>1, <3>3, <4>1, <4>2, <4>3
    <3>4. QED
      BY <3>2, <3>3
  <2>5. astray' \in BOOLEAN
    BY <1>1, <1>2 DEF Inv, TypeOK
  <2>6. QED
    BY <1>1, <2>1, <2>2, <2>4, <2>5 DEF Inv, TypeOK, Children, NodeOf, Kids
<1>8. QED
  BY <1>6, <1>7 DEF Inv

(* What is left of the string when its last component is cut off.          *)
LEMMA ParentIsPath ==
  ASSUME TypeOK
  PROVE  ParentPath \in Paths
<1>1. cwd \in Seq(PromptToks) /\ Len(cwd) <= MAX_TOKENS
  BY PathIsSeq DEF TypeOK
<1>2. \A s \in Seq(PromptToks) : s # <<>> =>
        Front(s) \in Seq(PromptToks) /\ Len(Front(s)) = Len(s) - 1
  BY FrontAndLast
<1>3. Trimmed \in Seq(PromptToks) /\ Len(Trimmed) <= MAX_TOKENS
  <2>1. cwd # <<>> => Len(cwd) - 1 <= MAX_TOKENS
    BY <1>1, MaxTokensIsPositive
  <2>2. QED
    BY <1>1, <1>2, <2>1 DEF Trimmed
<1>4. <<>> \in Seq(PromptToks) /\ Len(<<>>) = 0
  OBVIOUS
<1>5. ParentPath \in Seq(PromptToks) /\ Len(ParentPath) <= MAX_TOKENS
  <2>1. CASE Len(Trimmed) <= 1
    BY <1>4, <2>1, MaxTokensIsPositive DEF ParentPath
  <2>2. CASE ~(Len(Trimmed) <= 1)
    <3>1. Trimmed # <<>> /\ ParentPath = Front(Trimmed)
      BY <1>4, <2>2 DEF ParentPath
    <3>2. Len(Trimmed) \in Nat
      BY <1>3
    <3>3. QED
      BY <1>2, <1>3, <3>1, <3>2, MaxTokensIsPositive
  <2>3. QED
    BY <2>1, <2>2
<1>6. QED
  BY <1>5, PathIsSeq

LEMMA RootIsPath == <<>> \in Paths
<1>1. <<>> \in Seq(PromptToks) /\ Len(<<>>) = 0 /\ 0 <= MAX_TOKENS
  BY MaxTokensIsPositive
<1>2. QED
  BY <1>1, PathIsSeq

LEMMA CdRootKeeps ==
  ASSUME Inv, CdRoot
  PROVE  Inv'
<1>1. /\ UNCHANGED <<dirs, files, own, seen>> /\ Nodes' = Nodes
      /\ pwd' = "root" /\ cwd' = <<>> /\ astray' = FALSE
  BY DEF CdRoot, Nodes
<1>2. TypeOK'
  BY <1>1, RootIsPath DEF Inv, TypeOK, Handles, Children, NodeOf
<1>3. PromptTellsWhere'
  <2>1. Here' = Root
    BY <1>1 DEF Here, NodeOf
  <2>2. Walk(dirs', Nodes', Root, cwd') = Root
    BY <1>1, WalkNowhere
  <2>3. QED
    BY <2>1, <2>2, PromptIsWalk
<1>4. QED
  BY <1>2, <1>3 DEF Inv

LEMMA CdUpKeeps ==
  ASSUME Inv, CdUp
  PROVE  Inv'
<1> DEFINE up == IF ParentPath = <<"">> THEN <<>> ELSE ParentPath
           p == [abs |-> TRUE, toks |-> up]
<1>1. /\ UNCHANGED <<dirs, files>> /\ Nodes' = Nodes
      /\ cwd' = up
  BY DEF CdUp, Nodes
<1>2. up \in Paths /\ p.toks \in Seq(PromptToks) /\ p.toks = up
  <2>1. up \in Paths
    BY ParentIsPath, RootIsPath DEF Inv
  <2>2. QED
    BY <2>1, PathIsSeq
<1>3. Start(p) = "root"
  BY DEF Start
<1>4. PICK n \in Results(p) :
        \/ /\ n = NoNode /\ astray' = TRUE
           /\ UNCHANGED <<pwd, own, seen>>
        \/ /\ n # NoNode /\ Fresh(p) /\ pwd' = "own" /\ own' = n
           /\ seen' = [seen EXCEPT !["own"] = {}] /\ astray' = astray
        \/ /\ n # NoNode /\ ~Fresh(p) /\ pwd' = "root" /\ own' = own
           /\ seen' = seen /\ astray' = astray
  <2>1. CdUp /\ cwd' = up
    BY <1>1
  <2> HIDE DEF up
  <2>2. QED
    BY <2>1 DEF CdUp
<1> HIDE DEF up, p
<1>5. n # NoNode => /\ n = Walk(dirs, Nodes, Root, up) /\ n \in Nodes
                    /\ ~Fresh(p) => n = Root
  BY <1>2, <1>3, OpenedIsWalk DEF Inv, NodeOf
<1>6. TypeOK'
  <2>1. /\ pwd' \in Handles /\ own' \in Nodes /\ astray' \in BOOLEAN
        /\ seen' \in [Handles -> SUBSET Nodes]
    BY <1>4, <1>5 DEF Inv, TypeOK, Handles
  <2>2. \A h \in Handles : seen'[h] \subseteq
          Kids(Nodes, IF h = "root" THEN Root ELSE own')
    <3>1. /\ seen \in [Handles -> SUBSET Nodes]
          /\ \A h \in Handles : seen[h] \subseteq
               Kids(Nodes, IF h = "root" THEN Root ELSE own)
      BY DEF Inv, TypeOK, NodeOf, Children, Kids
    <3>2. QED
      BY <1>4, <3>1 DEF Handles
  <2>3. QED
    BY <1>1, <1>2, <2>1, <2>2 DEF Inv, TypeOK, Children, NodeOf, Kids
<1>7. PromptTellsWhere'
  <2>1. ~astray' => n # NoNode /\ Here' = n
    BY <1>4, <1>5 DEF Here, NodeOf
  <2>2. QED
    BY <1>1, <1>5, <2>1, PromptIsWalk
<1>8. QED
  BY <1>6, <1>7 DEF Inv

LEMMA StepInv == Inv /\ [Next]_vars => Inv'
<1> SUFFICES ASSUME Inv, [Next]_vars PROVE Inv'
  OBVIOUS
<1>1. ASSUME NEW p \in TypedPaths \cup {NoPath}, Ls(p) PROVE Inv'
  BY <1>1, LsKeeps
<1>2. ASSUME NEW p \in TypedPaths, Cd(p) PROVE Inv'
  BY <1>2, CdKeeps
<1>3. CASE CdRoot
  BY <1>3, CdRootKeeps
<1>4. CASE CdUp
  BY <1>4, CdUpKeeps
<1>5. ASSUME NEW name \in Names, MkDir(name) PROVE Inv'
  BY <1>5, MkDirKeeps
<1>6. CASE UNCHANGED vars
  <2>1. /\ UNCHANGED <<dirs, files, cwd, pwd, own, seen, astray>>
        /\ Nodes' = Nodes /\ Here' = Here
    BY <1>6 DEF vars, Nodes, Here, NodeOf
  <2>2. TypeOK'
    BY <2>1 DEF Inv, TypeOK, Children, NodeOf
  <2>3. PromptTellsWhere'
    BY <2>1, PromptIsWalk DEF Inv
  <2>4. QED
    BY <2>2, <2>3 DEF Inv
<1>7. QED
  BY <1>1, <1>2, <1>3, <1>4, <1>5, <1>6 DEF Next

LEMMA AlwaysInv == Spec => []Inv
BY InitInv, StepInv, PTL DEF Spec

(***************************************************************************)
(* Part 5.  The theorems.                                                  *)
(***************************************************************************)
(* The state of the commands is always well formed: the partition is a     *)
(* tree, both handles stand on nodes of it, and a handle has returned only *)
(* entries of the node it stands on (g_root, g_pwd of fat.cpp).            *)
THEOREM FatTypeCorrect == Spec => []TypeOK
<1>1. Inv => TypeOK
  BY DEF Inv
<1>2. QED
  BY <1>1, AlwaysInv, PTL

(* The prompt's string and the handle that ls and mkdir use lead to the    *)
(* same node, whatever cd, ls and mkdir came before (fat_cd).              *)
THEOREM PromptIsTrue == Spec => []PromptTellsWhere
<1>1. Inv => PromptTellsWhere
  BY DEF Inv
<1>2. QED
  BY <1>1, AlwaysInv, PTL

LEMMA UpGoesToParent ==
  ASSUME Inv, Inv', CdUp \/ CdRoot, ~astray', ~astray,
         cwd # <<>>, \A i \in DOMAIN cwd : cwd[i] \in Names
  PROVE  Here' = Front(Here)
<1>1. /\ cwd \in Seq(PromptToks) /\ Len(cwd) \in Nat \ {0}
      /\ DOMAIN cwd = 1..Len(cwd)
  BY PathIsSeq DEF Inv, TypeOK
<1>2. Last(cwd) \in Names /\ cwd[1] \in Names
  BY <1>1 DEF Last
<1>3. Last(cwd) \notin {"", ".", ".."} /\ cwd[1] # ""
  BY <1>2, FatAssumption
<1> DEFINE m == Walk(dirs, Nodes, Root, Front(cwd))
<1>4. Walk(dirs, Nodes, Root, cwd) = Here /\ Here # NoNode
  BY PromptIsWalk, NoNodeIsNone DEF Inv, TypeOK, Here, NodeOf, Nodes
<1>5. m \in dirs /\ Here = Append(m, Last(cwd))
  <2>1. Here = Step(dirs, Nodes, m, Last(cwd))
    BY <1>1, <1>4, WalkLast
  <2> HIDE DEF m
  <2>2. QED
    BY <1>3, <1>4, <2>1 DEF Step, Skipped
<1>6. Front(Here) = m
  <2>1. m \in Seq(Names)
    BY <1>5 DEF Inv, TypeOK, Nodes
  <2> HIDE DEF m
  <2>2. QED
    BY <1>5, <2>1, FrontOfAppend
<1>7. cwd' = Front(cwd) /\ dirs' = dirs /\ Nodes' = Nodes
  <2>1. Trimmed = cwd
    BY <1>3 DEF Trimmed
  <2>2. /\ Front(cwd) \in Seq(PromptToks) /\ Len(Front(cwd)) = Len(cwd) - 1
        /\ \A i \in 1..(Len(cwd) - 1) : Front(cwd)[i] = cwd[i]
    BY <1>1, FrontAndLast
  <2>3. CASE Len(cwd) <= 1
    <3>1. Front(cwd) = <<>>
      BY <1>1, <2>2, <2>3
    <3>2. ParentPath = <<>>
      BY <2>1, <2>3 DEF ParentPath
    <3>3. QED
      BY <3>1, <3>2 DEF CdUp, CdRoot, Nodes
  <2>4. CASE Len(cwd) > 1
    <3>1. ParentPath = Front(cwd)
      BY <1>1, <2>1, <2>4 DEF ParentPath
    <3>2. 1 \in 1..(Len(cwd) - 1)
      BY <1>1, <2>4
    <3>3. Front(cwd) # <<>> /\ Front(cwd) # <<"">>
      <4>1. Front(cwd)[1] = cwd[1] /\ Len(Front(cwd)) # 0
        BY <1>1, <2>2, <2>4, <3>2
      <4>2. Len(<<>>) = 0 /\ <<"">>[1] = ""
        OBVIOUS
      <4>3. QED
        BY <1>3, <4>1, <4>2, Zenon
    <3>4. QED
      BY <3>1, <3>3 DEF CdUp, CdRoot, Nodes
  <2>5. QED
    BY <1>1, <2>3, <2>4
<1>8. Walk(dirs', Nodes', Root, cwd') = Here'
  BY PromptIsWalk DEF Inv
<1>9. QED
  BY <1>6, <1>7, <1>8

(* "cd .." leads to the parent of the current directory when the prompt    *)
(* shows names only: cutting the string's last name and opening what is    *)
(* left finds the directory that the handle's path leads through.          *)
THEOREM UpIsParent == Spec => PlainUpGoesUp
<1> DEFINE Up == (CdUp \/ CdRoot) /\ ~astray' /\ ~astray
                   /\ cwd # <<>> /\ (\A i \in DOMAIN cwd : cwd[i] \in Names)
                 => Here' = Front(Here)
<1>1. Inv /\ Inv' => [Up]_vars
  BY UpGoesToParent
<1>2. QED
  BY <1>1, AlwaysInv, PTL DEF PlainUpGoesUp
=============================================================================
