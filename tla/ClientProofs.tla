---------------------------- MODULE ClientProofs ----------------------------
(***************************************************************************)
(* Theorems about Client, for any number of calls, connections and frames  *)
(* and every way in which the bytes may be cut into reads.                 *)
(***************************************************************************)
EXTENDS Client, FiniteSetTheorems, SequenceTheorems, WellFoundedInduction,
        TLAPS

-----------------------------------------------------------------------------
(* Induction, in a form that first-order provers can use: over a set.      *)

LEMMA SetInduction ==
    ASSUME NEW S \in SUBSET Nat, 0 \in S, \A n \in S : n + 1 \in S
    PROVE  S = Nat
<1> DEFINE T == Nat \ S
           Less == OpToRel(<, Nat)
<1>1. SUFFICES ASSUME T # {} PROVE FALSE
  OBVIOUS
<1>2. IsWellFoundedOn(Less, Nat)
  BY NatLessThanWellFounded
<1>3. \A x, y \in Nat : y < x => <<y, x>> \in Less
  BY DEF OpToRel
<1> HIDE DEF Less
<1>4. PICK x \in T : \A y \in T : <<y, x>> \notin Less
  BY <1>1, <1>2, WFMin
<1>5. x \in Nat /\ x # 0
  BY <1>4
<1>6. x - 1 \in Nat /\ x - 1 < x /\ x = (x - 1) + 1
  BY <1>5
<1> QED
  BY <1>3, <1>4, <1>5, <1>6

-----------------------------------------------------------------------------
(* FrameReader.                                                            *)

\* How many cells n frames have.
Cells(n) == n + n + n

LEMMA CellsProduct == \A n \in Nat : FrameSize * n = Cells(n)
BY DEF Cells, FrameSize, HEADER_SIZE, BodySize

\* The arithmetic of the proofs below.
LEMMA CellsNat == \A n \in Nat : Cells(n) \in Nat /\ Cells(n + 1) \in Nat
BY DEF Cells

LEMMA CellsPlus == \A n, x \in Nat : Cells(n) + x \in Nat
BY DEF Cells

LEMMA CellsNext ==
    \A g, x \in Nat : Cells(g) + (x + 3) = Cells(g + 1) + x
BY DEF Cells

LEMMA CellsBound ==
    \A g, n, x \in Nat : Cells(g) + x <= Cells(n) => g <= n /\ (x >= 1 => g + 1 <= n)
BY DEF Cells

LEMMA CellsAfter ==
    ASSUME NEW g \in Nat, NEW h \in Nat, NEW x \in Nat, NEW z \in 1..3,
           Cells(h) + x = Cells(g)
    PROVE  Cells(g) + z = Cells(h) + (x + z)
BY DEF Cells

LEMMA Regroup ==
    ASSUME NEW a \in Nat, NEW b \in Nat, NEW c \in Nat, NEW d \in Nat, NEW f, c <= d,
           f = a + (b + c)
    PROVE  f + (d - c) = a + b + d
OBVIOUS

\* The cells of s are those of the stream that follow frame h.
Aligned(s, h) ==
    \A i \in DOMAIN s : Cells(s[i].of - 1) + s[i].at = Cells(h) + i

\* feed's loop, begun after frame h with all cells up to `end': what it has
\* found so far and what it has left.
TurnOK(r, h, end) ==
    /\ r \in [buf : Seq(Cell), frames : Seq(Nat), error : BOOLEAN]
    /\ r.error => ~Intact
    /\ ~r.error =>
          /\ \A i \in DOMAIN r.frames : r.frames[i] = h + i /\ sent[h + i].damage = "none"
          /\ Aligned(r.buf, h + Len(r.frames))
          /\ Cells(h + Len(r.frames)) + Len(r.buf) = end

LEMMA Sizes == FrameSize = 3 /\ HEADER_SIZE = 2 /\ MaxFrameSize = 4
BY DEF FrameSize, HEADER_SIZE, BodySize, MaxFrameSize

LEMMA EncodeView ==
    ASSUME NEW n \in Nat \ {0}
    PROVE  /\ encode_frame(n) \in Seq(Cell) /\ Len(encode_frame(n)) = 3
           /\ \A i \in 1..3 : encode_frame(n)[i] = [of |-> n, at |-> i]
BY Sizes DEF encode_frame, Cell

LEMMA CellView ==
    ASSUME NEW c \in Cell
    PROVE  c = [of |-> c.of, at |-> c.at] /\ c.of \in Nat \ {0} /\ c.at \in 1..3
BY Sizes DEF Cell

LEMMA CellAt ==
    ASSUME NEW b \in Seq(Cell), NEW g \in Nat, Aligned(b, g), NEW i \in 1..Len(b)
    PROVE  /\ b[i] = [of |-> b[i].of, at |-> b[i].at]
           /\ b[i].of \in Nat \ {0} /\ b[i].at \in 1..3
           /\ Cells(b[i].of - 1) + b[i].at = Cells(g) + i
<1>1. b[i] \in Cell /\ i \in DOMAIN b
  OBVIOUS
<1> QED
  BY <1>1, CellView, Sizes DEF Aligned

LEMMA Division ==
    \A n \in Nat \ {0}, a \in 1..3, g \in Nat, i \in 1..3 :
        Cells(n - 1) + a = Cells(g) + i => n = g + 1 /\ a = i
BY DEF Cells

LEMMA CutView ==
    ASSUME NEW S, NEW s \in Seq(S), NEW m \in 1..(Len(s) + 1), NEW n \in (m - 1)..Len(s)
    PROVE  /\ SubSeq(s, m, n) \in Seq(S)
           /\ Len(SubSeq(s, m, n)) = n - m + 1
           /\ \A i \in 1..(n - m + 1) : SubSeq(s, m, n)[i] = s[m + i - 1]
<1>1. \A i \in m..n : s[i] \in S
  OBVIOUS
<1>2. /\ SubSeq(s, m, n) \in Seq(S)
      /\ Len(SubSeq(s, m, n)) = IF m <= n THEN n - m + 1 ELSE 0
      /\ \A i \in 1..(n - m + 1) : SubSeq(s, m, n)[i] = s[m + i - 1]
  BY <1>1, SubSeqProperties
<1> QED
  BY <1>2

\* The first cells of an aligned buffer are the next frame.
LEMMA FirstFrame ==
    ASSUME NEW b \in Seq(Cell), NEW g \in Nat, Aligned(b, g), Len(b) >= 1
    PROVE  /\ b[1].of = g + 1 /\ b[1].at = 1
           /\ Len(b) >= 3 => SubSeq(b, 1, 3) = encode_frame(g + 1)
<1>1. ASSUME NEW i \in 1..3, i <= Len(b) PROVE b[i] = [of |-> g + 1, at |-> i]
  <2>1. i \in 1..Len(b)
    BY <1>1
  <2>2. /\ b[i] = [of |-> b[i].of, at |-> b[i].at]
        /\ b[i].of \in Nat \ {0} /\ b[i].at \in 1..3
        /\ Cells(b[i].of - 1) + b[i].at = Cells(g) + i
    BY <2>1, CellAt
  <2>3. b[i].of = g + 1 /\ b[i].at = i
    BY <2>2, Division
  <2> QED
    BY <2>2, <2>3
<1>2. ASSUME Len(b) >= 3 PROVE SubSeq(b, 1, 3) = encode_frame(g + 1)
  <2>1. encode_frame(g + 1) \in Seq(Cell) /\ Len(encode_frame(g + 1)) = 3
        /\ \A i \in 1..3 : encode_frame(g + 1)[i] = [of |-> g + 1, at |-> i]
    BY EncodeView
  <2>2. SubSeq(b, 1, 3) \in Seq(Cell) /\ Len(SubSeq(b, 1, 3)) = 3 - 1 + 1
        /\ \A i \in 1..(3 - 1 + 1) : SubSeq(b, 1, 3)[i] = b[1 + i - 1]
    BY <1>2, CutView
  <2>3. ASSUME NEW i \in 1..3 PROVE SubSeq(b, 1, 3)[i] = encode_frame(g + 1)[i]
    BY <1>1, <1>2, <2>1, <2>2
  <2>4. Len(SubSeq(b, 1, 3)) = 3
    BY <2>2
  <2> QED
    BY <2>1, <2>2, <2>3, <2>4, SeqEqual
<1> QED
  BY <1>1, <1>2

\* What follows the first frame is aligned to it.
LEMMA RestAligned ==
    ASSUME NEW b \in Seq(Cell), NEW g \in Nat, Aligned(b, g), Len(b) >= 3
    PROVE  /\ SubSeq(b, 4, Len(b)) \in Seq(Cell) /\ Len(SubSeq(b, 4, Len(b))) = Len(b) - 3
           /\ Aligned(SubSeq(b, 4, Len(b)), g + 1)
<1> DEFINE rest == SubSeq(b, 4, Len(b))
<1>0. Len(b) \in Nat /\ 4 \in 1..(Len(b) + 1) /\ Len(b) \in (4 - 1)..Len(b)
  OBVIOUS
<1>1. /\ rest \in Seq(Cell) /\ Len(rest) = Len(b) - 4 + 1
      /\ \A i \in 1..(Len(b) - 4 + 1) : rest[i] = b[4 + i - 1]
  BY <1>0, CutView
<1> HIDE DEF rest
<1>2. ASSUME NEW i \in DOMAIN rest
      PROVE  Cells(rest[i].of - 1) + rest[i].at = Cells(g + 1) + i
  <2> DEFINE j == i + 3
  <2>1. i \in Nat /\ j \in 1..Len(b) /\ rest[i] = b[j]
    BY <1>0, <1>1
  <2>3. Cells(g) + j = Cells(g + 1) + i
    BY <2>1, CellsNext, Zenon
  <2> HIDE DEF j
  <2>2. Cells(b[j].of - 1) + b[j].at = Cells(g) + j
    <3>1. j \in DOMAIN b
      BY <2>1
    <3> QED
      BY <3>1, Zenon DEF Aligned
  <2> QED
    BY <2>1, <2>2, <2>3, Zenon
<1> QED
  BY <1>0, <1>1, <1>2 DEF Aligned, rest

LEMMA ErrorTurn ==
    ASSUME NEW r \in [buf : Seq(Cell), frames : Seq(Nat), error : BOOLEAN], ~Intact,
           NEW b \in Seq(Cell), NEW h, NEW end,
           NEW x, x = [r EXCEPT !.buf = b, !.error = TRUE]
    PROVE  TurnOK(x, h, end)
<1>1. x \in [buf : Seq(Cell), frames : Seq(Nat), error : BOOLEAN] /\ x.error = TRUE
  OBVIOUS
<1> QED
  BY <1>1 DEF TurnOK

\* One turn of the loop keeps that, and takes a frame if there is a whole one
\* and the stream is intact.
LEMMA TurnKeeps ==
    ASSUME NEW r, NEW h \in Nat, NEW end \in Nat, TurnOK(r, h, end),
           sent \in Seq(Frame), end <= Cells(Len(sent))
    PROVE  /\ TurnOK(_try_one(r), h, end)
           /\ Intact /\ Len(r.buf) >= FrameSize => Len(_try_one(r).buf) < Len(r.buf)
           /\ Len(r.buf) < FrameSize => _try_one(r).buf = r.buf
<1> DEFINE b == r.buf
           n == Len(r.frames)
           g == h + n
           total == decode_header(b)
<1>0. /\ b \in Seq(Cell) /\ r.frames \in Seq(Nat) /\ n \in Nat /\ g \in Nat /\ Len(b) \in Nat
      /\ r \in [buf : Seq(Cell), frames : Seq(Nat), error : BOOLEAN]
      /\ r.error => ~Intact
  BY DEF TurnOK
<1>1. CASE r.error \/ Len(b) < 2
  <2>1. _try_one(r) = r
    BY <1>1, Sizes DEF _try_one
  <2> QED
    BY <1>0, <1>1, <2>1, Sizes
<1>2. CASE ~r.error /\ Len(b) >= 2
  <2>1. /\ \A i \in DOMAIN r.frames : r.frames[i] = h + i /\ sent[h + i].damage = "none"
        /\ Aligned(b, g) /\ Cells(g) + Len(b) = end
    BY <1>2, Sizes DEF TurnOK
  <2>2. b[1].of = g + 1 /\ b[1].at = 1 /\ (Len(b) >= 3 => SubSeq(b, 1, 3) = encode_frame(g + 1))
    BY <1>0, <1>2, <2>1, FirstFrame
  <2>3. g + 1 \in 1..Len(sent)
    <3> DEFINE m == Len(sent)
               x == Len(b)
    <3>1. m \in Nat /\ x \in Nat /\ g \in Nat /\ x >= 1 /\ Cells(g) + x <= Cells(m)
      BY <1>0, <1>2, <2>1
    <3> HIDE DEF m, x, g
    <3>2. g + 1 <= m
      BY <3>1, CellsBound, Zenon
    <3> QED
      BY <3>1, <3>2 DEF m
  <2> DEFINE damage == sent[g + 1].damage
  <2>4. damage # "none" => ~Intact
    BY <2>3 DEF Intact
  <2>5. total = IF damage = "magic" THEN None ELSE IF damage = "huge" THEN 5
                ELSE IF damage = "longer" THEN 4 ELSE 3
    BY <2>2, Sizes DEF decode_header
  <2>6. None \notin Nat
    BY ClientAssumption
  <2> HIDE DEF b, n, g, total, damage
  <2>7. CASE total = None \/ total = 5
    <3>1. _try_one(r) = [r EXCEPT !.error = TRUE] /\ damage # "none"
      BY <1>2, <2>5, <2>6, <2>7, Sizes DEF _try_one, total, b
    <3> QED
      BY <1>0, <2>4, <3>1 DEF TurnOK, b
  <2>8. CASE total \in {3, 4} /\ Len(b) < total
    <3>1. _try_one(r) = r
      BY <1>2, <2>6, <2>8, Sizes DEF _try_one, total, b
    <3>2. Len(b) >= 3 => total = 4
      BY <1>0, <2>8
    <3> QED
      BY <2>4, <2>5, <3>1, <3>2, Sizes DEF b
  <2>9. CASE total = 4 /\ Len(b) >= 4
    <3>1. Len(SubSeq(b, 1, 4)) = 4
      BY <1>0, <2>9
    <3>2. b[1] = SubSeq(b, 1, 4)[1] /\ Len(encode_frame(b[1].of)) = 3
      BY <1>0, <2>2, <2>9, EncodeView
    <3>3. ~ChecksumAgrees(SubSeq(b, 1, 4))
      BY <3>1, <3>2 DEF ChecksumAgrees
    <3>4. _try_one(r) = [r EXCEPT !.buf = SubSeq(b, 5, Len(b)), !.error = TRUE]
      BY <1>2, <2>6, <2>9, <3>3, Sizes DEF _try_one, total, b
    <3>5. SubSeq(b, 5, Len(b)) \in Seq(Cell)
      <4>1. 5 \in 1..(Len(b) + 1) /\ Len(b) \in (5 - 1)..Len(b)
        BY <1>0, <2>9
      <4> QED
        BY <1>0, <4>1, CutView
    <3>6. ~Intact
      BY <2>4, <2>5, <2>9
    <3>7. TurnOK(_try_one(r), h, end)
      BY <1>0, <3>4, <3>5, <3>6, ErrorTurn
    <3>8. ~(Len(r.buf) < FrameSize)
      BY <1>0, <2>9, Sizes DEF b
    <3> QED
      BY <3>6, <3>7, <3>8
  <2>10. CASE total = 3 /\ Len(b) >= 3
    <3> DEFINE rest == SubSeq(b, 4, Len(b))
    <3>1. rest \in Seq(Cell) /\ Len(rest) = Len(b) - 3 /\ Aligned(rest, g + 1)
      BY <1>0, <2>1, <2>10, RestAligned
    <3>2. encode_frame(g + 1)[1].of = g + 1
      <4> DEFINE m == g + 1
      <4>1. m \in Nat \ {0} /\ 1 \in 1..3
        BY <1>0
      <4> HIDE DEF m
      <4>2. encode_frame(m)[1] = [of |-> m, at |-> 1]
        BY <4>1, EncodeView, Zenon
      <4> QED
        BY <4>2 DEF m
    <3>3. ChecksumAgrees(SubSeq(b, 1, 3)) <=> damage = "none"
      BY <2>2, <2>10, <3>2 DEF ChecksumAgrees, damage
    <3> HIDE DEF rest
    <3>4. CASE damage = "none"
      <4>1. _try_one(r) = [r EXCEPT !.buf = rest, !.frames = Append(r.frames, g + 1)]
        BY <1>2, <2>2, <2>6, <2>10, <3>3, <3>4, Sizes DEF _try_one, total, b, rest
      <4> DEFINE fs == Append(r.frames, g + 1)
      <4>2. fs \in Seq(Nat) /\ Len(fs) = n + 1 /\ g + 1 = h + (n + 1)
            /\ \A i \in DOMAIN fs : fs[i] = IF i = n + 1 THEN g + 1 ELSE r.frames[i]
        BY <1>0 DEF n, g
      <4>3. \A i \in DOMAIN fs : i = n + 1 \/ i \in DOMAIN r.frames
        BY <1>0, <4>2 DEF n
      <4>4. \A i \in DOMAIN fs : fs[i] = h + i /\ sent[h + i].damage = "none"
        BY <2>1, <3>4, <4>2, <4>3 DEF damage
      <4> HIDE DEF fs
      <4>5. /\ _try_one(r).buf = rest /\ _try_one(r).frames = fs /\ _try_one(r).error = FALSE
            /\ _try_one(r) \in [buf : Seq(Cell), frames : Seq(Nat), error : BOOLEAN]
        BY <1>0, <1>2, <3>1, <4>1, <4>2 DEF fs
      <4>6. Cells(h + Len(fs)) + Len(rest) = end
        <5>1. h + Len(fs) = g + 1
          BY <1>0, <4>2
        <5>2. Len(rest) \in Nat /\ Len(b) = Len(rest) + 3
          BY <1>0, <3>1, <2>10
        <5>3. Cells(g) + (Len(rest) + 3) = Cells(g + 1) + Len(rest)
          BY <1>0, <5>2, CellsNext, Zenon
        <5> QED
          BY <2>1, <5>1, <5>2, <5>3, Zenon
      <4>7. Aligned(rest, h + Len(fs))
        BY <3>1, <4>2
      <4>8. TurnOK(_try_one(r), h, end)
        BY <4>4, <4>5, <4>6, <4>7, Sizes DEF TurnOK
      <4>9. Len(rest) < Len(b) /\ ~(Len(b) < FrameSize)
        BY <1>0, <2>10, <3>1, Sizes
      <4> QED
        BY <4>5, <4>8, <4>9 DEF b
    <3>5. CASE damage # "none"
      <4>1. _try_one(r) = [r EXCEPT !.buf = rest, !.error = TRUE]
        BY <1>2, <2>6, <2>10, <3>3, <3>5, Sizes DEF _try_one, total, b, rest
      <4>2. TurnOK(_try_one(r), h, end)
        BY <1>0, <2>4, <3>1, <3>5, <4>1, ErrorTurn
      <4>3. ~(Len(r.buf) < FrameSize)
        BY <1>0, <2>10, Sizes DEF b
      <4> QED
        BY <2>4, <3>5, <4>2, <4>3
    <3> QED
      BY <3>4, <3>5
  <2> QED
    BY <1>0, <2>5, <2>7, <2>8, <2>9, <2>10
<1> QED
  BY <1>0, <1>1, <1>2

\* The loop as a whole: a function that satisfies feed's recursion exists, so
\* feed's is one.
LEMMA TurnsExist ==
    ASSUME NEW r0, NEW N \in Nat
    PROVE  \E f : f = [i \in 0..N |-> IF i = 0 THEN r0 ELSE _try_one(f[i - 1])]
<1> DEFINE S == {n \in Nat :
                   \E f : f = [i \in 0..n |-> IF i = 0 THEN r0 ELSE _try_one(f[i - 1])]}
<1>1. 0 \in S
  <2> DEFINE f == [i \in 0..0 |-> r0]
  <2>1. f = [i \in 0..0 |-> IF i = 0 THEN r0 ELSE _try_one(f[i - 1])]
    OBVIOUS
  <2> HIDE DEF f
  <2> QED
    BY <2>1
<1>2. ASSUME NEW n \in S PROVE n + 1 \in S
  <2>1. n \in Nat /\ n + 1 \in Nat
    OBVIOUS
  <2>2. PICK f : f = [i \in 0..n |-> IF i = 0 THEN r0 ELSE _try_one(f[i - 1])]
    OBVIOUS
  <2> DEFINE g == [i \in 0..(n + 1) |-> IF i = n + 1 THEN _try_one(f[n]) ELSE f[i]]
  <2>3. ASSUME NEW i \in 0..(n + 1)
        PROVE  g[i] = IF i = 0 THEN r0 ELSE _try_one(g[i - 1])
    <3>1. CASE i = n + 1
      <4>1. n \in 0..(n + 1) /\ n # n + 1 /\ i - 1 = n /\ i # 0
        BY <2>1, <3>1
      <4> QED
        BY <3>1, <4>1
    <3>2. CASE i # n + 1
      <4>1. i \in 0..n /\ g[i] = f[i]
        BY <2>1, <3>2
      <4>2. f[i] = IF i = 0 THEN r0 ELSE _try_one(f[i - 1])
        BY <2>2, <4>1
      <4>3. i # 0 => g[i - 1] = f[i - 1]
        BY <2>1, <4>1
      <4> QED
        BY <4>1, <4>2, <4>3
    <3> QED
      BY <3>1, <3>2
  <2>4. g = [i \in 0..(n + 1) |-> g[i]]
    OBVIOUS
  <2> HIDE DEF g
  <2>5. g = [i \in 0..(n + 1) |-> IF i = 0 THEN r0 ELSE _try_one(g[i - 1])]
    BY <2>3, <2>4
  <2> QED
    BY <2>1, <2>5
<1> HIDE DEF S
<1>3. S \in SUBSET Nat
  BY DEF S
<1>4. S = Nat
  BY <1>1, <1>2, <1>3, SetInduction
<1> QED
  BY <1>4 DEF S

\* What feed returns.
LEMMA FeedView ==
    ASSUME sent \in Seq(Frame), NEW data \in Seq(Cell), buf \in Seq(Cell), NEW h \in Nat,
           Aligned(buf \o data, h),
           Cells(h) + Len(buf \o data) <= Cells(Len(sent))
    PROVE  /\ TurnOK(feed(data), h, Cells(h) + Len(buf \o data))
           /\ Intact => Len(feed(data).buf) < FrameSize
<1> DEFINE all == buf \o data
           L == Len(all)
           end == Cells(h) + L
           r0 == [buf |-> all, frames |-> << >>, error |-> FALSE]
           turn == CHOOSE f : f = [i \in 0..L |-> IF i = 0 THEN r0 ELSE _try_one(f[i - 1])]
<1>1. feed(data) = turn[L]
  BY DEF feed
<1>2. all \in Seq(Cell) /\ L \in Nat /\ end \in Nat
  <2>1. all \in Seq(Cell) /\ L \in Nat
    OBVIOUS
  <2> HIDE DEF L
  <2> QED
    BY <2>1, CellsPlus, Zenon
<1>3. TurnOK(r0, h, end)
  <2>1. Aligned(all, h) /\ Cells(h) + Len(all) = end /\ h + 0 = h
    OBVIOUS
  <2> HIDE DEF all, end
  <2>2. /\ r0 \in [buf : Seq(Cell), frames : Seq(Nat), error : BOOLEAN]
        /\ r0.buf = all /\ r0.frames = << >> /\ r0.error = FALSE /\ Len(r0.frames) = 0
        /\ DOMAIN r0.frames = {}
    BY <1>2
  <2> HIDE DEF r0
  <2> QED
    BY <2>1, <2>2 DEF TurnOK
<1> HIDE DEF all, L, r0, end
<1>4. turn = [i \in 0..L |-> IF i = 0 THEN r0 ELSE _try_one(turn[i - 1])]
  <2>1. \E f : f = [i \in 0..L |-> IF i = 0 THEN r0 ELSE _try_one(f[i - 1])]
    BY <1>2, TurnsExist, Zenon
  <2> QED
    BY <2>1, Zenon
<1> HIDE DEF turn
<1> DEFINE Good(r, i) == /\ TurnOK(r, h, end)
                         /\ Intact => Len(r.buf) < FrameSize \/ Len(r.buf) + i <= L
           S == {i \in Nat : i <= L => Good(turn[i], i)}
<1>5. 0 \in S
  <2>1. turn[0] = r0 /\ Len(r0.buf) + 0 <= L
    BY <1>2, <1>4 DEF r0, L
  <2> QED
    BY <1>3, <2>1
<1> HIDE DEF Good
<1>6. ASSUME NEW i \in S PROVE i + 1 \in S
  <2>0. i \in Nat /\ i + 1 \in Nat /\ (i <= L => Good(turn[i], i))
    OBVIOUS
  <2>1. SUFFICES ASSUME i + 1 <= L PROVE Good(turn[i + 1], i + 1)
    BY <2>0
  <2>2. i \in Nat /\ i <= L /\ i + 1 \in 0..L /\ i + 1 # 0 /\ (i + 1) - 1 = i
    BY <1>2, <2>0, <2>1
  <2>3. turn[i + 1] = _try_one(turn[i]) /\ Good(turn[i], i)
    BY <1>4, <2>0, <2>2
  <2> DEFINE r == turn[i]
  <2>4. /\ TurnOK(_try_one(r), h, end)
        /\ Intact /\ Len(r.buf) >= FrameSize => Len(_try_one(r).buf) < Len(r.buf)
        /\ Len(r.buf) < FrameSize => _try_one(r).buf = r.buf
    <3>1. end <= Cells(Len(sent))
      BY DEF end, L, all
    <3> QED
      BY <1>2, <2>3, <3>1, TurnKeeps DEF Good
  <2> DEFINE x == Len(r.buf)
             y == Len(_try_one(r).buf)
  <2>5. /\ x \in Nat /\ y \in Nat
        /\ Intact => x < FrameSize \/ x + i <= L
        /\ Intact /\ x >= FrameSize => y < x
        /\ x < FrameSize => y = x
    BY <2>3, <2>4 DEF TurnOK, Good
  <2> HIDE DEF x, y
  <2>6. Intact => y < FrameSize \/ y + (i + 1) <= L
    BY <1>2, <2>0, <2>5, Sizes
  <2> QED
    BY <2>3, <2>4, <2>6 DEF Good, y
<1>7. S = Nat
  <2>1. S \in SUBSET Nat
    OBVIOUS
  <2> HIDE DEF S
  <2> QED
    BY <1>5, <1>6, <2>1, SetInduction
<1>8. Good(turn[L], L)
  BY <1>2, <1>7
<1>9. Intact => Len(turn[L].buf) < FrameSize
  <2> DEFINE x == Len(turn[L].buf)
  <2>1. x \in Nat /\ (Intact => x < FrameSize \/ x + L <= L)
    BY <1>8 DEF TurnOK, Good
  <2> HIDE DEF x
  <2>2. Intact => x < FrameSize
    BY <1>2, <2>1, Sizes
  <2> QED
    BY <2>2 DEF x
<1> QED
  BY <1>1, <1>8, <1>9 DEF Good, end, L, all

-----------------------------------------------------------------------------
(* The stream: what is on the wire and in FrameReader's buffer.            *)

NetTyped ==
    /\ writer \in {"none", "open", "closing"}
    /\ reader \in {"none", "running", "ended"}
    /\ wire \in Seq(Cell) /\ buf \in Seq(Cell)
    /\ net \in {"none", "up", "lost"}
    /\ connects \in 0..ConnectBound
    /\ sent \in Seq(Frame)
    /\ handled \in Seq(Nat)
    /\ consuming \in BOOLEAN
    /\ commands \in Seq(Calls)
    /\ given \subseteq Tokens

\* The read loop has handled the first frames that were sent.
HandledOK ==
    /\ Len(handled) <= Len(sent)
    /\ \A i \in DOMAIN handled : handled[i] = i /\ sent[i].damage = "none"

\* While it runs, the cells that it has not handled follow the last of them.
StreamOK ==
    reader = "running" =>
        /\ Aligned(buf \o wire, Len(handled))
        /\ Cells(Len(handled)) + Len(buf) + Len(wire) <= Cells(Len(sent))
        /\ net = "up" =>
              Cells(Len(handled)) + Len(buf) + Len(wire) = Cells(Len(sent))
        /\ Intact => Len(buf) < FrameSize

NetOK == NetTyped /\ HandledOK /\ StreamOK

\* The parts of an aligned sequence.
LEMMA AlignedParts ==
    ASSUME NEW s \in Seq(Cell), NEW u \in Seq(Cell), NEW v \in Seq(Cell), NEW h \in Nat,
           Aligned(s \o (u \o v), h)
    PROVE  Aligned((s \o u) \o v, h) /\ Aligned(s \o u, h)
<1>1. (s \o u) \o v = s \o (u \o v)
  BY ConcatAssociative
<1>2. \A i \in DOMAIN (s \o u) : i \in DOMAIN ((s \o u) \o v) /\ ((s \o u) \o v)[i] = (s \o u)[i]
  OBVIOUS
<1> QED
  BY <1>1, <1>2 DEF Aligned

\* A sequence is what comes before a place and what comes after it.
LEMMA CutInTwo ==
    ASSUME NEW S, NEW s \in Seq(S), NEW k \in 0..Len(s)
    PROVE  /\ SubSeq(s, 1, k) \in Seq(S) /\ Len(SubSeq(s, 1, k)) = k
           /\ SubSeq(s, k + 1, Len(s)) \in Seq(S)
           /\ Len(SubSeq(s, k + 1, Len(s))) = Len(s) - k
           /\ s = SubSeq(s, 1, k) \o SubSeq(s, k + 1, Len(s))
<1> DEFINE u == SubSeq(s, 1, k)
           v == SubSeq(s, k + 1, Len(s))
<1>0. /\ 1 \in 1..(Len(s) + 1) /\ k \in (1 - 1)..Len(s)
      /\ k + 1 \in 1..(Len(s) + 1) /\ Len(s) \in ((k + 1) - 1)..Len(s)
  OBVIOUS
<1>1. u \in Seq(S) /\ Len(u) = k /\ \A i \in 1..k : u[i] = s[i]
  <2>1. /\ u \in Seq(S) /\ Len(u) = k - 1 + 1
        /\ \A i \in 1..(k - 1 + 1) : u[i] = s[1 + i - 1]
    BY <1>0, CutView
  <2> QED
    BY <2>1
<1>2. v \in Seq(S) /\ Len(v) = Len(s) - k /\ \A i \in 1..(Len(s) - k) : v[i] = s[k + i]
  <2>1. /\ v \in Seq(S) /\ Len(v) = Len(s) - (k + 1) + 1
        /\ \A i \in 1..(Len(s) - (k + 1) + 1) : v[i] = s[(k + 1) + i - 1]
    BY <1>0, CutView
  <2> QED
    BY <2>1
<1> HIDE DEF u, v
<1>3. u \o v \in Seq(S) /\ Len(u \o v) = Len(s)
  BY <1>1, <1>2
<1>4. ASSUME NEW i \in 1..Len(s) PROVE (u \o v)[i] = s[i]
  <2>1. CASE i <= k
    BY <1>1, <1>2, <2>1
  <2>2. CASE i > k
    <3>1. i - k \in 1..(Len(s) - k) /\ k + (i - k) = i
      BY <2>2
    <3>2. (u \o v)[i] = v[i - k]
      BY <1>1, <1>2, <2>2
    <3> QED
      BY <1>2, <3>1, <3>2
  <2>3. i <= k \/ i > k
    OBVIOUS
  <2> QED
    BY <2>1, <2>2, <2>3
<1>5. s = u \o v
  BY <1>3, <1>4, SeqEqual
<1> QED
  BY <1>1, <1>2, <1>5 DEF u, v

\* The next frame on the wire.
LEMMA SendAligned ==
    ASSUME NEW s \in Seq(Cell), NEW h \in Nat, NEW n \in Nat, Aligned(s, h),
           Cells(h) + Len(s) = Cells(n)
    PROVE  Aligned(s \o encode_frame(n + 1), h)
<1> DEFINE e == encode_frame(n + 1)
           m == n + 1
<1>1. e \in Seq(Cell) /\ Len(e) = 3 /\ \A i \in 1..3 : e[i] = [of |-> m, at |-> i]
  <2>1. m \in Nat \ {0} /\ e = encode_frame(m)
    OBVIOUS
  <2> HIDE DEF m, e
  <2> QED
    BY <2>1, EncodeView
<1> HIDE DEF e
<1>2. ASSUME NEW i \in DOMAIN (s \o e)
      PROVE  Cells((s \o e)[i].of - 1) + (s \o e)[i].at = Cells(h) + i
  <2>1. CASE i <= Len(s)
    <3>1. i \in DOMAIN s /\ (s \o e)[i] = s[i]
      BY <1>1, <2>1
    <3> QED
      BY <3>1, Zenon DEF Aligned
  <2>2. CASE i > Len(s)
    <3> DEFINE j == i - Len(s)
    <3>0. /\ Len(s) \in Nat /\ s \o e \in Seq(Cell) /\ Len(s \o e) = Len(s) + Len(e)
          /\ \A x \in 1..(Len(s) + Len(e)) :
                (s \o e)[x] = IF x <= Len(s) THEN s[x] ELSE e[x - Len(s)]
      <4>1. e \in Seq(Cell) /\ Len(s) \in Nat
        BY <1>1
      <4> QED
        BY <4>1, ConcatProperties, Zenon
    <3>1. i \in 1..(Len(s) + 3) /\ j \in 1..3 /\ i = Len(s) + j
      <4>1. DOMAIN (s \o e) = 1..(Len(s) + 3)
        BY <1>1, <3>0
      <4>2. i \in 1..(Len(s) + 3)
        BY <4>1
      <4> QED
        BY <2>2, <3>0, <4>2
    <3>5. (s \o e)[i] = e[j] /\ Len(s) \in Nat
      BY <1>1, <2>2, <3>0, <3>1
    <3> HIDE DEF j
    <3>2. (s \o e)[i].of = n + 1 /\ (s \o e)[i].at = j
      BY <1>1, <3>1, <3>5
    <3>3. Cells((n + 1) - 1) + j = Cells(n) + j
      BY <3>1
    <3>4. Cells(n) + j = Cells(h) + (Len(s) + j)
      BY <3>1, <3>5, CellsAfter
    <3> QED
      BY <3>1, <3>2, <3>3, <3>4, Zenon
  <2> QED
    BY <1>1, <2>1, <2>2
<1> QED
  BY <1>2 DEF Aligned, e


LEMMA ConcatAt ==
    ASSUME NEW S, NEW s \in Seq(S), NEW u \in Seq(S)
    PROVE  /\ s \o u \in Seq(S) /\ Len(s \o u) = Len(s) + Len(u)
           /\ \A i \in DOMAIN s : i \in DOMAIN (s \o u) /\ (s \o u)[i] = s[i]
           /\ \A j \in DOMAIN u : /\ Len(s) + j \in DOMAIN (s \o u)
                                  /\ (s \o u)[Len(s) + j] = u[j]
           /\ \A i \in DOMAIN (s \o u) : i \in DOMAIN s \/ \E j \in DOMAIN u : i = Len(s) + j
<1>1. /\ s \o u \in Seq(S) /\ Len(s \o u) = Len(s) + Len(u)
      /\ \A i \in 1..(Len(s) + Len(u)) :
            (s \o u)[i] = IF i <= Len(s) THEN s[i] ELSE u[i - Len(s)]
  BY ConcatProperties, Zenon
<1>2. /\ DOMAIN s = 1..Len(s) /\ DOMAIN u = 1..Len(u) /\ DOMAIN (s \o u) = 1..(Len(s) + Len(u))
      /\ Len(s) \in Nat /\ Len(u) \in Nat
  BY <1>1
<1>3. ASSUME NEW i \in DOMAIN s PROVE i \in DOMAIN (s \o u) /\ (s \o u)[i] = s[i]
  <2>1. i \in 1..(Len(s) + Len(u)) /\ i <= Len(s)
    BY <1>2
  <2> QED
    BY <1>1, <1>2, <2>1
<1>4. ASSUME NEW j \in DOMAIN u
      PROVE  Len(s) + j \in DOMAIN (s \o u) /\ (s \o u)[Len(s) + j] = u[j]
  <2> DEFINE i == Len(s) + j
  <2>1. i \in 1..(Len(s) + Len(u)) /\ ~(i <= Len(s)) /\ i - Len(s) = j
    BY <1>2
  <2> HIDE DEF i
  <2>2. (s \o u)[i] = u[j]
    BY <1>1, <2>1
  <2> QED
    BY <1>2, <2>1, <2>2 DEF i
<1>5. ASSUME NEW i \in DOMAIN (s \o u)
      PROVE  i \in DOMAIN s \/ \E j \in DOMAIN u : i = Len(s) + j
  <2>1. i \in 1..(Len(s) + Len(u))
    BY <1>2
  <2>2. CASE i <= Len(s)
    BY <1>2, <2>1, <2>2
  <2>3. CASE ~(i <= Len(s))
    <3>1. i - Len(s) \in DOMAIN u /\ i = Len(s) + (i - Len(s))
      BY <1>2, <2>1, <2>3
    <3> QED
      BY <3>1
  <2> QED
    BY <2>2, <2>3
<1> QED
  BY <1>1, <1>3, <1>4, <1>5

LEMMA ConcatRight ==
    ASSUME NEW S, NEW s \in Seq(S), NEW u \in Seq(S), NEW j \in DOMAIN u
    PROVE  Len(s) + j \in DOMAIN (s \o u) /\ (s \o u)[Len(s) + j] = u[j]
BY ConcatAt

\* What feed has left over continues with what has not been read.
LEMMA AlignedJoin ==
    ASSUME NEW a \in Seq(Cell), NEW b \in Seq(Cell), NEW v \in Seq(Cell),
           NEW h \in Nat, NEW g \in Nat, Aligned(a \o v, h), Aligned(b, g),
           Cells(h) + Len(a) = Cells(g) + Len(b)
    PROVE  Aligned(b \o v, g)
<1>0. \A j \in DOMAIN v : Cells(g) + (Len(b) + j) = Cells(h) + (Len(a) + j)
  <2> DEFINE x == Len(a)
             y == Len(b)
             p == Cells(g)
             q == Cells(h)
  <2>1. x \in Nat /\ y \in Nat
    OBVIOUS
  <2>4. p \in Nat /\ q \in Nat
    BY CellsNat
  <2>5. q + x = p + y
    OBVIOUS
  <2>2. \A j \in DOMAIN v : j \in Nat
    OBVIOUS
  <2> HIDE DEF x, y, p, q
  <2>3. \A j \in Nat : p + (y + j) = q + (x + j)
    BY <2>1, <2>4, <2>5
  <2> QED
    BY <2>2, <2>3 DEF p, q, x, y
<1>1. ASSUME NEW i \in DOMAIN (b \o v)
      PROVE  Cells((b \o v)[i].of - 1) + (b \o v)[i].at = Cells(g) + i
  <2>1. CASE i \in DOMAIN b
    <3>1. (b \o v)[i] = b[i]
      BY <2>1, ConcatAt
    <3> QED
      BY <2>1, <3>1, Zenon DEF Aligned
  <2>2. CASE \E j \in DOMAIN v : i = Len(b) + j
    <3> PICK j \in DOMAIN v : i = Len(b) + j
      BY <2>2
    <3> DEFINE k == Len(a) + j
    <3>1. (b \o v)[i] = v[j] /\ k \in DOMAIN (a \o v) /\ (a \o v)[k] = v[j]
      <4>1. (b \o v)[Len(b) + j] = v[j]
        BY ConcatRight
      <4>2. k \in DOMAIN (a \o v) /\ (a \o v)[k] = v[j]
        BY ConcatRight
      <4> QED
        BY <4>1, <4>2, Zenon
    <3>2. Cells(g) + i = Cells(h) + k
      BY <1>0, Zenon
    <3> HIDE DEF k
    <3>3. Cells((a \o v)[k].of - 1) + (a \o v)[k].at = Cells(h) + k
      BY <3>1, Zenon DEF Aligned
    <3> QED
      BY <3>1, <3>2, <3>3, Zenon
  <2>3. i \in DOMAIN b \/ \E j \in DOMAIN v : i = Len(b) + j
    BY ConcatAt
  <2> QED
    BY <2>1, <2>2, <2>3
<1> QED
  BY <1>1, Zenon DEF Aligned


\* The read loop goes on with frames that were sent and that follow the ones
\* it has handled.
GoesOn(fs) ==
    /\ fs \in Seq(Nat)
    /\ \A i \in DOMAIN fs : fs[i] = Len(handled) + i /\ fs[i] \in DOMAIN sent
    /\ handled' = handled \o fs /\ reader = "running" /\ reader' = "running"
    /\ calls' = Answered(fs) /\ pending' = pending \ RepliedTo(fs)
    /\ deliveries' = Queued(fs)

\* The read loop ends.
Ends ==
    /\ reader = "running" /\ reader' = "ended" /\ handled' = handled
    /\ LoopOver /\ deliveries' = deliveries

\* A turn of the read loop.
LEMMA ReadNet ==
    ASSUME NetOK, NEW k \in Nat, Read(k)
    PROVE  /\ NetOK'
           /\ Ends \/ \E fs \in Seq(Nat) : GoesOn(fs)
           /\ UNCHANGED <<net, sent, commands, given, writer, rid, registered>>
<1> DEFINE data == SubSeq(wire, 1, k)
           rest == SubSeq(wire, k + 1, Len(wire))
           r == feed(data)
           h == Len(handled)
           end == Cells(h) + Len(buf \o data)
<1>1. /\ reader = "running" /\ k \in 1..Len(wire) /\ wire' = rest /\ buf' = r.buf
      /\ UNCHANGED <<net, sent, commands, consuming, given, writer, connects, rid, registered>>
      /\ \/ /\ r.error /\ reader' = "ended" /\ handled' = handled
            /\ LoopOver /\ deliveries' = deliveries
         \/ /\ ~r.error /\ reader' = "running" /\ handled' = handled \o r.frames
            /\ calls' = Answered(r.frames) /\ pending' = pending \ RepliedTo(r.frames)
            /\ deliveries' = Queued(r.frames)
  BY DEF Read
<1>2. /\ wire \in Seq(Cell) /\ buf \in Seq(Cell) /\ sent \in Seq(Frame) /\ handled \in Seq(Nat)
      /\ h \in Nat /\ Len(sent) \in Nat /\ Len(buf) \in Nat /\ Len(wire) \in Nat
      /\ Aligned(buf \o wire, h)
      /\ Cells(h) + Len(buf) + Len(wire) <= Cells(Len(sent))
      /\ net = "up" => Cells(h) + Len(buf) + Len(wire) = Cells(Len(sent))
  BY <1>1 DEF NetOK, NetTyped, StreamOK
<1>3. /\ data \in Seq(Cell) /\ Len(data) = k
      /\ rest \in Seq(Cell) /\ Len(rest) = Len(wire) - k /\ wire = data \o rest
  <2>1. k \in 0..Len(wire)
    BY <1>1
  <2> QED
    BY <1>2, <2>1, CutInTwo
<1> HIDE DEF data, rest
<1>4. Aligned((buf \o data) \o rest, h) /\ Aligned(buf \o data, h)
  BY <1>2, <1>3, AlignedParts
<1>5. Len(buf \o data) = Len(buf) + k /\ buf \o data \in Seq(Cell)
  <2>1. data \in Seq(Cell) /\ buf \in Seq(Cell)
    BY <1>2, <1>3
  <2>2. Len(buf \o data) = Len(buf) + Len(data) /\ buf \o data \in Seq(Cell)
    BY <2>1, ConcatAt, Zenon
  <2> QED
    BY <1>3, <2>2, Zenon
<1>6. end <= Cells(Len(sent)) /\ end \in Nat
  <2> DEFINE c == Cells(h)
             x == Len(buf)
             y == Len(wire)
             m == Cells(Len(sent))
  <2>1. c \in Nat /\ m \in Nat
    <3>1. h \in Nat /\ Len(sent) \in Nat /\ 0 \in Nat
      BY <1>2
    <3> HIDE DEF h
    <3> QED
      BY <3>1, CellsNat, Zenon
  <2>2. x \in Nat /\ y \in Nat /\ c + x + y <= m /\ end = c + (x + k) /\ k \in 1..y
    BY <1>1, <1>2, <1>5, Zenon
  <2> HIDE DEF c, x, y, m, end
  <2> QED
    BY <2>1, <2>2 DEF m
<1>7. TurnOK(r, h, end) /\ (Intact => Len(r.buf) < FrameSize)
  BY <1>2, <1>3, <1>4, <1>6, FeedView
<1>8. /\ r.buf \in Seq(Cell) /\ r.frames \in Seq(Nat) /\ Len(r.frames) \in Nat
      /\ Len(r.buf) \in Nat
  BY <1>7 DEF TurnOK
<1> HIDE DEF r
<1>9. CASE /\ r.error /\ reader' = "ended" /\ handled' = handled
           /\ LoopOver /\ deliveries' = deliveries
  <2>1. NetTyped'
    BY <1>1, <1>3, <1>8, <1>9 DEF NetOK, NetTyped
  <2>2. HandledOK' /\ StreamOK'
    BY <1>1, <1>9 DEF NetOK, HandledOK, StreamOK
  <2> QED
    BY <1>1, <1>9, <2>1, <2>2 DEF NetOK, Ends
<1>10. CASE /\ ~r.error /\ reader' = "running" /\ handled' = handled \o r.frames
            /\ calls' = Answered(r.frames) /\ pending' = pending \ RepliedTo(r.frames)
            /\ deliveries' = Queued(r.frames)
  <2> DEFINE g == h + Len(r.frames)
  <2>1. /\ \A i \in DOMAIN r.frames : r.frames[i] = h + i /\ sent[h + i].damage = "none"
        /\ Aligned(r.buf, g) /\ Cells(g) + Len(r.buf) = end
    BY <1>7, <1>10 DEF TurnOK
  <2>2. g \in Nat /\ handled' \in Seq(Nat) /\ Len(handled') = g
    BY <1>2, <1>8, <1>10, ConcatAt
  <2>3. NetTyped'
    BY <1>1, <1>3, <1>8, <1>10, <2>2 DEF NetOK, NetTyped
  <2> HIDE DEF g
  <2>4. g <= Len(sent)
    <3>1. /\ Len(r.buf) \in Nat /\ Len(sent) \in Nat /\ g \in Nat
          /\ Cells(g) + Len(r.buf) <= Cells(Len(sent))
      <4> HIDE DEF end
      <4> QED
        BY <1>2, <1>6, <1>8, <2>1, <2>2, Zenon
    <3> QED
      BY <3>1, CellsBound, Zenon
  <2>5. ASSUME NEW i \in DOMAIN handled' PROVE handled'[i] = i /\ sent[i].damage = "none"
    <3>1. i \in DOMAIN handled \/ \E j \in DOMAIN r.frames : i = h + j
      <4>1. handled \in Seq(Nat) /\ r.frames \in Seq(Nat) /\ i \in DOMAIN (handled \o r.frames)
        BY <1>2, <1>8, <1>10
      <4> QED
        BY <4>1, ConcatAt
    <3>2. CASE i \in DOMAIN handled
      <4>1. handled'[i] = handled[i]
        BY <1>2, <1>8, <1>10, <3>2, ConcatAt
      <4> QED
        BY <3>2, <4>1 DEF NetOK, HandledOK
    <3>3. CASE \E j \in DOMAIN r.frames : i = h + j
      <4> PICK j \in DOMAIN r.frames : i = h + j
        BY <3>3
      <4>1. (handled \o r.frames)[h + j] = r.frames[j]
        <5>1. handled \in Seq(Nat) /\ r.frames \in Seq(Nat)
          BY <1>2, <1>8
        <5> QED
          BY <5>1, ConcatRight
      <4> QED
        BY <1>10, <2>1, <4>1
    <3> QED
      BY <3>1, <3>2, <3>3
  <2>6. HandledOK'
    BY <1>1, <2>2, <2>4, <2>5 DEF HandledOK
  <2>7. Aligned(r.buf \o rest, g)
    <3>1. Cells(h) + Len(buf \o data) = Cells(g) + Len(r.buf)
      BY <2>1
    <3> QED
      BY <1>2, <1>3, <1>4, <1>5, <1>8, <2>1, <2>2, <3>1, AlignedJoin
  <2>8. Cells(g) + Len(r.buf) + Len(rest) = Cells(h) + Len(buf) + Len(wire)
    <3>1. Cells(g) + Len(r.buf) = Cells(h) + (Len(buf) + k)
      BY <1>5, <2>1
    <3>2. Cells(h) \in Nat
      <4>1. h \in Nat /\ 0 \in Nat
        BY <1>2
      <4> HIDE DEF h
      <4> QED
        BY <4>1, CellsNat, Zenon
    <3>4. k \in Nat /\ k <= Len(wire) /\ Len(buf) \in Nat /\ Len(wire) \in Nat
      BY <1>1, <1>2
    <3>5. Cells(g) + Len(r.buf) + (Len(wire) - k) = Cells(h) + Len(buf) + Len(wire)
      BY <3>1, <3>2, <3>4, Regroup
    <3> QED
      BY <1>3, <3>5, Zenon
  <2>9. Intact' => Len(buf') < FrameSize
    BY <1>1, <1>7 DEF Intact
  <2>10. StreamOK'
    BY <1>1, <1>2, <2>2, <2>7, <2>8, <2>9 DEF StreamOK
  <2>11. \A i \in DOMAIN r.frames : h + i \in DOMAIN sent
    <3> DEFINE m == Len(r.frames)
               n == Len(sent)
    <3>1. m \in Nat /\ n \in Nat /\ h \in Nat /\ h + m <= n
      BY <1>2, <1>8, <2>4 DEF g
    <3>2. DOMAIN r.frames = 1..m /\ DOMAIN sent = 1..n
      BY <1>2, <1>8
    <3> HIDE DEF m, n, h
    <3> QED
      BY <3>1, <3>2
  <2>12. GoesOn(r.frames)
    BY <1>1, <1>8, <1>10, <2>1, <2>11 DEF GoesOn
  <2> QED
    BY <1>1, <1>8, <2>3, <2>6, <2>10, <2>12 DEF NetOK
<1> QED
  BY <1>1, <1>9, <1>10


-----------------------------------------------------------------------------
(* The calls.                                                              *)

\* A coroutine's fields agree with where it waits, and a reply it was given
\* is the reply to its own command.
CallOK(c) ==
    LET x == calls[c]
    IN  /\ x.rid <= rid
        /\ x.at = "new" => x.rid = 0 /\ x.future = "none" /\ x.outcome = "none"
        /\ x.at \in {"drain", "wait"} => x.rid >= 1 /\ x.future # "none"
        /\ x.at = "deliver" => Kind[c] = "consume"
        /\ x.at # "done" => x.outcome = "none" /\ x.token = None
        /\ x.future = "set" =>
              /\ x.reply \in Frame /\ x.reply.call = c
              /\ x.reply.token # None => x.reply.ok /\ Kind[c] = "get"

CallsTyped ==
    /\ rid \in Nat
    /\ pending \subseteq 1..rid
    /\ calls \in [Calls -> Call]
    /\ deliveries \in Seq(Tokens)
    /\ registered \in BOOLEAN

\* No two requests have the same id.
RidsDiffer ==
    \A c, d \in Calls : calls[c].rid = calls[d].rid /\ calls[c].rid # 0 => c = d

\* A response is to a request that was made, under its id.
FrameOK(f) ==
    /\ f.type = "response" =>
          /\ f.call \in Calls /\ f.rid = calls[f.call].rid /\ f.rid >= 1
          /\ f.token # None => f.ok /\ Kind[f.call] = "get"
    /\ f.type = "event" => f.token \in Tokens

TrafficOK ==
    /\ \A n \in DOMAIN sent : FrameOK(sent[n])
    /\ \A i \in DOMAIN commands : calls[commands[i]].rid >= 1

ClientInv ==
    /\ NetOK
    /\ CallsTyped
    /\ \A c \in Calls : CallOK(c)
    /\ RidsDiffer
    /\ TrafficOK
    /\ PendingAgrees
    /\ EndWakesRequests

LEMMA FreshCall == Fresh \in Call
BY DEF Fresh, Call

LEMMA InitHolds == Init => ClientInv
<1> SUFFICES ASSUME Init PROVE ClientInv
  OBVIOUS
<1> USE ClientAssumption
<1>1. \A c \in Calls : calls[c] = Fresh
  BY DEF Init
<1>0. \A S : << >> \in Seq(S)
  OBVIOUS
<1>2. NetTyped
  <2>1. connects \in 0..ConnectBound
    BY DEF Init
  <2> QED
    BY <1>0, <2>1, Zenon DEF Init, NetTyped
<1>3. HandledOK /\ StreamOK
  BY DEF Init, HandledOK, StreamOK
<1>4. CallsTyped
  <2>1. rid \in Nat /\ pending \subseteq 1..rid /\ calls \in [Calls -> Call]
    BY FreshCall DEF Init
  <2> QED
    BY <1>0, <2>1, Zenon DEF Init, CallsTyped
<1>5. (\A c \in Calls : CallOK(c)) /\ RidsDiffer
  BY <1>1 DEF Init, CallOK, RidsDiffer, Fresh
<1>6. TrafficOK
  BY DEF Init, TrafficOK
<1>7. PendingAgrees /\ EndWakesRequests
  BY <1>1 DEF Init, PendingAgrees, EndWakesRequests, Waiting, Fresh
<1> QED
  BY <1>2, <1>3, <1>4, <1>5, <1>6, <1>7 DEF ClientInv, NetOK


-----------------------------------------------------------------------------
(* The stream, action by action.                                           *)

LEMMA NetSame ==
    ASSUME NetOK, UNCHANGED <<wire, net, sent, readVars, consuming, given, connects>>,
           commands' \in Seq(Calls), writer' \in {"none", "open", "closing"}
    PROVE  NetOK'
BY DEF NetOK, NetTyped, HandledOK, StreamOK, Intact, readVars

\* Once the read loop is over, what was handled is all that matters.
LEMMA NetOver ==
    ASSUME NetOK, UNCHANGED <<sent, handled, consuming, given, connects>>, reader' \in {"none", "ended"},
           buf' \in Seq(Cell), wire' \in Seq(Cell), commands' \in Seq(Calls),
           net' \in {"none", "up", "lost"}, writer' \in {"none", "open", "closing"}
    PROVE  NetOK'
BY DEF NetOK, NetTyped, HandledOK, StreamOK

LEMMA Empty ==
    /\ \A S : << >> \in Seq(S)
    /\ Len(<< >>) = 0 /\ DOMAIN << >> = {} /\ << >> \o << >> = << >>
OBVIOUS

LEMMA ConnectNet ==
    ASSUME NetOK, connect
    PROVE  NetOK'
<1>1. /\ connects' \in 0..ConnectBound /\ writer' = "open" /\ reader' = "running" /\ net' = "up"
      /\ wire' = << >> /\ sent' = << >> /\ buf' = << >> /\ handled' = << >> /\ commands' = << >>
      /\ given' = given
  BY ClientAssumption DEF connect, NetOK, NetTyped
<1>2. consuming' \in BOOLEAN
  BY Zenon DEF connect
<1>3. NetTyped'
  BY <1>1, <1>2, Empty, Zenon DEF NetOK, NetTyped
<1>4. HandledOK'
  BY <1>1, Empty DEF HandledOK
<1>5. Aligned(buf' \o wire', Len(handled'))
  BY <1>1, Empty DEF Aligned
<1>6. Cells(Len(handled')) + Len(buf') + Len(wire') = Cells(Len(sent'))
  BY <1>1, Empty DEF Cells
<1>7. Cells(Len(handled')) + Len(buf') + Len(wire') <= Cells(Len(sent'))
  BY <1>1, Empty DEF Cells
<1>8. Len(buf') < FrameSize
  BY <1>1, Empty, Sizes
<1> QED
  BY <1>3, <1>4, <1>5, <1>6, <1>7, <1>8 DEF NetOK, StreamOK

LEMMA CloseNet ==
    ASSUME NetOK, close
    PROVE  NetOK'
<1>1. /\ UNCHANGED <<sent, handled, consuming, given, connects, buf>>
      /\ reader' = "none" /\ net' = "lost" /\ writer' = "closing"
      /\ wire' = << >> /\ commands' = << >>
  BY DEF close
<1> QED
  BY <1>1, NetOver, Empty DEF NetOK, NetTyped

LEMMA EndsNet ==
    ASSUME NetOK, ReadEnds
    PROVE  NetOK' /\ Ends
<1>1. /\ UNCHANGED <<sent, handled, consuming, given, connects, buf, wire, net, writer, commands>>
      /\ reader' = "ended" /\ Ends
  BY DEF ReadEnds, netVars, Ends
<1> QED
  BY <1>1, NetOver DEF NetOK, NetTyped

LEMMA LoseNet ==
    ASSUME NetOK, NEW k \in Nat, Lose(k)
    PROVE  NetOK'
<1> DEFINE rest == SubSeq(wire, k + 1, Len(wire))
<1>1. /\ UNCHANGED <<sent, consuming, given, reader, buf, handled, writer, connects>>
      /\ k \in 0..Len(wire) /\ net' = "lost" /\ wire' = SubSeq(wire, 1, k) /\ commands' = << >>
  BY DEF Lose, readVars
<1>2. wire \in Seq(Cell) /\ buf \in Seq(Cell) /\ handled \in Seq(Nat)
  BY DEF NetOK, NetTyped
<1>3. wire' \in Seq(Cell) /\ Len(wire') = k /\ rest \in Seq(Cell) /\ wire = wire' \o rest
  BY <1>1, <1>2, CutInTwo
<1>4. NetTyped' /\ HandledOK'
  BY <1>1, <1>3, Empty DEF NetOK, NetTyped, HandledOK
<1> HIDE DEF rest
<1>5. ASSUME reader = "running"
      PROVE  /\ Aligned(buf \o wire', Len(handled))
             /\ Cells(Len(handled)) + Len(buf) + Len(wire') <= Cells(Len(sent))
             /\ Intact => Len(buf) < FrameSize
  <2>1. /\ Aligned(buf \o wire, Len(handled))
        /\ Cells(Len(handled)) + Len(buf) + Len(wire) <= Cells(Len(sent))
        /\ Intact => Len(buf) < FrameSize
    BY <1>5 DEF NetOK, StreamOK
  <2>2. Aligned(buf \o wire', Len(handled))
    <3> DEFINE w == wire'
               h == Len(handled)
    <3>1. w \in Seq(Cell) /\ h \in Nat /\ Aligned(buf \o (w \o rest), h)
      BY <1>2, <1>3, <2>1
    <3> HIDE DEF w, h
    <3> QED
      BY <1>2, <1>3, <3>1, AlignedParts DEF w, h
  <2>3. Cells(Len(handled)) + Len(buf) + Len(wire') <= Cells(Len(sent))
    <3> DEFINE a == Cells(Len(handled))
               b == Len(buf)
               m == Cells(Len(sent))
    <3>1. Len(handled) \in Nat /\ Len(sent) \in Nat /\ b \in Nat /\ Len(wire) \in Nat
      BY <1>2 DEF NetOK, NetTyped
    <3>2. a \in Nat /\ m \in Nat
      BY <3>1, CellsNat
    <3>3. a + b + Len(wire) <= m /\ Len(wire') <= Len(wire) /\ Len(wire') \in Nat
      BY <1>1, <1>3, <2>1, <3>1
    <3> HIDE DEF a, b, m
    <3>4. a + b + Len(wire') <= m
      BY <3>1, <3>2, <3>3
    <3> QED
      BY <3>4 DEF a, b, m
  <2> QED
    BY <2>1, <2>2, <2>3
<1>6. StreamOK'
  BY <1>1, <1>5 DEF StreamOK, Intact
<1> QED
  BY <1>4, <1>6 DEF NetOK


LEMMA SendNet ==
    ASSUME NetOK, NEW f \in Frame, Send(f), commands' \in Seq(Calls), consuming' \in BOOLEAN
    PROVE  NetOK'
<1> DEFINE n == Len(sent)
           e == encode_frame(n + 1)
           h == Len(handled)
<1>1. /\ UNCHANGED <<net, reader, buf, handled, writer, connects>> /\ net = "up"
      /\ sent' = Append(sent, f) /\ wire' = wire \o e
      /\ given' = given \cup ({f.token} \ {None})
  BY DEF Send, readVars
<1>2. /\ wire \in Seq(Cell) /\ buf \in Seq(Cell) /\ handled \in Seq(Nat) /\ sent \in Seq(Frame)
      /\ n \in Nat /\ h \in Nat
  BY DEF NetOK, NetTyped
<1>3. e \in Seq(Cell) /\ Len(e) = 3
  <2> DEFINE m == n + 1
  <2>1. m \in Nat \ {0}
    BY <1>2
  <2> HIDE DEF m
  <2>2. encode_frame(m) \in Seq(Cell) /\ Len(encode_frame(m)) = 3
    BY <2>1, EncodeView
  <2> QED
    BY <2>2 DEF m
<1> HIDE DEF e
<1>4. /\ sent' \in Seq(Frame) /\ Len(sent') = n + 1
      /\ \A i \in DOMAIN sent : i \in DOMAIN sent' /\ sent'[i] = sent[i]
  BY <1>1, <1>2
<1>5. wire' \in Seq(Cell) /\ Len(wire') = Len(wire) + 3
  <2>1. wire \o e \in Seq(Cell) /\ Len(wire \o e) = Len(wire) + Len(e)
    <3>1. wire \in Seq(Cell) /\ e \in Seq(Cell)
      BY <1>2, <1>3
    <3> QED
      BY <3>1, ConcatAt
  <2> QED
    BY <1>1, <1>3, <2>1
<1>6. f.token \in Tokens \cup {None}
  BY DEF Frame
<1>7. NetTyped'
  <2>1. given' \subseteq Tokens
    BY <1>1, <1>6 DEF NetOK, NetTyped
  <2> QED
    BY <1>1, <1>4, <1>5, <2>1 DEF NetOK, NetTyped
<1>8. HandledOK'
  <2>1. h <= n /\ \A i \in DOMAIN handled : handled[i] = i /\ sent[i].damage = "none"
    BY DEF NetOK, HandledOK
  <2>2. h <= n + 1
    BY <1>2, <2>1
  <2>3. \A i \in DOMAIN handled : i \in DOMAIN sent
    <3>1. DOMAIN handled = 1..h /\ DOMAIN sent = 1..n
      BY <1>2
    <3> HIDE DEF h, n
    <3> QED
      BY <1>2, <2>1, <3>1
  <2> QED
    BY <1>1, <1>4, <2>1, <2>2, <2>3 DEF HandledOK
<1>9. ASSUME reader = "running"
      PROVE  /\ Aligned(buf \o wire', h)
             /\ Cells(h) + Len(buf) + Len(wire') = Cells(n + 1)
             /\ Intact' => Len(buf) < FrameSize
  <2>1. /\ Aligned(buf \o wire, h) /\ Cells(h) + Len(buf) + Len(wire) = Cells(n)
        /\ Intact => Len(buf) < FrameSize
    BY <1>1, <1>9 DEF NetOK, StreamOK
  <2> HIDE DEF n, h
  <2>2. Intact' => Intact
    BY <1>4 DEF Intact
  <2>3. buf \o wire \in Seq(Cell) /\ Len(buf \o wire) = Len(buf) + Len(wire)
    BY <1>2, ConcatAt
  <2>4. Cells(h) \in Nat /\ Cells(n) \in Nat /\ Len(buf) \in Nat /\ Len(wire) \in Nat
    <3>1. Cells(h) \in Nat /\ Cells(n) \in Nat
      BY <1>2, CellsNat, Zenon
    <3>2. Len(buf) \in Nat /\ Len(wire) \in Nat
      BY <1>2
    <3> QED
      BY <3>1, <3>2
  <2>5. Cells(h) + Len(buf \o wire) = Cells(n)
    <3>1. Cells(h) + (Len(buf) + Len(wire)) = Cells(n)
      BY <2>1, <2>4
    <3> QED
      BY <2>3, <3>1
  <2>6. Aligned((buf \o wire) \o e, h)
    BY <1>2, <2>1, <2>3, <2>5, SendAligned DEF e
  <2>7. (buf \o wire) \o e = buf \o wire'
    <3>1. wire \in Seq(Cell) /\ e \in Seq(Cell) /\ buf \in Seq(Cell)
      BY <1>2, <1>3
    <3>2. (buf \o wire) \o e = buf \o (wire \o e)
      BY <3>1, ConcatAssociative
    <3> QED
      BY <1>1, <3>2, Zenon
  <2>8. Cells(n) + (0 + 3) = Cells(n + 1) + 0
    BY <1>2, CellsNext
  <2>9. Cells(n + 1) \in Nat
    BY <1>2, CellsNat
  <2> DEFINE a == Cells(h)
             b == Len(buf)
             c == Len(wire)
             m == Cells(n)
             l == Cells(n + 1)
             w == Len(wire')
  <2>10. /\ a \in Nat /\ b \in Nat /\ c \in Nat /\ m \in Nat /\ l \in Nat
         /\ a + b + c = m /\ w = c + 3 /\ m + (0 + 3) = l + 0
    BY <1>5, <2>1, <2>4, <2>8, <2>9
  <2> HIDE DEF a, b, c, m, l, w
  <2>11. a + b + w = l
    BY <2>10
  <2> QED
    BY <2>1, <2>2, <2>6, <2>7, <2>11 DEF a, b, l, w
<1>10. Cells(n + 1) \in Nat
  BY <1>2, CellsNat
<1> HIDE DEF h, n
<1>11. reader = "running" => Cells(h) + Len(buf) + Len(wire') <= Cells(n + 1)
  BY <1>9, <1>10
<1>12. Len(handled') = h /\ Len(sent') = n + 1 /\ buf' = buf /\ reader' = reader
  BY <1>1, <1>4 DEF h
<1>13. StreamOK'
  BY <1>9, <1>11, <1>12 DEF StreamOK
<1> QED
  BY <1>7, <1>8, <1>13 DEF NetOK


-----------------------------------------------------------------------------
(* The calls, action by action.                                            *)

\* What the network holds still names requests that were made.
LEMMA TrafficKept ==
    ASSUME ClientInv, UNCHANGED sent,
           \A c \in Calls : calls'[c].rid = calls[c].rid \/ calls[c].rid = 0,
           \A i \in DOMAIN commands' : calls'[commands'[i]].rid >= 1
    PROVE  TrafficOK'
<1>1. ASSUME NEW n \in DOMAIN sent PROVE FrameOK(sent[n])'
  <2>1. FrameOK(sent[n]) /\ sent'[n] = sent[n]
    BY DEF ClientInv, TrafficOK
  <2>2. sent[n].type = "response" => sent[n].rid = calls'[sent[n].call].rid
    BY <2>1 DEF FrameOK
  <2> QED
    BY <2>1, <2>2 DEF FrameOK
<1> QED
  BY <1>1 DEF TrafficOK

LEMMA CommandsKept ==
    ASSUME ClientInv, \A c \in Calls : calls'[c].rid = calls[c].rid, commands' = commands
    PROVE  \A i \in DOMAIN commands' : calls'[commands'[i]].rid >= 1
<1>1. \A i \in DOMAIN commands : commands[i] \in Calls
  BY DEF ClientInv, NetOK, NetTyped
<1> QED
  BY <1>1 DEF ClientInv, TrafficOK

LEMMA CallFields ==
    ASSUME CallsTyped, NEW c \in Calls
    PROVE  calls[c] \in Call /\ calls[c].rid \in Nat
BY DEF CallsTyped, Call

\* What EndFutures leaves of a call, and what it changes.
LEMMA EndView ==
    ASSUME CallsTyped, NEW rids, NEW end \in {"failed", "cancelled"},
           calls' = EndFutures(rids, end)
    PROVE  /\ calls' \in [Calls -> Call]
           /\ \A c \in Calls :
                /\ calls'[c].at = calls[c].at /\ calls'[c].rid = calls[c].rid
                /\ calls'[c].reply = calls[c].reply /\ calls'[c].token = calls[c].token
                /\ calls'[c].outcome = calls[c].outcome /\ calls'[c].late = calls[c].late
                /\ calls'[c].future =
                      IF Waiting(c) /\ calls[c].future = "pending" /\ calls[c].rid \in rids
                      THEN end ELSE calls[c].future
<1>1. ASSUME NEW c \in Calls
      PROVE  /\ calls'[c] \in Call
             /\ calls'[c].at = calls[c].at /\ calls'[c].rid = calls[c].rid
             /\ calls'[c].reply = calls[c].reply /\ calls'[c].token = calls[c].token
             /\ calls'[c].outcome = calls[c].outcome /\ calls'[c].late = calls[c].late
             /\ calls'[c].future =
                   IF Waiting(c) /\ calls[c].future = "pending" /\ calls[c].rid \in rids
                   THEN end ELSE calls[c].future
  <2> DEFINE cond == Waiting(c) /\ calls[c].future = "pending" /\ calls[c].rid \in rids
  <2>1. calls'[c] = IF cond THEN [calls[c] EXCEPT !.future = end] ELSE calls[c]
    BY DEF EndFutures
  <2>2. calls[c] \in Call
    BY CallFields
  <2> HIDE DEF cond
  <2>3. CASE cond
    BY <2>1, <2>2, <2>3 DEF Call, cond
  <2>4. CASE ~cond
    BY <2>1, <2>2, <2>4 DEF cond
  <2> QED
    BY <2>3, <2>4
<1>2. calls' = [c \in Calls |-> calls'[c]]
  BY DEF EndFutures
<1> QED
  BY <1>1, <1>2

\* The end of the read loop and the end of close() leave no request waiting.
LEMMA OverCalls ==
    ASSUME ClientInv, NEW end \in {"failed", "cancelled"}, calls' = EndFutures(pending, end),
           pending' = {}, UNCHANGED <<rid, deliveries, registered>>
    PROVE  /\ CallsTyped' /\ (\A c \in Calls : CallOK(c)') /\ RidsDiffer'
           /\ PendingAgrees' /\ EndWakesRequests'
           /\ \A c \in Calls : calls'[c].rid = calls[c].rid
<1>1. CallsTyped /\ \A c \in Calls : CallOK(c)
  BY DEF ClientInv
<1>2. /\ calls' \in [Calls -> Call]
      /\ \A c \in Calls :
           /\ calls'[c].at = calls[c].at /\ calls'[c].rid = calls[c].rid
           /\ calls'[c].reply = calls[c].reply /\ calls'[c].token = calls[c].token
           /\ calls'[c].outcome = calls[c].outcome /\ calls'[c].late = calls[c].late
           /\ calls'[c].future =
                 IF Waiting(c) /\ calls[c].future = "pending" /\ calls[c].rid \in pending
                 THEN end ELSE calls[c].future
  BY <1>1, EndView
<1>3. CallsTyped'
  BY <1>1, <1>2 DEF CallsTyped
<1>4. ASSUME NEW c \in Calls PROVE CallOK(c)'
  <2>1. CallOK(c)
    BY <1>1
  <2>2. calls'[c].future = "set" => calls[c].future = "set"
    BY <1>2
  <2>3. calls'[c].future = "none" <=> calls[c].future = "none"
    BY <1>2
  <2> QED
    BY <1>2, <2>1, <2>2, <2>3 DEF CallOK
<1>5. RidsDiffer'
  BY <1>2 DEF ClientInv, RidsDiffer
<1>6. ASSUME NEW c \in Calls, Waiting(c)', calls'[c].future = "pending" PROVE FALSE
  <2>1. Waiting(c) /\ calls[c].future = "pending"
    BY <1>2, <1>6 DEF Waiting
  <2>2. calls[c].rid \in pending
    BY <2>1 DEF ClientInv, PendingAgrees
  <2> QED
    BY <1>2, <1>6, <2>1, <2>2
<1> QED
  BY <1>2, <1>3, <1>4, <1>5, <1>6 DEF PendingAgrees, EndWakesRequests


\* What the replies among some frames do to a call.
LEMMA AnsweredView ==
    ASSUME ClientInv, NEW fs, GoesOn(fs), NEW c \in Calls
    PROVE  /\ calls'[c] \in Call
           /\ calls'[c].at = calls[c].at /\ calls'[c].rid = calls[c].rid
           /\ calls'[c].token = calls[c].token /\ calls'[c].outcome = calls[c].outcome
           /\ calls'[c].late = calls[c].late
           /\ \/ /\ calls'[c] = calls[c]
                 /\ Waiting(c) /\ calls[c].future = "pending" => calls[c].rid \notin RepliedTo(fs)
              \/ /\ Waiting(c) /\ calls[c].future = "pending" /\ calls[c].rid \in RepliedTo(fs)
                 /\ calls'[c].future = "set"
                 /\ \E i \in DOMAIN fs :
                       /\ calls'[c].reply = sent[fs[i]] /\ sent[fs[i]] \in Frame
                       /\ sent[fs[i]].type = "response" /\ sent[fs[i]].call = c
                       /\ FrameOK(sent[fs[i]])
<1> DEFINE mine == {i \in DOMAIN fs : IsReply(fs[i]) /\ sent[fs[i]].rid = calls[c].rid}
           w == CHOOSE i \in mine : TRUE
           cond == Waiting(c) /\ calls[c].future = "pending" /\ calls[c].rid \in pending /\ mine # {}
<1>1. calls' = Answered(fs) /\ \A i \in DOMAIN fs : fs[i] \in DOMAIN sent
  BY DEF GoesOn
<1>2. calls'[c] = IF cond THEN [calls[c] EXCEPT !.future = "set", !.reply = sent[fs[w]]]
                  ELSE calls[c]
  BY <1>1 DEF Answered
<1>3. calls[c] \in Call /\ calls[c].rid \in Nat /\ CallsTyped
  BY CallFields DEF ClientInv
<1>4. mine # {} <=> calls[c].rid \in RepliedTo(fs)
  BY DEF RepliedTo
<1>5. Waiting(c) /\ calls[c].future = "pending" => calls[c].rid \in pending
  BY DEF ClientInv, PendingAgrees
<1>6. CASE cond
  <2>1. w \in mine
    BY <1>6
  <2> DEFINE f == sent[fs[w]]
  <2>2. f \in Frame /\ FrameOK(f) /\ f.type = "response" /\ f.rid = calls[c].rid /\ w \in DOMAIN fs
    BY <1>1, <2>1 DEF IsReply, ClientInv, NetOK, NetTyped, TrafficOK
  <2> HIDE DEF w, mine
  <2>3. f.call = c
    <3>1. f.call \in Calls /\ f.rid = calls[f.call].rid /\ f.rid >= 1
      BY <2>2 DEF FrameOK
    <3>2. calls[f.call].rid = calls[c].rid /\ calls[c].rid # 0
      BY <1>3, <2>2, <3>1
    <3> QED
      BY <3>1, <3>2 DEF ClientInv, RidsDiffer
  <2>4. calls'[c] = [calls[c] EXCEPT !.future = "set", !.reply = f]
    BY <1>2, <1>6
  <2> HIDE DEF f
  <2>5. /\ calls'[c] \in Call /\ calls'[c].future = "set" /\ calls'[c].reply = f
        /\ calls'[c].at = calls[c].at /\ calls'[c].rid = calls[c].rid
        /\ calls'[c].token = calls[c].token /\ calls'[c].outcome = calls[c].outcome
        /\ calls'[c].late = calls[c].late
    BY <1>3, <2>2, <2>4 DEF Call
  <2>6. \E i \in DOMAIN fs :
           /\ calls'[c].reply = sent[fs[i]] /\ sent[fs[i]] \in Frame
           /\ sent[fs[i]].type = "response" /\ sent[fs[i]].call = c /\ FrameOK(sent[fs[i]])
    BY <2>2, <2>3, <2>5 DEF f
  <2>7. Waiting(c) /\ calls[c].future = "pending" /\ calls[c].rid \in RepliedTo(fs)
    BY <1>4, <1>6
  <2> QED
    BY <2>5, <2>6, <2>7
<1>7. CASE ~cond
  BY <1>2, <1>3, <1>4, <1>5, <1>7
<1> QED
  BY <1>6, <1>7

\* The queue of deliveries gets the tokens of the events.
In(q, t) == \E j \in DOMAIN q : q[j] = t

Once(q) == \A i, j \in DOMAIN q : q[i] = q[j] => i = j

\* The events among fs bring tokens that are not yet queued, each its own.
BringsNew(fs) ==
    /\ Once(deliveries)
    /\ \A i \in DOMAIN fs : IsDelivery(fs[i]) =>
          /\ ~In(deliveries, sent[fs[i]].token)
          /\ \A j \in DOMAIN fs :
                IsDelivery(fs[j]) /\ sent[fs[j]].token = sent[fs[i]].token => i = j

LEMMA AppendView ==
    ASSUME NEW S, NEW q \in Seq(S), NEW t \in S
    PROVE  /\ Append(q, t) \in Seq(S)
           /\ \A x : In(Append(q, t), x) <=> In(q, x) \/ x = t
           /\ Once(q) /\ ~In(q, t) => Once(Append(q, t))
<1> DEFINE p == Append(q, t)
           n == Len(q)
<1>1. /\ p \in Seq(S) /\ DOMAIN q = 1..n /\ DOMAIN p = 1..(n + 1) /\ n \in Nat
      /\ p[n + 1] = t /\ \A i \in 1..n : p[i] = q[i]
  OBVIOUS
<1> HIDE DEF p, n
<1>2. /\ \A i \in DOMAIN p : i \in DOMAIN q \/ i = n + 1
      /\ \A i \in DOMAIN q : i \in DOMAIN p /\ p[i] = q[i] /\ i # n + 1
      /\ n + 1 \in DOMAIN p
  BY <1>1
<1>3. \A x : In(p, x) <=> In(q, x) \/ x = t
  BY <1>1, <1>2, Zenon DEF In
<1>4. ASSUME Once(q), ~In(q, t) PROVE Once(p)
  <2> SUFFICES ASSUME NEW i \in DOMAIN p, NEW j \in DOMAIN p, p[i] = p[j] PROVE i = j
    BY DEF Once
  <2>1. CASE i \in DOMAIN q /\ j \in DOMAIN q
    BY <1>2, <1>4, <2>1, Zenon DEF Once
  <2>2. CASE i \in DOMAIN q /\ j = n + 1
    BY <1>1, <1>2, <1>4, <2>2, Zenon DEF In
  <2>3. CASE i = n + 1 /\ j \in DOMAIN q
    BY <1>1, <1>2, <1>4, <2>3, Zenon DEF In
  <2> QED
    BY <1>2, <2>1, <2>2, <2>3, Zenon
<1> QED
  BY <1>1, <1>3, <1>4 DEF p

LEMMA QueuesExist ==
    ASSUME NEW fs, NEW N \in Nat
    PROVE  \E f : f = [i \in 0..N |->
                         IF i = 0 THEN deliveries
                         ELSE IF IsDelivery(fs[i]) THEN Append(f[i - 1], sent[fs[i]].token)
                         ELSE f[i - 1]]
<1> DEFINE Put(q, i) == IF IsDelivery(fs[i]) THEN Append(q, sent[fs[i]].token) ELSE q
           S == {n \in Nat :
                   \E f : f = [i \in 0..n |-> IF i = 0 THEN deliveries ELSE Put(f[i - 1], i)]}
<1> HIDE DEF Put
<1>1. 0 \in S
  <2> DEFINE f == [i \in 0..0 |-> deliveries]
  <2>1. f = [i \in 0..0 |-> IF i = 0 THEN deliveries ELSE Put(f[i - 1], i)]
    OBVIOUS
  <2> HIDE DEF f
  <2> QED
    BY <2>1
<1>2. ASSUME NEW n \in S PROVE n + 1 \in S
  <2>1. n \in Nat /\ n + 1 \in Nat
    OBVIOUS
  <2>2. PICK f : f = [i \in 0..n |-> IF i = 0 THEN deliveries ELSE Put(f[i - 1], i)]
    OBVIOUS
  <2> DEFINE g == [i \in 0..(n + 1) |-> IF i = n + 1 THEN Put(f[n], n + 1) ELSE f[i]]
  <2>3. ASSUME NEW i \in 0..(n + 1)
        PROVE  g[i] = IF i = 0 THEN deliveries ELSE Put(g[i - 1], i)
    <3>1. CASE i = n + 1
      <4>1. n \in 0..(n + 1) /\ n # n + 1 /\ i - 1 = n /\ i # 0
        BY <2>1, <3>1
      <4> QED
        BY <3>1, <4>1
    <3>2. CASE i # n + 1
      <4>1. i \in 0..n /\ g[i] = f[i]
        BY <2>1, <3>2
      <4>2. f[i] = IF i = 0 THEN deliveries ELSE Put(f[i - 1], i)
        BY <2>2, <4>1
      <4>3. i # 0 => g[i - 1] = f[i - 1]
        BY <2>1, <4>1
      <4> QED
        BY <4>1, <4>2, <4>3
    <3> QED
      BY <3>1, <3>2
  <2>4. g = [i \in 0..(n + 1) |-> g[i]]
    OBVIOUS
  <2> HIDE DEF g
  <2>5. g = [i \in 0..(n + 1) |-> IF i = 0 THEN deliveries ELSE Put(g[i - 1], i)]
    BY <2>3, <2>4
  <2> QED
    BY <2>1, <2>5
<1> HIDE DEF S
<1>3. S \in SUBSET Nat
  BY DEF S
<1>4. S = Nat
  BY <1>1, <1>2, <1>3, SetInduction
<1>5. \E f : f = [i \in 0..N |-> IF i = 0 THEN deliveries ELSE Put(f[i - 1], i)]
  BY <1>4 DEF S
<1> QED
  BY <1>5 DEF Put

LEMMA QueuedView ==
    ASSUME deliveries \in Seq(Tokens), NEW fs \in Seq(Nat),
           \A i \in DOMAIN fs : IsDelivery(fs[i]) => sent[fs[i]].token \in Tokens
    PROVE  /\ Queued(fs) \in Seq(Tokens)
           /\ \A t : In(Queued(fs), t) <=>
                        \/ In(deliveries, t)
                        \/ \E i \in DOMAIN fs : IsDelivery(fs[i]) /\ sent[fs[i]].token = t
           /\ BringsNew(fs) => Once(Queued(fs))
<1> DEFINE L == Len(fs)
           q == CHOOSE f : f = [i \in 0..L |->
                         IF i = 0 THEN deliveries
                         ELSE IF IsDelivery(fs[i]) THEN Append(f[i - 1], sent[fs[i]].token)
                         ELSE f[i - 1]]
           Tok(i) == sent[fs[i]].token
           Good(p, k) ==
              /\ p \in Seq(Tokens)
              /\ \A t : In(p, t) <=> \/ In(deliveries, t)
                                     \/ \E i \in 1..k : IsDelivery(fs[i]) /\ Tok(i) = t
              /\ BringsNew(fs) => Once(p)
           S == {k \in Nat : k <= L => Good(q[k], k)}
<1>1. Queued(fs) = q[L]
  BY DEF Queued
<1>2. L \in Nat /\ DOMAIN fs = 1..L
  OBVIOUS
<1> HIDE DEF L
<1>3. q = [i \in 0..L |-> IF i = 0 THEN deliveries
                          ELSE IF IsDelivery(fs[i]) THEN Append(q[i - 1], sent[fs[i]].token)
                          ELSE q[i - 1]]
  <2>1. \E f : f = [i \in 0..L |->
                      IF i = 0 THEN deliveries
                      ELSE IF IsDelivery(fs[i]) THEN Append(f[i - 1], sent[fs[i]].token)
                      ELSE f[i - 1]]
    BY <1>2, QueuesExist, Zenon
  <2> QED
    BY <2>1, Zenon
<1> HIDE DEF q
<1>4. 0 \in S
  <2>1. q[0] = deliveries /\ 1..0 = {}
    BY <1>2, <1>3
  <2> QED
    BY <2>1 DEF BringsNew
<1>5. ASSUME NEW k \in S PROVE k + 1 \in S
  <2> DEFINE m == k + 1
  <2>1. SUFFICES ASSUME m <= L PROVE Good(q[m], m)
    OBVIOUS
  <2>2. k \in Nat /\ m \in 1..L /\ m \in 0..L /\ m # 0 /\ m - 1 = k /\ 1..m = (1..k) \cup {m}
        /\ m \notin 1..k /\ 1..k \subseteq 1..L /\ Good(q[k], k)
    BY <1>2, <2>1
  <2> HIDE DEF m
  <2>3. q[m] = IF IsDelivery(fs[m]) THEN Append(q[k], Tok(m)) ELSE q[k]
    BY <1>3, <2>2
  <2>4. CASE IsDelivery(fs[m])
    <3>1. Tok(m) \in Tokens /\ q[k] \in Seq(Tokens) /\ q[m] = Append(q[k], Tok(m))
      BY <1>2, <2>2, <2>3, <2>4
    <3>2. /\ q[m] \in Seq(Tokens)
          /\ \A x : In(q[m], x) <=> In(q[k], x) \/ x = Tok(m)
          /\ Once(q[k]) /\ ~In(q[k], Tok(m)) => Once(q[m])
      BY <3>1, AppendView
    <3>3. ASSUME BringsNew(fs) PROVE Once(q[k]) /\ ~In(q[k], Tok(m))
      <4>1. /\ ~In(deliveries, Tok(m))
            /\ \A j \in 1..L : IsDelivery(fs[j]) /\ Tok(j) = Tok(m) => m = j
        BY <1>2, <2>2, <2>4, <3>3 DEF BringsNew
      <4> QED
        BY <2>2, <3>3, <4>1
    <3>4. \A t : In(q[m], t) <=> \/ In(deliveries, t)
                                 \/ \E i \in 1..m : IsDelivery(fs[i]) /\ Tok(i) = t
      BY <2>2, <2>4, <3>2
    <3> QED
      BY <3>2, <3>3, <3>4
  <2>5. CASE ~IsDelivery(fs[m])
    BY <2>2, <2>3, <2>5
  <2> QED
    BY <2>4, <2>5
<1>6. S \in SUBSET Nat
  OBVIOUS
<1>7. S = Nat
  <2> HIDE DEF S
  <2> QED
    BY <1>4, <1>5, <1>6, SetInduction
<1>8. Good(q[L], L)
  <2> HIDE DEF Good
  <2>1. L \in S /\ L <= L
    BY <1>2, <1>7
  <2> QED
    BY <2>1
<1> QED
  BY <1>1, <1>2, <1>8

LEMMA QueuedTyped ==
    ASSUME ClientInv, NEW fs, GoesOn(fs)
    PROVE  Queued(fs) \in Seq(Tokens)
<1>1. /\ fs \in Seq(Nat) /\ deliveries \in Seq(Tokens)
      /\ \A i \in DOMAIN fs : IsDelivery(fs[i]) => sent[fs[i]].token \in Tokens
  BY DEF GoesOn, ClientInv, CallsTyped, TrafficOK, FrameOK, IsDelivery
<1> QED
  BY <1>1, QueuedView

LEMMA GoesOnCalls ==
    ASSUME ClientInv, NEW fs, GoesOn(fs), UNCHANGED <<rid, registered, writer>>
    PROVE  /\ CallsTyped' /\ (\A c \in Calls : CallOK(c)') /\ RidsDiffer'
           /\ PendingAgrees' /\ EndWakesRequests'
           /\ \A c \in Calls : calls'[c].rid = calls[c].rid
<1>1. /\ pending' = pending \ RepliedTo(fs) /\ reader' = "running"
      /\ calls' = [c \in Calls |-> calls'[c]] /\ deliveries' = Queued(fs)
  BY DEF GoesOn, Answered
<1>2. \A c \in Calls : calls'[c] \in Call /\ calls'[c].rid = calls[c].rid
  BY AnsweredView
<1>3. CallsTyped'
  BY <1>1, <1>2, QueuedTyped DEF ClientInv, CallsTyped
<1>4. ASSUME NEW c \in Calls PROVE CallOK(c)'
  <2>1. CallOK(c)
    BY DEF ClientInv
  <2>2. CASE calls'[c] = calls[c]
    BY <2>1, <2>2 DEF CallOK
  <2>3. CASE calls'[c] # calls[c]
    <3>1. /\ calls'[c].at = calls[c].at /\ calls'[c].rid = calls[c].rid
          /\ calls'[c].token = calls[c].token /\ calls'[c].outcome = calls[c].outcome
          /\ Waiting(c) /\ calls'[c].future = "set"
          /\ calls'[c].reply \in Frame /\ calls'[c].reply.type = "response"
          /\ calls'[c].reply.call = c /\ FrameOK(calls'[c].reply)
      BY <2>3, AnsweredView
    <3> QED
      BY <2>1, <3>1 DEF CallOK, FrameOK, Waiting
  <2> QED
    BY <2>2, <2>3
<1>5. RidsDiffer'
  BY <1>2 DEF ClientInv, RidsDiffer
<1>6. ASSUME NEW c \in Calls, Waiting(c)', calls'[c].future = "pending"
      PROVE  calls'[c].rid \in pending'
  <2>1. calls'[c] = calls[c]
    BY <1>6, AnsweredView
  <2>2. Waiting(c) /\ calls[c].future = "pending"
    BY <1>6, <2>1 DEF Waiting
  <2>3. calls[c].rid \in pending /\ calls[c].rid \notin RepliedTo(fs)
    BY <1>6, <2>2, AnsweredView DEF ClientInv, PendingAgrees
  <2> QED
    BY <1>1, <2>1, <2>3
<1>7. ASSUME NEW r \in pending'
      PROVE  \E c \in Calls :
                /\ calls'[c].rid = r
                /\ \/ Waiting(c)' /\ calls'[c].future = "pending"
                   \/ calls'[c].outcome \in {"reset", "cancelled"}
  <2>1. r \in pending /\ r \notin RepliedTo(fs)
    BY <1>1, <1>7
  <2>2. PICK c \in Calls : /\ calls[c].rid = r
                           /\ \/ Waiting(c) /\ calls[c].future = "pending"
                              \/ calls[c].outcome \in {"reset", "cancelled"}
    BY <2>1 DEF ClientInv, PendingAgrees
  <2>3. calls'[c] = calls[c]
    BY <2>1, <2>2, AnsweredView
  <2> QED
    BY <2>2, <2>3 DEF Waiting
<1>8. writer' = "none" => pending' = {}
  BY <1>1 DEF ClientInv, PendingAgrees
<1>9. PendingAgrees' /\ EndWakesRequests'
  BY <1>1, <1>6, <1>7, <1>8 DEF PendingAgrees, EndWakesRequests
<1> QED
  BY <1>2, <1>3, <1>4, <1>5, <1>9


\* A step of one coroutine.
LEMMA OneCall ==
    ASSUME ClientInv, NEW c \in Calls, NEW x \in Call, calls' = [calls EXCEPT ![c] = x],
           x.rid = calls[c].rid \/ x.rid > rid, rid' \in Nat, rid' >= rid,
           pending' \subseteq 1..rid', deliveries' \in Seq(Tokens), registered' \in BOOLEAN,
           CallOK(c)'
    PROVE  /\ \A d \in Calls : calls'[d] = IF d = c THEN x ELSE calls[d]
           /\ CallsTyped' /\ (\A d \in Calls : CallOK(d)') /\ RidsDiffer'
<1>1. CallsTyped /\ \A d \in Calls : CallOK(d)
  BY DEF ClientInv
<1>2. /\ \A d \in Calls : calls'[d] = IF d = c THEN x ELSE calls[d]
      /\ calls' \in [Calls -> Call]
  BY <1>1 DEF CallsTyped
<1>3. CallsTyped'
  BY <1>1, <1>2 DEF CallsTyped
<1>4. \A d \in Calls : calls[d].rid \in Nat /\ calls[d].rid <= rid
  BY <1>1, CallFields DEF CallOK
<1>5. rid \in Nat /\ x.rid \in Nat
  BY <1>1 DEF CallsTyped, Call
<1>6. ASSUME NEW d \in Calls PROVE CallOK(d)'
  <2>1. CASE d = c
    BY <2>1
  <2>2. CASE d # c
    <3>1. calls'[d] = calls[d] /\ CallOK(d) /\ calls[d].rid <= rid'
      BY <1>1, <1>2, <1>4, <1>5, <2>2
    <3> QED
      BY <3>1 DEF CallOK
  <2> QED
    BY <2>1, <2>2
<1>7. RidsDiffer'
  <2> SUFFICES ASSUME NEW a \in Calls, NEW b \in Calls, calls'[a].rid = calls'[b].rid,
                      calls'[a].rid # 0
               PROVE  a = b
    BY DEF RidsDiffer
  <2>1. \A d \in Calls : d # c /\ x.rid > rid => calls[d].rid # x.rid
    BY <1>4, <1>5
  <2> QED
    BY <1>2, <2>1 DEF ClientInv, RidsDiffer
<1> QED
  BY <1>2, <1>3, <1>6, <1>7

\* A request that waits for its reply.
Expects(c) == Waiting(c) /\ calls[c].future = "pending"

\* A step of one coroutine that leaves _pending alone.
LEMMA PendingKept ==
    ASSUME ClientInv, NEW c \in Calls,
           \A d \in Calls : d # c => calls'[d] = calls[d],
           calls'[c].rid = calls[c].rid,
           Expects(c)' => Expects(c) /\ calls'[c].late = calls[c].late,
           Expects(c) \/ calls[c].outcome \in {"reset", "cancelled"} =>
               Expects(c)' \/ calls'[c].outcome \in {"reset", "cancelled"},
           UNCHANGED <<pending, writer, reader>>
    PROVE  PendingAgrees' /\ EndWakesRequests'
<1>1. /\ PendingAgrees /\ EndWakesRequests
      /\ \A d \in Calls : d # c => (Expects(d)' <=> Expects(d))
  BY DEF ClientInv, Expects, Waiting
<1>2. \A d \in Calls : calls'[d].rid = calls[d].rid
  OBVIOUS
<1>3. \A d \in Calls : Expects(d)' => Expects(d) /\ calls'[d].late = calls[d].late
  BY <1>1
<1>4. \A d \in Calls : Expects(d) \/ calls[d].outcome \in {"reset", "cancelled"} =>
                          Expects(d)' \/ calls'[d].outcome \in {"reset", "cancelled"}
  BY <1>1
<1>5. /\ \A d \in Calls : Expects(d) => calls[d].rid \in pending
      /\ \A r \in pending : \E d \in Calls :
            calls[d].rid = r /\ (Expects(d) \/ calls[d].outcome \in {"reset", "cancelled"})
      /\ writer = "none" => pending = {}
      /\ \A d \in Calls : Expects(d) /\ ~calls[d].late => reader = "running"
  BY <1>1 DEF PendingAgrees, EndWakesRequests, Expects
<1>6. /\ \A d \in Calls : Expects(d)' => calls'[d].rid \in pending'
      /\ \A r \in pending' : \E d \in Calls :
            calls'[d].rid = r /\ (Expects(d)' \/ calls'[d].outcome \in {"reset", "cancelled"})
      /\ writer' = "none" => pending' = {}
      /\ \A d \in Calls : Expects(d)' /\ ~calls'[d].late => reader' = "running"
  BY <1>2, <1>3, <1>4, <1>5
<1> QED
  BY <1>6 DEF PendingAgrees, EndWakesRequests, Expects


\* A coroutine goes on without touching _pending.
LEMMA MoveHolds ==
    ASSUME ClientInv, NEW c \in Calls, NEW x \in Call, calls' = [calls EXCEPT ![c] = x],
           UNCHANGED <<netVars, readVars, rid, writer, connects, pending>>,
           deliveries' \in Seq(Tokens), registered' \in BOOLEAN, CallOK(c)', x.rid = calls[c].rid,
           Expects(c)' => Expects(c) /\ x.late = calls[c].late,
           Expects(c) \/ calls[c].outcome \in {"reset", "cancelled"} =>
               Expects(c)' \/ x.outcome \in {"reset", "cancelled"}
    PROVE  ClientInv'
<1>1. /\ UNCHANGED <<wire, net, sent, commands, consuming, given, readVars, reader, rid, writer,
                     connects, pending>>
      /\ CallsTyped /\ NetOK
  BY DEF netVars, readVars, ClientInv
<1>2. rid' \in Nat /\ rid' >= rid /\ pending' \subseteq 1..rid'
  BY <1>1 DEF CallsTyped
<1>3. /\ \A d \in Calls : calls'[d] = IF d = c THEN x ELSE calls[d]
      /\ CallsTyped' /\ (\A d \in Calls : CallOK(d)') /\ RidsDiffer'
  BY <1>2, OneCall
<1>4. PendingAgrees' /\ EndWakesRequests'
  <2>1. calls'[c] = x /\ \A d \in Calls : d # c => calls'[d] = calls[d]
    BY <1>3
  <2> QED
    BY <1>1, <2>1, PendingKept
<1>5. \A d \in Calls : calls'[d].rid = calls[d].rid
  BY <1>3
<1>6. TrafficOK'
  <2>1. \A i \in DOMAIN commands' : calls'[commands'[i]].rid >= 1
    BY <1>1, <1>5, CommandsKept
  <2> QED
    BY <1>1, <1>5, <2>1, TrafficKept
<1>7. NetOK'
  <2>1. commands' \in Seq(Calls) /\ writer' \in {"none", "open", "closing"}
    BY <1>1 DEF NetOK, NetTyped
  <2> QED
    BY <1>1, <2>1, NetSame
<1> QED
  BY <1>3, <1>4, <1>6, <1>7 DEF ClientInv

LEMMA DrainHolds ==
    ASSUME ClientInv, NEW c \in Calls, Drained(c) \/ DrainFails(c) \/ Cancelled(c)
    PROVE  ClientInv'
<1> DEFINE y == calls[c]
<1>1. y \in Call /\ CallOK(c) /\ calls \in [Calls -> Call] /\ deliveries \in Seq(Tokens)
      /\ registered \in BOOLEAN
  BY CallFields DEF ClientInv, CallsTyped
<1>2. /\ y.at \in {"drain", "wait", "deliver"}
      /\ UNCHANGED <<netVars, readVars, rid, deliveries, writer, connects>>
      /\ UNCHANGED <<pending, registered>>
  BY DEF Drained, DrainFails, Cancelled, Moves
<1>3. PICK x : /\ calls' = [calls EXCEPT ![c] = x]
               /\ \/ x = [y EXCEPT !.at = "wait"] /\ y.at = "drain"
                  \/ x = [y EXCEPT !.at = "done", !.outcome = "reset"]
                  \/ x = [y EXCEPT !.at = "done", !.outcome = "cancelled"]
  BY DEF Drained, DrainFails, Cancelled, Moves
<1> HIDE DEF y
<1>4. /\ x \in Call /\ x.rid = y.rid /\ x.future = y.future /\ x.reply = y.reply
      /\ x.token = y.token /\ x.late = y.late
      /\ \/ x.at = "wait" /\ y.at = "drain" /\ x.outcome = y.outcome
         \/ x.at = "done" /\ x.outcome \in {"reset", "cancelled"}
  BY <1>1, <1>3 DEF Call
<1>5. calls'[c] = x
  BY <1>1, <1>3
<1>6. CallOK(c)'
  BY <1>1, <1>2, <1>4, <1>5 DEF CallOK, y
<1>7. /\ Expects(c)' => Expects(c)
      /\ Expects(c) \/ y.outcome \in {"reset", "cancelled"}
           => Expects(c)' \/ x.outcome \in {"reset", "cancelled"}
  BY <1>2, <1>4, <1>5 DEF Expects, Waiting, y
<1> QED
  BY <1>1, <1>2, <1>3, <1>4, <1>6, <1>7, MoveHolds DEF y

LEMMA ResumeHolds ==
    ASSUME ClientInv, NEW c \in Calls, Resume(c)
    PROVE  ClientInv'
<1> DEFINE y == calls[c]
           ok == y.future = "set" /\ y.reply.ok
<1>1. y \in Call /\ CallOK(c) /\ calls \in [Calls -> Call] /\ deliveries \in Seq(Tokens)
      /\ registered \in BOOLEAN
  BY CallFields DEF ClientInv, CallsTyped
<1>2. /\ y.at = "wait" /\ y.future # "pending"
      /\ UNCHANGED <<netVars, readVars, rid, deliveries, writer, connects, pending>>
  BY DEF Resume, Moves
<1>3. registered' \in BOOLEAN
  BY <1>1, Zenon DEF Resume
<1>4. PICK x : /\ calls' = [calls EXCEPT ![c] = x]
               /\ \/ x = [y EXCEPT !.at = "done", !.outcome = "error"]
                  \/ x = [y EXCEPT !.at = "deliver"] /\ Kind[c] = "consume"
                  \/ /\ ok
                     /\ x = [y EXCEPT !.at = "done", !.outcome = "returned", !.token = y.reply.token]
  <2> DEFINE r == IF ~ok THEN [y EXCEPT !.at = "done", !.outcome = "error"]
                  ELSE IF Kind[c] = "consume" THEN [y EXCEPT !.at = "deliver"]
                  ELSE [y EXCEPT !.at = "done", !.outcome = "returned", !.token = y.reply.token]
  <2>1. calls' = [calls EXCEPT ![c] = r]
    BY DEF Resume, Moves
  <2>2. \/ r = [y EXCEPT !.at = "done", !.outcome = "error"]
        \/ r = [y EXCEPT !.at = "deliver"] /\ Kind[c] = "consume"
        \/ /\ ok
           /\ r = [y EXCEPT !.at = "done", !.outcome = "returned", !.token = y.reply.token]
    BY Zenon
  <2> HIDE DEF r
  <2> QED
    BY <2>1, <2>2
<1>5. ok => y.reply.token \in Tokens \cup {None}
  BY <1>1 DEF CallOK, Frame
<1> HIDE DEF y, ok
<1>6. /\ x \in Call /\ x.rid = y.rid /\ x.future = y.future /\ x.reply = y.reply
      /\ x.late = y.late
      /\ \/ x.at = "done"
         \/ /\ x.at = "deliver" /\ x.token = y.token /\ x.outcome = y.outcome
            /\ Kind[c] = "consume"
  BY <1>1, <1>4, <1>5 DEF Call
<1>7. calls'[c] = x
  BY <1>1, <1>4
<1>8. CallOK(c)'
  BY <1>1, <1>2, <1>6, <1>7 DEF CallOK, y
<1>9. /\ ~Expects(c)' /\ ~Expects(c) /\ y.outcome \notin {"reset", "cancelled"}
  BY <1>1, <1>2, <1>6, <1>7 DEF Expects, Waiting, CallOK, y
<1> QED
  BY <1>1, <1>2, <1>3, <1>4, <1>6, <1>8, <1>9, MoveHolds DEF y

LEMMA TakeHolds ==
    ASSUME ClientInv, NEW c \in Calls, TakeDelivery(c)
    PROVE  ClientInv'
<1> DEFINE y == calls[c]
           x == [y EXCEPT !.at = "done", !.outcome = "returned", !.token = Head(deliveries)]
<1>1. y \in Call /\ CallOK(c) /\ calls \in [Calls -> Call] /\ deliveries \in Seq(Tokens)
      /\ registered \in BOOLEAN
  BY CallFields DEF ClientInv, CallsTyped
<1>2. /\ y.at = "deliver" /\ deliveries # << >> /\ deliveries' = Tail(deliveries)
      /\ UNCHANGED <<netVars, readVars, rid, writer, connects, pending, registered>>
      /\ calls' = [calls EXCEPT ![c] = x]
  BY <1>1 DEF TakeDelivery
<1>3. Head(deliveries) \in Tokens /\ deliveries' \in Seq(Tokens)
  BY <1>1, <1>2
<1> HIDE DEF y
<1>4. /\ x \in Call /\ x.rid = y.rid /\ x.future = y.future /\ x.reply = y.reply
      /\ x.late = y.late /\ x.at = "done"
  BY <1>1, <1>3 DEF Call
<1> HIDE DEF x
<1>5. calls'[c] = x
  BY <1>1, <1>2
<1>6. CallOK(c)'
  BY <1>1, <1>2, <1>4, <1>5 DEF CallOK, y
<1>7. ~Expects(c)' /\ ~Expects(c) /\ y.outcome \notin {"reset", "cancelled"}
  BY <1>1, <1>2, <1>4, <1>5 DEF Expects, Waiting, CallOK, y
<1> QED
  BY <1>1, <1>2, <1>3, <1>4, <1>6, <1>7, MoveHolds DEF y


LEMMA TimeoutHolds ==
    ASSUME ClientInv, NEW c \in Calls, Timeout(c)
    PROVE  ClientInv'
<1> DEFINE y == calls[c]
           x == [y EXCEPT !.at = "done", !.outcome = "timeout"]
<1>1. y \in Call /\ CallOK(c) /\ calls \in [Calls -> Call] /\ CallsTyped /\ NetOK
  BY CallFields DEF ClientInv, CallsTyped
<1>2. /\ y.at = "wait" /\ y.future = "pending" /\ pending' = pending \ {y.rid}
      /\ UNCHANGED <<wire, net, sent, commands, consuming, given, reader, readVars, rid, writer,
                     connects, registered, deliveries>>
      /\ calls' = [calls EXCEPT ![c] = x]
  BY <1>1 DEF Timeout, Moves, netVars, readVars
<1> HIDE DEF y
<1>3. /\ x \in Call /\ x.rid = y.rid /\ x.future = y.future /\ x.reply = y.reply
      /\ x.at = "done" /\ x.outcome = "timeout"
  BY <1>1 DEF Call
<1> HIDE DEF x
<1>4. calls'[c] = x
  BY <1>1, <1>2
<1>5. CallOK(c)'
  BY <1>1, <1>2, <1>3, <1>4 DEF CallOK, y
<1>6. /\ \A d \in Calls : calls'[d] = IF d = c THEN x ELSE calls[d]
      /\ CallsTyped' /\ (\A d \in Calls : CallOK(d)') /\ RidsDiffer'
  <2>1. rid' \in Nat /\ rid' >= rid /\ pending' \subseteq 1..rid'
    <3>1. rid \in Nat /\ pending \subseteq 1..rid /\ rid' = rid /\ pending' \subseteq pending
      BY <1>1, <1>2, Zenon DEF CallsTyped
    <3> QED
      BY <3>1
  <2>2. deliveries' \in Seq(Tokens) /\ registered' \in BOOLEAN
    BY <1>1, <1>2, Zenon DEF CallsTyped
  <2> QED
    BY <1>2, <1>3, <1>5, <2>1, <2>2, OneCall DEF y
<1>7. \A d \in Calls : calls'[d].rid = calls[d].rid
  BY <1>3, <1>6 DEF y
<1>8. PendingAgrees' /\ EndWakesRequests'
  <2>1. /\ \A d \in Calls : Expects(d) => calls[d].rid \in pending
        /\ \A r \in pending : \E d \in Calls :
              /\ calls[d].rid = r
              /\ Expects(d) \/ calls[d].outcome \in {"reset", "cancelled"}
        /\ writer = "none" => pending = {}
        /\ \A d \in Calls : Expects(d) /\ ~calls[d].late => reader = "running"
    BY DEF ClientInv, PendingAgrees, EndWakesRequests, Expects
  <2>2. ~Expects(c)'
    BY <1>3, <1>4 DEF Expects, Waiting
  <2>3. \A d \in Calls : d # c => calls'[d] = calls[d] /\ (Expects(d)' <=> Expects(d))
    BY <1>6 DEF Expects, Waiting
  <2>4. y.rid # 0 /\ y.rid \in Nat
    BY <1>1, <1>2 DEF CallOK, Call, y
  <2>5. \A d \in Calls : d # c => calls[d].rid # y.rid
    BY <2>4 DEF ClientInv, RidsDiffer, y
  <2>6. /\ \A d \in Calls : Expects(d)' => calls'[d].rid \in pending'
        /\ writer' = "none" => pending' = {}
        /\ \A d \in Calls : Expects(d)' /\ ~calls'[d].late => reader' = "running"
    BY <1>2, <2>1, <2>2, <2>3, <2>5
  <2>7. ASSUME NEW r \in pending'
        PROVE  \E d \in Calls :
                  calls'[d].rid = r /\ (Expects(d)' \/ calls'[d].outcome \in {"reset", "cancelled"})
    <3>1. PICK d \in Calls : /\ calls[d].rid = r
                             /\ Expects(d) \/ calls[d].outcome \in {"reset", "cancelled"}
      BY <1>2, <2>1
    <3>2. d # c
      BY <1>2, <3>1 DEF y
    <3> QED
      BY <2>3, <3>1, <3>2
  <2> QED
    BY <2>6, <2>7 DEF PendingAgrees, EndWakesRequests, Expects
<1>9. TrafficOK'
  <2>1. \A i \in DOMAIN commands' : calls'[commands'[i]].rid >= 1
    BY <1>2, <1>7, CommandsKept
  <2> QED
    BY <1>2, <1>7, <2>1, TrafficKept
<1>10. NetOK'
  <2>1. commands' \in Seq(Calls) /\ writer' \in {"none", "open", "closing"}
    BY <1>1, <1>2 DEF NetOK, NetTyped
  <2> QED
    BY <1>1, <1>2, <2>1, NetSame
<1> QED
  BY <1>6, <1>8, <1>9, <1>10 DEF ClientInv

\* A request is made under the next id.
LEMMA RequestHolds ==
    ASSUME ClientInv, NEW c \in Calls, calls[c].at = "new", writer # "none",
           rid' = rid + 1, pending' = pending \cup {rid + 1},
           NEW x, x = [calls[c] EXCEPT !.at = "drain", !.rid = rid + 1, !.future = "pending",
                                       !.late = reader # "running"],
           calls' = [calls EXCEPT ![c] = x],
           commands' = Append(commands, c) \/ commands' = commands,
           UNCHANGED <<wire, net, sent, readVars, consuming, given, deliveries, registered, writer,
                       connects>>
    PROVE  ClientInv'
<1> DEFINE y == calls[c]
           m == rid + 1
<1>1. y \in Call /\ CallOK(c) /\ calls \in [Calls -> Call] /\ CallsTyped /\ NetOK
      /\ rid \in Nat /\ m \in Nat /\ m > rid /\ m >= 1
  BY CallFields DEF ClientInv, CallsTyped
<1> DEFINE z == reader # "running"
<1>2. z \in BOOLEAN /\ reader' = reader
  BY DEF readVars
<1>3. x = [y EXCEPT !.at = "drain", !.rid = m, !.future = "pending", !.late = z]
  OBVIOUS
<1> HIDE DEF y, m, z
<1>4. /\ x \in Call /\ x.rid = m /\ x.future = "pending" /\ x.reply = y.reply
      /\ x.at = "drain" /\ x.outcome = y.outcome /\ x.token = y.token /\ x.late = z
  BY <1>1, <1>2, <1>3 DEF Call
<1>5. calls'[c] = x /\ rid' = m /\ pending' = pending \cup {m}
  BY <1>1 DEF m
<1>6. CallOK(c)'
  BY <1>1, <1>4, <1>5 DEF CallOK, y
<1>7. /\ \A d \in Calls : calls'[d] = IF d = c THEN x ELSE calls[d]
      /\ CallsTyped' /\ (\A d \in Calls : CallOK(d)') /\ RidsDiffer'
  <2>1. /\ rid' \in Nat /\ rid' >= rid /\ pending' \subseteq 1..rid'
        /\ deliveries' \in Seq(Tokens) /\ registered' \in BOOLEAN
    BY <1>1, <1>5 DEF CallsTyped
  <2>2. x.rid > rid
    BY <1>1, <1>4
  <2> QED
    BY <1>4, <1>6, <2>1, <2>2, OneCall
<1>8. y.rid = 0 /\ y.outcome = "none" /\ ~Expects(c)
  BY <1>1 DEF CallOK, y, Expects, Waiting
<1>9. PendingAgrees' /\ EndWakesRequests'
  <2>1. /\ \A d \in Calls : Expects(d) => calls[d].rid \in pending
        /\ \A r \in pending : \E d \in Calls :
              calls[d].rid = r /\ (Expects(d) \/ calls[d].outcome \in {"reset", "cancelled"})
        /\ \A d \in Calls : Expects(d) /\ ~calls[d].late => reader = "running"
    BY DEF ClientInv, PendingAgrees, EndWakesRequests, Expects
  <2>2. Expects(c)' /\ calls'[c].rid = m /\ (~calls'[c].late => reader' = "running")
    BY <1>2, <1>4, <1>5 DEF Expects, Waiting, z
  <2>3. \A d \in Calls : d # c => calls'[d] = calls[d] /\ (Expects(d)' <=> Expects(d))
    BY <1>7 DEF Expects, Waiting
  <2>4. /\ \A d \in Calls : Expects(d)' => calls'[d].rid \in pending'
        /\ \A d \in Calls : Expects(d)' /\ ~calls'[d].late => reader' = "running"
    BY <1>2, <1>5, <2>1, <2>2, <2>3
  <2>5. ASSUME NEW r \in pending'
        PROVE  \E d \in Calls :
                  calls'[d].rid = r /\ (Expects(d)' \/ calls'[d].outcome \in {"reset", "cancelled"})
    <3>1. CASE r = m
      BY <2>2, <3>1
    <3>2. CASE r # m
      <4>1. PICK d \in Calls : /\ calls[d].rid = r
                               /\ Expects(d) \/ calls[d].outcome \in {"reset", "cancelled"}
        BY <1>5, <2>1, <3>2
      <4>2. d # c
        BY <1>8, <4>1 DEF y
      <4> QED
        BY <2>3, <4>1, <4>2
    <3> QED
      BY <3>1, <3>2
  <2> QED
    BY <2>4, <2>5 DEF PendingAgrees, EndWakesRequests, Expects
<1>10. commands' \in Seq(Calls) /\ \A i \in DOMAIN commands' : calls'[commands'[i]].rid >= 1
  <2>1. commands \in Seq(Calls) /\ \A i \in DOMAIN commands : calls[commands[i]].rid >= 1
    BY <1>1 DEF NetOK, NetTyped, ClientInv, TrafficOK
  <2>2. commands' \in Seq(Calls)
        /\ \A i \in DOMAIN commands' :
              commands'[i] = c \/ (i \in DOMAIN commands /\ commands'[i] = commands[i])
    BY <2>1
  <2>3. calls'[c].rid >= 1
    BY <1>1, <1>4, <1>5
  <2>4. \A d \in Calls : calls[d].rid >= 1 => calls'[d].rid >= 1
    BY <1>7, <2>3
  <2>5. \A i \in DOMAIN commands : commands[i] \in Calls
    BY <2>1
  <2> QED
    BY <2>1, <2>2, <2>3, <2>4, <2>5
<1>11. TrafficOK'
  <2>1. \A d \in Calls : calls'[d].rid = calls[d].rid \/ calls[d].rid = 0
    BY <1>7, <1>8 DEF y
  <2> QED
    BY <1>10, <2>1, TrafficKept
<1>12. NetOK'
  BY <1>1, <1>10, NetSame DEF NetOK, NetTyped
<1> QED
  BY <1>7, <1>9, <1>11, <1>12 DEF ClientInv

LEMMA StartHolds ==
    ASSUME ClientInv, NEW c \in Calls, Start(c)
    PROVE  ClientInv'
<1> DEFINE y == calls[c]
<1>1. y \in Call /\ CallOK(c) /\ calls \in [Calls -> Call] /\ deliveries \in Seq(Tokens)
      /\ registered \in BOOLEAN
  BY CallFields DEF ClientInv, CallsTyped
<1>2. /\ y.at = "new"
      /\ UNCHANGED <<readVars, wire, net, sent, consuming, given, deliveries, registered, writer,
                     connects>>
  BY DEF Start
<1>3. ASSUME NEW x, calls' = [calls EXCEPT ![c] = x], UNCHANGED <<rid, pending, commands>>,
             \/ x = [y EXCEPT !.at = "deliver"] /\ Kind[c] = "consume"
             \/ x = [y EXCEPT !.at = "done", !.outcome = "error"]
      PROVE  ClientInv'
  <2> HIDE DEF y
  <2>1. /\ x \in Call /\ x.rid = y.rid /\ x.future = y.future /\ x.token = y.token
        /\ \/ x.at = "deliver" /\ x.outcome = y.outcome /\ Kind[c] = "consume"
           \/ x.at = "done" /\ x.outcome = "error"
    BY <1>1, <1>3 DEF Call
  <2>2. calls'[c] = x
    BY <1>1, <1>3
  <2>3. CallOK(c)'
    BY <1>1, <1>2, <1>3, <2>1, <2>2 DEF CallOK, y
  <2>4. ~Expects(c)' /\ ~Expects(c) /\ y.outcome \notin {"reset", "cancelled"}
    BY <1>1, <1>2, <2>1, <2>2 DEF Expects, Waiting, CallOK, y
  <2>5. UNCHANGED <<netVars, readVars, rid, writer, connects, pending>>
    BY <1>2, <1>3 DEF netVars
  <2> QED
    BY <1>1, <1>2, <1>3, <2>1, <2>3, <2>4, <2>5, MoveHolds DEF y
<1>4. CASE Kind[c] = "consume" /\ registered
  <2>1. calls' = [calls EXCEPT ![c].at = "deliver"] /\ UNCHANGED <<rid, pending, commands>>
    BY <1>4 DEF Start
  <2>2. calls' = [calls EXCEPT ![c] = [y EXCEPT !.at = "deliver"]]
    BY <1>1, <2>1
  <2> QED
    BY <1>3, <1>4, <2>1, <2>2
<1>5. CASE ~(Kind[c] = "consume" /\ registered) /\ writer = "none"
  <2>1. /\ calls' = [calls EXCEPT ![c].at = "done", ![c].outcome = "error"]
        /\ UNCHANGED <<rid, pending, commands>>
    BY <1>5 DEF Start, request
  <2>2. calls' = [calls EXCEPT ![c] = [y EXCEPT !.at = "done", !.outcome = "error"]]
    BY <1>1, <2>1
  <2> QED
    BY <1>3, <2>1, <2>2
<1>6. CASE ~(Kind[c] = "consume" /\ registered) /\ writer # "none"
  <2>1. /\ rid' = rid + 1 /\ pending' = pending \cup {rid + 1}
        /\ calls' = [calls EXCEPT ![c].at = "drain", ![c].rid = rid + 1,
                                  ![c].future = "pending", ![c].late = reader # "running"]
        /\ commands' = Append(commands, c) \/ commands' = commands
    BY <1>6 DEF Start, request, NextRid
  <2> DEFINE x == [y EXCEPT !.at = "drain", !.rid = rid + 1, !.future = "pending",
                            !.late = reader # "running"]
  <2>2. calls' = [calls EXCEPT ![c] = x]
    BY <1>1, <2>1
  <2> QED
    BY <1>2, <1>6, <2>1, <2>2, RequestHolds
<1> QED
  BY <1>4, <1>5, <1>6


-----------------------------------------------------------------------------
(* The invariant.                                                          *)

\* A step that leaves the calls alone.
LEMMA CallsSame ==
    ASSUME ClientInv, UNCHANGED callVars,
           writer' = "none" => writer = "none",
           reader' = reader \/ reader' = "running"
                            \/ \A c \in Calls : ~(Expects(c) /\ ~calls[c].late)
    PROVE  /\ CallsTyped' /\ (\A c \in Calls : CallOK(c)') /\ RidsDiffer'
           /\ PendingAgrees' /\ EndWakesRequests'
BY DEF ClientInv, CallsTyped, CallOK, RidsDiffer, PendingAgrees, EndWakesRequests, Expects,
       Waiting, callVars

LEMMA ConnectHolds ==
    ASSUME ClientInv, connect
    PROVE  ClientInv'
<1>1. NetOK'
  BY ConnectNet DEF ClientInv
<1>2. /\ UNCHANGED callVars /\ writer' = "open" /\ reader' = "running"
      /\ sent' = << >> /\ commands' = << >>
  BY DEF connect
<1>3. TrafficOK'
  BY <1>2, Empty DEF TrafficOK
<1> QED
  BY <1>1, <1>2, <1>3, CallsSame DEF ClientInv

LEMMA CloseHolds ==
    ASSUME ClientInv, close
    PROVE  ClientInv'
<1>1. NetOK'
  BY CloseNet DEF ClientInv
<1>2. /\ writer' = "closing" /\ UNCHANGED <<sent, rid, deliveries, registered>>
      /\ commands' = << >>
  BY DEF close
<1>3. /\ CallsTyped' /\ (\A c \in Calls : CallOK(c)') /\ RidsDiffer'
      /\ PendingAgrees' /\ EndWakesRequests'
      /\ \A c \in Calls : calls'[c].rid = calls[c].rid
  <2>1. CASE reader = "running"
    <3>1. calls' = EndFutures(pending, "failed") /\ pending' = {}
      BY <2>1 DEF close, LoopOver
    <3> QED
      BY <1>2, <3>1, OverCalls
  <2>2. CASE reader # "running"
    <3>1. UNCHANGED callVars
      BY <1>2, <2>2 DEF close, callVars
    <3>2. \A c \in Calls : ~(Expects(c) /\ ~calls[c].late)
      BY <2>2 DEF ClientInv, EndWakesRequests, Expects
    <3> QED
      BY <1>2, <3>1, <3>2, CallsSame DEF callVars
  <2> QED
    BY <2>1, <2>2
<1>4. TrafficOK'
  <2>1. \A i \in DOMAIN commands' : calls'[commands'[i]].rid >= 1
    BY <1>2, Empty
  <2> QED
    BY <1>2, <1>3, <2>1, TrafficKept
<1> QED
  BY <1>1, <1>3, <1>4 DEF ClientInv

LEMMA CloseEndHolds ==
    ASSUME ClientInv, CloseEnd
    PROVE  ClientInv'
<1>1. /\ UNCHANGED <<wire, net, sent, commands, consuming, given, readVars, connects>>
      /\ UNCHANGED <<rid, deliveries, registered>>
      /\ writer' = "none" /\ calls' = EndFutures(pending, "cancelled") /\ pending' = {}
  BY DEF CloseEnd, netVars
<1>2. NetOK'
  BY <1>1, NetSame DEF ClientInv, NetOK, NetTyped
<1>3. /\ CallsTyped' /\ (\A c \in Calls : CallOK(c)') /\ RidsDiffer'
      /\ PendingAgrees' /\ EndWakesRequests'
      /\ \A c \in Calls : calls'[c].rid = calls[c].rid
  BY <1>1, OverCalls
<1>4. TrafficOK'
  BY <1>1, <1>3, CommandsKept, TrafficKept
<1> QED
  BY <1>2, <1>3, <1>4 DEF ClientInv

LEMMA ReadLoopHolds ==
    ASSUME ClientInv, ReadLoop
    PROVE  ClientInv'
<1>0. NetOK
  BY DEF ClientInv
<1>1. /\ NetOK' /\ (Ends \/ \E fs \in Seq(Nat) : GoesOn(fs))
      /\ UNCHANGED <<sent, commands, writer, rid, registered>>
  <2>1. CASE ReadEnds
    BY <1>0, <2>1, EndsNet DEF ReadEnds, netVars
  <2>2. CASE \E k \in 1..Len(wire) : Read(k)
    <3>1. PICK k \in Nat : Read(k)
      <4>1. \A k \in 1..Len(wire) : k \in Nat
        BY <1>0 DEF NetOK, NetTyped
      <4> QED
        BY <2>2, <4>1
    <3> QED
      BY <1>0, <3>1, ReadNet
  <2> QED
    BY <2>1, <2>2 DEF ReadLoop
<1>2. /\ CallsTyped' /\ (\A c \in Calls : CallOK(c)') /\ RidsDiffer'
      /\ PendingAgrees' /\ EndWakesRequests'
      /\ \A c \in Calls : calls'[c].rid = calls[c].rid
  <2>1. CASE Ends
    BY <1>1, <2>1, OverCalls DEF Ends, LoopOver
  <2>2. CASE \E fs \in Seq(Nat) : GoesOn(fs)
    BY <1>1, <2>2, GoesOnCalls
  <2> QED
    BY <1>1, <2>1, <2>2
<1>3. TrafficOK'
  BY <1>1, <1>2, CommandsKept, TrafficKept
<1> QED
  BY <1>1, <1>2, <1>3 DEF ClientInv

LEMMA SendHolds ==
    ASSUME ClientInv, NEW f \in Frame, Send(f), FrameOK(f), commands' \in Seq(Calls),
           consuming' \in BOOLEAN, \A i \in DOMAIN commands' : calls[commands'[i]].rid >= 1
    PROVE  ClientInv'
<1>1. NetOK'
  BY SendNet DEF ClientInv
<1>2. UNCHANGED callVars /\ writer' = writer /\ reader' = reader /\ sent' = Append(sent, f)
  BY DEF Send, readVars
<1>3. /\ CallsTyped' /\ (\A c \in Calls : CallOK(c)') /\ RidsDiffer'
      /\ PendingAgrees' /\ EndWakesRequests'
  BY <1>2, CallsSame
<1>4. TrafficOK'
  <2>1. sent \in Seq(Frame)
    BY DEF ClientInv, NetOK, NetTyped
  <2>2. \A n \in DOMAIN sent' : sent'[n] = f \/ (n \in DOMAIN sent /\ sent'[n] = sent[n])
    BY <1>2, <2>1
  <2>3. \A n \in DOMAIN sent' : FrameOK(sent'[n])
    BY <2>2 DEF ClientInv, TrafficOK
  <2>4. calls' = calls
    BY <1>2 DEF callVars
  <2> QED
    BY <2>3, <2>4 DEF TrafficOK, FrameOK
<1> QED
  BY <1>1, <1>3, <1>4 DEF ClientInv

LEMMA AnswerHolds ==
    ASSUME ClientInv, NEW ok \in BOOLEAN, NEW token \in Tokens \cup {None},
           NEW damage \in Damages \cup {"none"}, Answer(ok, token, damage)
    PROVE  ClientInv'
<1> DEFINE c == Head(commands)
           f == [type |-> "response", rid |-> calls[c].rid, call |-> c, ok |-> ok,
                 token |-> token, damage |-> damage]
<1>1. /\ commands # << >>
      /\ token # None => ok /\ Kind[c] = "get"
      /\ Send(f)
      /\ commands' = Tail(commands)
  BY DEF Answer
<1>2. commands \in Seq(Calls) /\ \A i \in DOMAIN commands : calls[commands[i]].rid >= 1
  BY DEF ClientInv, NetOK, NetTyped, TrafficOK
<1>3. /\ c \in Calls /\ 1 \in DOMAIN commands /\ c = commands[1] /\ Tail(commands) \in Seq(Calls)
      /\ \A i \in DOMAIN Tail(commands) :
            i + 1 \in DOMAIN commands /\ Tail(commands)[i] = commands[i + 1]
  <2>1. commands # << >> /\ commands \in Seq(Calls)
    BY <1>1, <1>2
  <2> QED
    BY <2>1
<1>4. consuming' \in BOOLEAN
  BY Zenon DEF Answer, ClientInv, NetOK, NetTyped
<1>5. calls[c].rid \in Nat /\ calls[c].rid >= 1
  BY <1>2, <1>3, CallFields DEF ClientInv
<1> HIDE DEF c
<1>6. f \in Frame
  BY <1>3, <1>5 DEF Frame
<1>7. FrameOK(f)
  BY <1>1, <1>3, <1>5 DEF FrameOK
<1> HIDE DEF f
<1>8. \A i \in DOMAIN commands' : calls[commands'[i]].rid >= 1
  BY <1>1, <1>2, <1>3
<1> QED
  BY <1>1, <1>3, <1>4, <1>6, <1>7, <1>8, SendHolds

LEMMA PushHolds ==
    ASSUME ClientInv, NEW token \in Tokens, NEW damage \in Damages \cup {"none"},
           Push(token, damage)
    PROVE  ClientInv'
<1> DEFINE f == [type |-> "event", rid |-> 0, call |-> None, ok |-> TRUE,
                 token |-> token, damage |-> damage]
<1>1. Send(f) /\ UNCHANGED <<commands, consuming>>
  BY DEF Push
<1>2. f \in Frame /\ FrameOK(f)
  BY DEF Frame, FrameOK
<1> HIDE DEF f
<1>3. /\ commands' \in Seq(Calls) /\ consuming' \in BOOLEAN
      /\ \A i \in DOMAIN commands' : calls[commands'[i]].rid >= 1
  BY <1>1 DEF ClientInv, NetOK, NetTyped, TrafficOK
<1> QED
  BY <1>1, <1>2, <1>3, SendHolds

LEMMA LoseHolds ==
    ASSUME ClientInv, NEW k \in Nat, Lose(k)
    PROVE  ClientInv'
<1>1. NetOK'
  BY LoseNet DEF ClientInv
<1>2. /\ UNCHANGED callVars /\ writer' = writer /\ reader' = reader
      /\ sent' = sent /\ commands' = << >> /\ calls' = calls
  BY DEF Lose, readVars, callVars
<1>3. /\ CallsTyped' /\ (\A c \in Calls : CallOK(c)') /\ RidsDiffer'
      /\ PendingAgrees' /\ EndWakesRequests'
  BY <1>2, CallsSame
<1>4. TrafficOK'
  <2>1. \A i \in DOMAIN commands' : calls'[commands'[i]].rid >= 1
    BY <1>2, Empty
  <2> QED
    BY <1>2, <2>1, TrafficKept
<1> QED
  BY <1>1, <1>3, <1>4 DEF ClientInv

LEMMA StepHolds == ClientInv /\ [Next]_vars => ClientInv'
<1> SUFFICES ASSUME ClientInv, [Next]_vars PROVE ClientInv'
  OBVIOUS
<1>1. CASE UNCHANGED vars
  <2>1. /\ UNCHANGED callVars /\ writer' = writer /\ reader' = reader /\ sent' = sent
        /\ commands' = commands /\ calls' = calls
        /\ UNCHANGED <<wire, net, sent, readVars, consuming, given, connects>>
    BY <1>1 DEF vars, netVars, readVars, callVars
  <2>2. NetOK'
    BY <2>1, NetSame DEF ClientInv, NetOK, NetTyped
  <2>3. TrafficOK'
    BY <2>1, CommandsKept, TrafficKept
  <2> QED
    BY <2>1, <2>2, <2>3, CallsSame DEF ClientInv
<1>2. CASE connect \/ close \/ CloseEnd \/ ReadLoop
  BY <1>2, ConnectHolds, CloseHolds, CloseEndHolds, ReadLoopHolds
<1>3. ASSUME NEW c \in Calls, Coroutine(c) PROVE ClientInv'
  BY <1>3, StartHolds, DrainHolds, TimeoutHolds, ResumeHolds, TakeHolds
     DEF Coroutine
<1>4. CASE Broker
  <2>1. ASSUME NEW ok \in BOOLEAN, NEW token \in Free \cup {None}, NEW damage \in Hurt,
               Answer(ok, token, damage)
        PROVE  ClientInv'
    BY <2>1, AnswerHolds DEF Free, Hurt
  <2>2. ASSUME NEW token \in Free, NEW damage \in Hurt, Push(token, damage) PROVE ClientInv'
    BY <2>2, PushHolds DEF Free, Hurt
  <2>3. ASSUME NEW k \in 0..Len(wire), Lose(k) PROVE ClientInv'
    <3>1. k \in Nat
      BY <2>3 DEF ClientInv, NetOK, NetTyped
    <3> QED
      BY <2>3, <3>1, LoseHolds
  <2> QED
    BY <1>4, <2>1, <2>2, <2>3 DEF Broker
<1> QED
  BY <1>1, <1>2, <1>3, <1>4 DEF Next


LEMMA Invariant == Spec => []ClientInv
<1>1. Init => ClientInv
  BY InitHolds
<1>2. ClientInv /\ [Next]_vars => ClientInv'
  BY StepHolds
<1> QED
  BY <1>1, <1>2, PTL DEF Spec

-----------------------------------------------------------------------------
(* Where the tokens are.                                                   *)

\* A call has the token, or its future holds the reply that brings it.
Has(c, t) ==
    \/ calls[c].token = t
    \/ calls[c].at # "done" /\ calls[c].future = "set" /\ calls[c].reply.token = t

GivenUp(c) == calls[c].outcome \in {"timeout", "reset", "cancelled"}

Held(t) == In(deliveries, t) \/ \E c \in Calls : Has(c, t)

Unhandled(n) == n \in DOMAIN sent /\ n > Len(handled)

\* No token is sent twice.
SentOnce ==
    /\ \A n, m \in DOMAIN sent : sent[n].token # None /\ sent[n].token = sent[m].token => n = m
    /\ \A n \in DOMAIN sent : sent[n].token # None => sent[n].token \in given

\* No token is in two places, ...
Apart ==
    /\ Once(deliveries)
    /\ \A t \in Tokens : \A c, d \in Calls : Has(c, t) /\ Has(d, t) => c = d
    /\ \A t \in Tokens : \A c \in Calls : Has(c, t) => ~In(deliveries, t)

\* ... nor in one while it is still on its way.
OnTheWay ==
    \A t \in Tokens : Held(t) =>
        t \in given /\ \A n \in DOMAIN sent : Unhandled(n) => sent[n].token # t

\* A request is answered once.
OneReply ==
    /\ \A n, m \in DOMAIN sent : IsReply(n) /\ IsReply(m) /\ sent[n].call = sent[m].call => n = m
    /\ Once(commands)
    /\ \A n \in DOMAIN sent : \A i \in DOMAIN commands : IsReply(n) => sent[n].call # commands[i]

\* While the read loop runs, a request whose reply is still to come waits for
\* it or has been given up.
Owed ==
    reader = "running" =>
        /\ writer = "open"
        /\ \A n \in DOMAIN sent : Unhandled(n) /\ IsReply(n) =>
              Expects(sent[n].call) \/ GivenUp(sent[n].call)
        /\ \A i \in DOMAIN commands : Expects(commands[i]) \/ GivenUp(commands[i])

\* What was handled has arrived.
Arrived ==
    \A n \in DOMAIN sent : ~Unhandled(n) /\ sent[n].token # None =>
        /\ IsReply(n) => GivenUp(sent[n].call) \/ Has(sent[n].call, sent[n].token)
        /\ ~IsReply(n) => \/ In(deliveries, sent[n].token)
                          \/ \E c \in Calls : calls[c].token = sent[n].token

TokenInv == SentOnce /\ Apart /\ OnTheWay /\ OneReply /\ Owed /\ Arrived

LEMMA FrameFields ==
    ASSUME ClientInv, NEW n \in DOMAIN sent
    PROVE  /\ sent[n] \in Frame /\ FrameOK(sent[n])
           /\ sent[n].token \in Tokens \cup {None} /\ sent[n].type \in {"response", "event"}
           /\ sent[n].token # None => sent[n].token \in Tokens
           /\ IsReply(n) => sent[n].call \in Calls
<1>1. sent[n] \in Frame /\ FrameOK(sent[n])
  BY DEF ClientInv, NetOK, NetTyped, TrafficOK
<1> QED
  BY <1>1 DEF Frame, FrameOK, IsReply

\* The commands still to be executed are some of those there were, and
\* perhaps that of a call that had made no request.
FewerCommands ==
    \/ commands' = commands
    \/ commands' = << >>
    \/ \E c \in Calls : commands' = Append(commands, c) /\ calls[c].rid = 0 /\ Expects(c)'

LEMMA CommandsView ==
    ASSUME ClientInv, FewerCommands, Once(commands)
    PROVE  /\ Once(commands')
           /\ \A c \in Calls : In(commands', c) =>
                 In(commands, c) \/ (calls[c].rid = 0 /\ Expects(c)')
<1>1. commands \in Seq(Calls) /\ \A i \in DOMAIN commands : calls[commands[i]].rid >= 1
  BY DEF ClientInv, NetOK, NetTyped, TrafficOK
<1>2. CASE commands' = commands
  BY <1>2, Zenon DEF In
<1>3. CASE commands' = << >>
  BY <1>3, Empty DEF Once, In
<1>4. ASSUME NEW c \in Calls, commands' = Append(commands, c), calls[c].rid = 0, Expects(c)'
      PROVE  /\ Once(commands')
             /\ \A d \in Calls : In(commands', d) => In(commands, d) \/ d = c
  <2>1. ~In(commands, c)
    BY <1>1, <1>4 DEF In
  <2>2. /\ \A x : In(commands', x) <=> In(commands, x) \/ x = c
        /\ Once(commands')
    BY <1>1, <1>4, <2>1, AppendView
  <2> QED
    BY <2>2
<1> QED
  BY <1>2, <1>3, <1>4 DEF FewerCommands

LEMMA OwedView ==
    ASSUME ClientInv, NetOK', UNCHANGED sent,
           writer' = "open",
           \A n \in DOMAIN sent : Unhandled(n)' /\ IsReply(n) =>
              \A c : c = sent[n].call => Expects(c)' \/ GivenUp(c)',
           \A c \in Calls : In(commands', c) => Expects(c)' \/ GivenUp(c)'
    PROVE  Owed'
<1>1. ASSUME NEW i \in DOMAIN commands' PROVE (Expects(commands[i]) \/ GivenUp(commands[i]))'
  <2>1. PICK c \in Calls : c = commands'[i]
    BY <1>1 DEF NetOK, NetTyped
  <2>2. Expects(c)' \/ GivenUp(c)'
    BY <1>1, <2>1, Zenon DEF In
  <2> QED
    BY <2>1, <2>2 DEF Expects, Waiting, GivenUp
<1>2. ASSUME NEW n \in DOMAIN sent, Unhandled(n)', IsReply(n)
      PROVE  (Expects(sent[n].call) \/ GivenUp(sent[n].call))'
  <2>1. PICK c : c = sent[n].call
    OBVIOUS
  <2>2. Expects(c)' \/ GivenUp(c)'
    BY <1>2, <2>1
  <2> QED
    BY <2>1, <2>2 DEF Expects, Waiting, GivenUp
<1> QED
  BY <1>1, <1>2 DEF Owed, IsReply

\* A step that hands no token on.
LEMMA Steady ==
    ASSUME ClientInv, TokenInv, ClientInv', UNCHANGED <<sent, handled, deliveries, given>>,
           FewerCommands,
           \A c \in Calls : \A t \in Tokens :
              /\ Has(c, t)' => Has(c, t)
              /\ Has(c, t) => Has(c, t)' \/ GivenUp(c)'
              /\ calls[c].token = t => calls'[c].token = t,
           \A c \in Calls : GivenUp(c) => GivenUp(c)',
           reader' = "running" =>
              /\ reader = "running" /\ writer' = "open"
              /\ \A c \in Calls : Expects(c) => Expects(c)' \/ GivenUp(c)'
    PROVE  TokenInv'
<1>1. SentOnce'
  BY DEF TokenInv, SentOnce
<1>2. Apart'
  BY DEF TokenInv, Apart, Once, In
<1>3. \A n : Unhandled(n)' <=> Unhandled(n)
  BY DEF Unhandled
<1>4. \A t : In(deliveries, t)' <=> In(deliveries, t)
  BY DEF In
<1>5. OnTheWay'
  BY <1>3, <1>4 DEF TokenInv, OnTheWay, Held
<1>6. \A n : IsReply(n)' <=> IsReply(n)
  BY DEF IsReply
<1>7. /\ Once(commands')
      /\ \A c \in Calls : In(commands', c) =>
            In(commands, c) \/ (calls[c].rid = 0 /\ Expects(c)')
  BY CommandsView DEF TokenInv, OneReply
<1>8. OneReply'
  <2>1. ASSUME NEW n \in DOMAIN sent, NEW i \in DOMAIN commands', IsReply(n)
        PROVE  sent[n].call # commands'[i]
    <3>1. sent[n].call \in Calls /\ calls[sent[n].call].rid >= 1
      BY <2>1, FrameFields DEF FrameOK, IsReply
    <3>2. ~In(commands, sent[n].call)
      BY <2>1, Zenon DEF TokenInv, OneReply, In
    <3>3. ~In(commands', sent[n].call)
      BY <1>7, <3>1, <3>2
    <3> QED
      BY <2>1, <3>3, Zenon DEF In
  <2> QED
    BY <1>6, <1>7, <2>1 DEF TokenInv, OneReply
<1>9. Owed'
  <2> SUFFICES ASSUME reader' = "running" PROVE Owed'
    BY DEF Owed
  <2>1. \A c \in Calls : Expects(c) \/ GivenUp(c) => Expects(c)' \/ GivenUp(c)'
    OBVIOUS
  <2>2. /\ reader = "running" /\ writer' = "open"
        /\ \A n \in DOMAIN sent : Unhandled(n) /\ IsReply(n) =>
              Expects(sent[n].call) \/ GivenUp(sent[n].call)
        /\ \A x \in Calls : In(commands, x) => Expects(x) \/ GivenUp(x)
    BY Zenon DEF TokenInv, Owed, In
  <2>3. \A n \in DOMAIN sent : IsReply(n) => sent[n].call \in Calls
    BY FrameFields
  <2>6. ASSUME NEW n \in DOMAIN sent, Unhandled(n), IsReply(n), NEW c, c = sent[n].call
        PROVE  Expects(c)' \/ GivenUp(c)'
    BY <2>1, <2>2, <2>3, <2>6
  <2>7. ASSUME NEW c \in Calls, In(commands', c) PROVE Expects(c)' \/ GivenUp(c)'
    BY <1>7, <2>1, <2>2, <2>7
  <2> QED
    BY <1>3, <1>6, <2>2, <2>6, <2>7, OwedView DEF ClientInv
<1>10. Arrived'
  <2> SUFFICES ASSUME NEW n \in DOMAIN sent, ~Unhandled(n), sent[n].token # None
               PROVE  /\ IsReply(n) => (GivenUp(sent[n].call) \/ Has(sent[n].call, sent[n].token))'
                      /\ ~IsReply(n) => \/ In(deliveries, sent[n].token)
                                        \/ \E c \in Calls : calls'[c].token = sent[n].token
    BY <1>3, <1>4, <1>6 DEF Arrived, GivenUp, Has
  <2>1. sent[n].token \in Tokens /\ (IsReply(n) => sent[n].call \in Calls)
    BY FrameFields
  <2>2. /\ IsReply(n) => GivenUp(sent[n].call) \/ Has(sent[n].call, sent[n].token)
        /\ ~IsReply(n) => \/ In(deliveries, sent[n].token)
                          \/ \E c \in Calls : calls[c].token = sent[n].token
    BY DEF TokenInv, Arrived
  <2> QED
    BY <2>1, <2>2
<1> QED
  BY <1>1, <1>2, <1>5, <1>8, <1>9, <1>10 DEF TokenInv

\* The end of futures hands no token on.
LEMMA EndTokens ==
    ASSUME ClientInv, TokenInv, ClientInv', NEW end \in {"failed", "cancelled"},
           calls' = EndFutures(pending, end), UNCHANGED <<sent, handled, deliveries, given>>,
           commands' = commands \/ commands' = << >>, reader' # "running"
    PROVE  TokenInv'
<1>1. \A c \in Calls :
         /\ calls'[c].at = calls[c].at /\ calls'[c].reply = calls[c].reply
         /\ calls'[c].token = calls[c].token /\ calls'[c].outcome = calls[c].outcome
         /\ calls'[c].future = "set" <=> calls[c].future = "set"
  <2>1. CallsTyped
    BY DEF ClientInv
  <2>2. \A c \in Calls :
           /\ calls'[c].at = calls[c].at /\ calls'[c].reply = calls[c].reply
           /\ calls'[c].token = calls[c].token /\ calls'[c].outcome = calls[c].outcome
           /\ calls'[c].future =
                 IF Waiting(c) /\ calls[c].future = "pending" /\ calls[c].rid \in pending
                 THEN end ELSE calls[c].future
    BY <2>1, EndView
  <2> QED
    BY <2>2
<1>2. /\ \A c \in Calls : \A t \in Tokens :
            /\ Has(c, t)' => Has(c, t)
            /\ Has(c, t) => Has(c, t)' \/ GivenUp(c)'
            /\ calls[c].token = t => calls'[c].token = t
      /\ \A c \in Calls : GivenUp(c) => GivenUp(c)'
  BY <1>1 DEF Has, GivenUp
<1> QED
  BY <1>2, Steady DEF FewerCommands

\* A step of one coroutine that hands no token on.
LEMMA MoveTokens ==
    ASSUME ClientInv, TokenInv, ClientInv', NEW c \in Calls,
           \A d \in Calls : d # c => calls'[d] = calls[d],
           UNCHANGED <<sent, handled, deliveries, given, reader, writer>>, FewerCommands,
           calls[c].outcome = "none",
           \A t \in Tokens :
              /\ Has(c, t)' => Has(c, t)
              /\ Has(c, t) => Has(c, t)' \/ GivenUp(c)'
              /\ calls[c].token = t => calls'[c].token = t,
           Expects(c) => Expects(c)' \/ GivenUp(c)'
    PROVE  TokenInv'
<1>1. \A d \in Calls : d # c => /\ \A t \in Tokens : Has(d, t)' <=> Has(d, t)
                                /\ GivenUp(d)' <=> GivenUp(d)
                                /\ Expects(d)' <=> Expects(d)
  BY DEF Has, GivenUp, Expects, Waiting
<1>2. ~GivenUp(c)
  BY DEF GivenUp
<1>3. reader' = "running" => reader = "running" /\ writer' = "open"
  BY DEF TokenInv, Owed
<1>4. \A d \in Calls : \A t \in Tokens :
         /\ Has(d, t)' => Has(d, t)
         /\ Has(d, t) => Has(d, t)' \/ GivenUp(d)'
         /\ calls[d].token = t => calls'[d].token = t
  BY <1>1
<1>5. \A d \in Calls : GivenUp(d) => GivenUp(d)'
  BY <1>1, <1>2
<1>6. \A d \in Calls : Expects(d) => Expects(d)' \/ GivenUp(d)'
  BY <1>1
<1> QED
  BY <1>3, <1>4, <1>5, <1>6, Steady

LEMMA StartTokens ==
    ASSUME ClientInv, TokenInv, ClientInv', NEW c \in Calls, Start(c)
    PROVE  TokenInv'
<1> DEFINE y == calls[c]
<1>1. y \in Call /\ CallOK(c) /\ calls \in [Calls -> Call] /\ None \notin Tokens
  BY CallFields, ClientAssumption DEF ClientInv, CallsTyped
<1>2. /\ y.at = "new" /\ UNCHANGED <<sent, handled, deliveries, given, reader, writer>>
  BY DEF Start, readVars
<1>3. y.outcome = "none" /\ y.token = None /\ y.future = "none" /\ y.rid = 0
  BY <1>1, <1>2 DEF CallOK
<1>4. \A d \in Calls : d # c => calls'[d] = calls[d]
  BY <1>1 DEF Start, request
<1>5. /\ calls'[c].token = None /\ calls'[c].future \in {"none", "pending"}
      /\ \/ commands' = commands
         \/ /\ commands' = Append(commands, c)
            /\ calls'[c].at = "drain" /\ calls'[c].future = "pending"
  <2>1. CASE Kind[c] = "consume" /\ registered
    <3>1. calls' = [calls EXCEPT ![c].at = "deliver"] /\ commands' = commands
      BY <2>1 DEF Start
    <3> QED
      BY <1>1, <1>3, <3>1 DEF Call
  <2>2. CASE ~(Kind[c] = "consume" /\ registered) /\ writer = "none"
    <3>1. /\ calls' = [calls EXCEPT ![c].at = "done", ![c].outcome = "error"]
          /\ commands' = commands
      BY <2>2 DEF Start, request
    <3> QED
      BY <1>1, <1>3, <3>1 DEF Call
  <2>3. CASE ~(Kind[c] = "consume" /\ registered) /\ writer # "none"
    <3>1. /\ calls' = [calls EXCEPT ![c].at = "drain", ![c].rid = NextRid,
                                    ![c].future = "pending", ![c].late = reader # "running"]
          /\ commands' = Append(commands, c) \/ commands' = commands
      BY <2>3 DEF Start, request
    <3>2. /\ calls'[c].token = y.token /\ calls'[c].future = "pending" /\ calls'[c].at = "drain"
      BY <1>1, <3>1 DEF Call
    <3> QED
      BY <1>3, <3>1, <3>2
  <2> QED
    BY <2>1, <2>2, <2>3
<1>6. \A t \in Tokens : ~Has(c, t)' /\ ~Has(c, t)
  BY <1>1, <1>3, <1>5 DEF Has
<1>7. FewerCommands
  BY <1>3, <1>5 DEF FewerCommands, Expects, Waiting
<1>8. ~Expects(c) /\ \A t \in Tokens : calls[c].token # t
  BY <1>1, <1>3 DEF Expects
<1> QED
  BY <1>2, <1>3, <1>4, <1>6, <1>7, <1>8, MoveTokens

LEMMA WaitTokens ==
    ASSUME ClientInv, TokenInv, ClientInv', NEW c \in Calls,
           Drained(c) \/ DrainFails(c) \/ Cancelled(c) \/ Timeout(c) \/ Resume(c)
    PROVE  TokenInv'
<1> DEFINE y == calls[c]
           x == calls'[c]
<1>1. y \in Call /\ CallOK(c) /\ calls \in [Calls -> Call] /\ None \notin Tokens
  BY CallFields, ClientAssumption DEF ClientInv, CallsTyped
<1>2. /\ y.at \in {"drain", "wait", "deliver"}
      /\ UNCHANGED <<sent, handled, deliveries, given, reader, writer, commands>>
  BY DEF Drained, DrainFails, Cancelled, Timeout, Resume, Moves, netVars, readVars
<1>3. y.outcome = "none" /\ y.token = None
  BY <1>1, <1>2 DEF CallOK
<1>4. \A d \in Calls : d # c => calls'[d] = calls[d]
  BY <1>1 DEF Drained, DrainFails, Cancelled, Timeout, Resume, Moves
<1>5. ASSUME \A t \in Tokens : /\ Has(c, t)' => Has(c, t)
                               /\ Has(c, t) => Has(c, t)' \/ GivenUp(c)',
             Expects(c) => Expects(c)' \/ GivenUp(c)'
      PROVE  TokenInv'
  <2>1. FewerCommands
    BY <1>2 DEF FewerCommands
  <2>2. \A t \in Tokens : calls[c].token # t
    BY <1>1, <1>3
  <2> QED
    BY <1>2, <1>3, <1>4, <1>5, <2>1, <2>2, MoveTokens
<1>6. CASE Drained(c)
  <2>1. x = [y EXCEPT !.at = "wait"] /\ y.at = "drain"
    BY <1>1, <1>6 DEF Drained, Moves
  <2>2. x.at = "wait" /\ x.future = y.future /\ x.reply = y.reply /\ x.token = y.token
    BY <1>1, <2>1 DEF Call
  <2>3. (\A t \in Tokens : Has(c, t)' <=> Has(c, t)) /\ (Expects(c) => Expects(c)')
    BY <2>1, <2>2 DEF Has, Expects, Waiting
  <2> QED
    BY <1>5, <2>3
<1>7. CASE DrainFails(c) \/ Cancelled(c) \/ Timeout(c)
  <2>1. \/ x = [y EXCEPT !.at = "done", !.outcome = "reset"]
        \/ x = [y EXCEPT !.at = "done", !.outcome = "cancelled"]
        \/ x = [y EXCEPT !.at = "done", !.outcome = "timeout"]
    BY <1>1, <1>7 DEF DrainFails, Cancelled, Timeout, Moves
  <2>2. x.at = "done" /\ x.outcome \in {"reset", "cancelled", "timeout"} /\ x.token = y.token
    BY <1>1, <2>1 DEF Call
  <2>3. GivenUp(c)' /\ \A t \in Tokens : ~Has(c, t)'
    BY <1>1, <1>3, <2>2 DEF GivenUp, Has
  <2> QED
    BY <1>5, <2>3
<1>8. CASE Resume(c)
  <2> DEFINE ok == y.future = "set" /\ y.reply.ok
  <2>1. /\ y.future # "pending" /\ y.at = "wait"
        /\ x = IF ~ok THEN [y EXCEPT !.at = "done", !.outcome = "error"]
               ELSE IF Kind[c] = "consume" THEN [y EXCEPT !.at = "deliver"]
               ELSE [y EXCEPT !.at = "done", !.outcome = "returned", !.token = y.reply.token]
    BY <1>1, <1>8 DEF Resume, Moves
  <2>2. ~Expects(c)
    BY <2>1 DEF Expects
  <2>3. y.future = "set" /\ y.reply.token # None => ok /\ Kind[c] = "get"
    BY <1>1 DEF CallOK
  <2>4. \A t \in Tokens : Has(c, t) <=> y.future = "set" /\ y.reply.token = t
    BY <1>1, <1>3, <2>1 DEF Has
  <2> HIDE DEF ok, x
  <2>5. \A t \in Tokens : Has(c, t)' <=> \/ x.token = t
                                         \/ x.at # "done" /\ x.future = "set" /\ x.reply.token = t
    BY DEF Has, x
  <2>6. CASE ~ok
    <3>1. x.at = "done" /\ x.token = y.token
      BY <1>1, <2>1, <2>6 DEF Call
    <3>2. \A t \in Tokens : ~Has(c, t)' /\ ~Has(c, t)
      BY <1>1, <1>3, <2>3, <2>4, <2>5, <2>6, <3>1
    <3> QED
      BY <1>5, <2>2, <3>2
  <2>7. CASE ok /\ Kind[c] = "consume"
    <3>1. x.at = "deliver" /\ x.token = y.token /\ x.future = y.future /\ x.reply = y.reply
      BY <1>1, <2>1, <2>7 DEF Call
    <3>2. \A t \in Tokens : Has(c, t)' <=> Has(c, t)
      BY <1>1, <1>3, <2>4, <2>5, <3>1
    <3> QED
      BY <1>5, <2>2, <3>2
  <2>8. CASE ok /\ Kind[c] # "consume"
    <3>1. x.at = "done" /\ x.token = y.reply.token
      BY <1>1, <2>1, <2>8 DEF Call
    <3>2. \A t \in Tokens : Has(c, t)' <=> Has(c, t)
      BY <1>1, <1>3, <2>4, <2>5, <2>8, <3>1 DEF ok
    <3> QED
      BY <1>5, <2>2, <3>2
  <2> QED
    BY <2>6, <2>7, <2>8
<1> QED
  BY <1>6, <1>7, <1>8

LEMMA TailView ==
    ASSUME NEW S, NEW q \in Seq(S), q # << >>, Once(q)
    PROVE  /\ Once(Tail(q)) /\ In(q, Head(q)) /\ Head(q) \in S
           /\ \A x : In(Tail(q), x) <=> In(q, x) /\ x # Head(q)
<1> DEFINE p == Tail(q)
           n == Len(q)
<1>1. /\ DOMAIN q = 1..n /\ n \in Nat /\ n >= 1 /\ DOMAIN p = 1..(n - 1) /\ Head(q) = q[1]
      /\ q[1] \in S /\ \A i \in 1..(n - 1) : p[i] = q[i + 1]
  OBVIOUS
<1> HIDE DEF p, n
<1>2. /\ 1 \in DOMAIN q
      /\ \A i \in DOMAIN p : i + 1 \in DOMAIN q /\ i + 1 # 1 /\ p[i] = q[i + 1]
      /\ \A j \in DOMAIN q : j # 1 => j - 1 \in DOMAIN p /\ p[j - 1] = q[j]
      /\ \A i, j \in DOMAIN p : i + 1 = j + 1 => i = j
  BY <1>1
<1>3. Once(p)
  BY <1>2 DEF Once
<1>4. ASSUME NEW x PROVE In(p, x) <=> In(q, x) /\ x # q[1]
  <2>1. ASSUME NEW i \in DOMAIN p, p[i] = x PROVE In(q, x) /\ x # q[1]
    BY <1>2, <2>1 DEF In, Once
  <2>2. ASSUME NEW j \in DOMAIN q, q[j] = x, x # q[1] PROVE In(p, x)
    BY <1>2, <2>2 DEF In
  <2> QED
    BY <2>1, <2>2 DEF In
<1> QED
  BY <1>1, <1>2, <1>3, <1>4 DEF p, In

LEMMA TakeTokens ==
    ASSUME ClientInv, TokenInv, ClientInv', NEW c \in Calls, TakeDelivery(c)
    PROVE  TokenInv'
<1> DEFINE y == calls[c]
           x == calls'[c]
           t0 == Head(deliveries)
<1>1. /\ y \in Call /\ CallOK(c) /\ calls \in [Calls -> Call] /\ None \notin Tokens
      /\ deliveries \in Seq(Tokens)
  BY CallFields, ClientAssumption DEF ClientInv, CallsTyped
<1>2. /\ y.at = "deliver" /\ deliveries # << >> /\ deliveries' = Tail(deliveries)
      /\ UNCHANGED <<sent, handled, given, reader, writer, commands>>
  BY DEF TakeDelivery, netVars, readVars
<1>3. /\ \A d \in Calls : d # c => calls'[d] = calls[d]
      /\ x.at = "done" /\ x.token = t0 /\ x.outcome = "returned"
  BY <1>1 DEF TakeDelivery, Call
<1>4. /\ Once(deliveries') /\ In(deliveries, t0) /\ t0 \in Tokens
      /\ \A t : In(deliveries', t) <=> In(deliveries, t) /\ t # t0
  BY <1>1, <1>2, TailView DEF TokenInv, Apart
<1>5. y.token = None /\ y.outcome = "none" /\ ~(y.future = "set" /\ y.reply.token # None)
  BY <1>1, <1>2 DEF CallOK
<1>6. \A t \in Tokens : ~Has(c, t) /\ (Has(c, t)' <=> t = t0) /\ calls[c].token # t
  BY <1>1, <1>3, <1>5 DEF Has
<1>7. ~GivenUp(c) /\ ~Expects(c)
  BY <1>2, <1>5 DEF GivenUp, Expects, Waiting
<1>8. \A d \in Calls : d # c => /\ \A t : Has(d, t)' <=> Has(d, t)
                                /\ GivenUp(d)' <=> GivenUp(d)
                                /\ Expects(d)' <=> Expects(d)
  BY <1>3 DEF Has, GivenUp, Expects, Waiting
<1> HIDE DEF x, y, t0
<1>9. SentOnce'
  BY <1>2 DEF TokenInv, SentOnce
<1>10. Apart'
  <2>1. ASSUME NEW t \in Tokens, NEW a \in Calls, NEW b \in Calls, Has(a, t)', Has(b, t)'
        PROVE  a = b
    BY <1>4, <1>6, <1>8, <2>1 DEF TokenInv, Apart
  <2>2. ASSUME NEW t \in Tokens, NEW d \in Calls, Has(d, t)' PROVE ~In(deliveries', t)
    BY <1>4, <1>6, <1>8, <2>2 DEF TokenInv, Apart
  <2> QED
    BY <1>4, <2>1, <2>2 DEF Apart, Once, In
<1>11. \A n : (Unhandled(n)' <=> Unhandled(n)) /\ (IsReply(n)' <=> IsReply(n))
  BY <1>2 DEF Unhandled, IsReply
<1>12. OnTheWay'
  <2>1. \A t \in Tokens : Held(t)' => Held(t)
    <3> SUFFICES ASSUME NEW t \in Tokens, Held(t)' PROVE Held(t)
      OBVIOUS
    <3>1. In(deliveries', t) \/ \E d \in Calls : Has(d, t)'
      BY DEF Held, In
    <3> QED
      BY <1>4, <1>6, <1>8, <3>1 DEF Held
  <2> QED
    BY <1>2, <1>11, <2>1 DEF TokenInv, OnTheWay
<1>13. OneReply'
  BY <1>2, <1>11 DEF TokenInv, OneReply, Once
<1>14. Owed'
  <2> SUFFICES ASSUME reader' = "running" PROVE Owed'
    BY DEF Owed
  <2>1. \A d \in Calls : Expects(d) \/ GivenUp(d) => Expects(d)' \/ GivenUp(d)'
    BY <1>7, <1>8
  <2>2. /\ writer' = "open"
        /\ \A n \in DOMAIN sent : Unhandled(n) /\ IsReply(n) =>
              Expects(sent[n].call) \/ GivenUp(sent[n].call)
        /\ \A d \in Calls : In(commands', d) => Expects(d) \/ GivenUp(d)
    BY <1>2, Zenon DEF TokenInv, Owed, In
  <2>3. \A n \in DOMAIN sent : IsReply(n) => sent[n].call \in Calls
    BY FrameFields
  <2> QED
    BY <1>2, <1>11, <2>1, <2>2, <2>3, OwedView DEF ClientInv
<1>15. Arrived'
  <2> SUFFICES ASSUME NEW n \in DOMAIN sent, ~Unhandled(n), sent[n].token # None
               PROVE  /\ IsReply(n) => (GivenUp(sent[n].call) \/ Has(sent[n].call, sent[n].token))'
                      /\ ~IsReply(n) => \/ In(deliveries', sent[n].token)
                                        \/ \E d \in Calls : calls'[d].token = sent[n].token
    BY <1>2, <1>11 DEF Arrived, GivenUp, Has, In
  <2>1. sent[n].token \in Tokens /\ (IsReply(n) => sent[n].call \in Calls)
    BY FrameFields
  <2>2. /\ IsReply(n) => GivenUp(sent[n].call) \/ Has(sent[n].call, sent[n].token)
        /\ ~IsReply(n) => \/ In(deliveries, sent[n].token)
                          \/ \E d \in Calls : calls[d].token = sent[n].token
    BY DEF TokenInv, Arrived
  <2>3. ASSUME IsReply(n), NEW d \in Calls, d = sent[n].call, NEW t \in Tokens, t = sent[n].token
        PROVE  GivenUp(d)' \/ Has(d, t)'
    BY <1>6, <1>7, <1>8, <2>2, <2>3
  <2>4. IsReply(n) => (GivenUp(sent[n].call) \/ Has(sent[n].call, sent[n].token))'
    BY <1>2, <2>1, <2>3 DEF GivenUp, Has
  <2>5. ASSUME ~IsReply(n), ~In(deliveries', sent[n].token)
        PROVE  \E d \in Calls : calls'[d].token = sent[n].token
    <3>1. CASE sent[n].token = t0
      BY <1>3, <3>1 DEF x
    <3>2. CASE sent[n].token # t0
      <4>1. PICK d \in Calls : calls[d].token = sent[n].token
        BY <1>4, <2>2, <2>5, <3>2
      <4> QED
        BY <1>3, <1>6, <2>1, <4>1
    <3> QED
      BY <3>1, <3>2
  <2> QED
    BY <2>4, <2>5
<1> QED
  BY <1>9, <1>10, <1>12, <1>13, <1>14, <1>15 DEF TokenInv

LEMMA ConnectTokens ==
    ASSUME ClientInv, TokenInv, connect
    PROVE  TokenInv'
<1>1. /\ sent' = << >> /\ commands' = << >> /\ writer' = "open" /\ UNCHANGED <<given, calls, deliveries>>
      /\ DOMAIN sent' = {} /\ DOMAIN commands' = {}
  BY Empty DEF connect, callVars
<1>2. SentOnce' /\ OneReply' /\ Owed' /\ Arrived'
  BY <1>1 DEF SentOnce, OneReply, Owed, Arrived, Once
<1>3. Apart'
  BY <1>1 DEF TokenInv, Apart, Has, In, Once
<1>4. OnTheWay'
  BY <1>1 DEF TokenInv, OnTheWay, Held, Has, In
<1> QED
  BY <1>2, <1>3, <1>4 DEF TokenInv

\* A frame is sent, with no token or one that was never given.
LEMMA SendTokens ==
    ASSUME ClientInv, TokenInv, ClientInv', NEW f \in Frame, Send(f),
           f.token # None => f.token \in Tokens \ given,
           Once(commands'), \A c \in Calls : In(commands', c) => In(commands, c),
           f.type = "response" =>
              f.call \in Calls /\ In(commands, f.call) /\ ~In(commands', f.call)
    PROVE  TokenInv'
<1>0. PICK N : N = Len(sent) + 1
  OBVIOUS
<1>1. /\ UNCHANGED <<handled, calls, deliveries, reader, writer>> /\ sent' = Append(sent, f)
      /\ given' = given \cup ({f.token} \ {None})
  BY DEF Send, readVars, callVars
<1>2. /\ sent \in Seq(Frame) /\ handled \in Seq(Nat) /\ Len(handled) <= Len(sent)
      /\ Len(sent) \in Nat /\ Len(handled) \in Nat
  BY DEF ClientInv, NetOK, NetTyped, HandledOK
<1>3. /\ N \in DOMAIN sent' /\ sent'[N] = f /\ N \notin DOMAIN sent /\ N > Len(handled)
      /\ \A n \in DOMAIN sent : n \in DOMAIN sent' /\ sent'[n] = sent[n]
      /\ \A n \in DOMAIN sent' : n = N \/ n \in DOMAIN sent
  BY <1>0, <1>1, <1>2
<1>4. /\ Unhandled(N)' /\ (IsReply(N)' <=> f.type = "response")
      /\ \A n \in DOMAIN sent : (Unhandled(n)' <=> Unhandled(n)) /\ (IsReply(n)' <=> IsReply(n))
  BY <1>1, <1>3 DEF Unhandled, IsReply
<1>5. \A n \in DOMAIN sent : f.token # None => sent[n].token # f.token
  BY DEF TokenInv, SentOnce
<1>6. SentOnce'
  BY <1>1, <1>3, <1>5 DEF TokenInv, SentOnce
<1>7. /\ \A c \in Calls : (GivenUp(c)' <=> GivenUp(c)) /\ (Expects(c)' <=> Expects(c))
      /\ \A t : Held(t)' <=> Held(t)
  BY <1>1 DEF Held, Has, In, GivenUp, Expects, Waiting
<1>8. Apart'
  BY <1>1 DEF TokenInv, Apart, Has, In, Once
<1>9. OnTheWay'
  <2> SUFFICES ASSUME NEW t \in Tokens, Held(t)
               PROVE  t \in given' /\ \A n \in DOMAIN sent' : Unhandled(n)' => sent'[n].token # t
    BY <1>7 DEF OnTheWay
  <2>1. t \in given /\ \A n \in DOMAIN sent : Unhandled(n) => sent[n].token # t
    BY DEF TokenInv, OnTheWay
  <2>2. None \notin Tokens
    BY ClientAssumption
  <2>3. f.token # t
    BY <2>1, <2>2
  <2> QED
    BY <1>1, <1>3, <1>4, <2>1, <2>3
<1>10. f.type = "response" => \A n \in DOMAIN sent : IsReply(n) => sent[n].call # f.call
  BY Zenon DEF TokenInv, OneReply, In
<1>11. ASSUME NEW n \in DOMAIN sent', NEW i \in DOMAIN commands', IsReply(n)'
       PROVE  sent'[n].call # commands'[i]
  <2>0. In(commands', commands'[i]) /\ commands'[i] \in Calls
    <3>1. commands' \in Seq(Calls)
      BY DEF ClientInv, NetOK, NetTyped
    <3>2. commands'[i] \in Calls
      BY <1>11, <3>1
    <3> QED
      BY <1>11, <3>2, Zenon DEF In
  <2>1. CASE n = N
    BY <1>3, <1>4, <1>11, <2>0, <2>1
  <2>2. CASE n \in DOMAIN sent
    <3>1. In(commands, commands'[i])
      BY <2>0
    <3>2. IsReply(n) /\ sent'[n] = sent[n]
      BY <1>3, <1>4, <1>11, <2>2
    <3>3. ~In(commands, sent[n].call)
      BY <2>2, <3>2, Zenon DEF TokenInv, OneReply, In
    <3> QED
      BY <3>1, <3>2, <3>3
  <2> QED
    BY <1>3, <2>1, <2>2
<1>12. OneReply'
  <2>1. ASSUME NEW n \in DOMAIN sent', NEW m \in DOMAIN sent', IsReply(n)', IsReply(m)',
               sent'[n].call = sent'[m].call
        PROVE  n = m
    BY <1>3, <1>4, <1>10, <2>1 DEF TokenInv, OneReply
  <2> QED
    BY <1>11, <2>1 DEF OneReply, Once
<1>13. ASSUME reader' = "running" PROVE Owed'
  <2>1. /\ writer = "open"
        /\ \A n \in DOMAIN sent : Unhandled(n) /\ IsReply(n) =>
              Expects(sent[n].call) \/ GivenUp(sent[n].call)
        /\ \A c \in Calls : In(commands, c) => Expects(c) \/ GivenUp(c)
    BY <1>1, <1>13, Zenon DEF TokenInv, Owed, In
  <2>2. \A n \in DOMAIN sent : IsReply(n) => sent[n].call \in Calls
    BY FrameFields
  <2>3. ASSUME NEW n \in DOMAIN sent', Unhandled(n)', IsReply(n)', NEW c, c = sent'[n].call
        PROVE  Expects(c)' \/ GivenUp(c)'
    <3>1. CASE n = N
      BY <1>3, <1>4, <1>7, <2>1, <2>3, <3>1
    <3>2. CASE n \in DOMAIN sent
      BY <1>3, <1>4, <1>7, <2>1, <2>2, <2>3, <3>2
    <3> QED
      BY <1>3, <3>1, <3>2
  <2>4. ASSUME NEW i \in DOMAIN commands', NEW c, c = commands'[i]
        PROVE  Expects(c)' \/ GivenUp(c)'
    <3>1. c \in Calls /\ In(commands', c)
      <4>1. commands' \in Seq(Calls)
        BY DEF ClientInv, NetOK, NetTyped
      <4>2. commands'[i] \in Calls
        BY <2>4, <4>1
      <4> QED
        BY <2>4, <4>2, Zenon DEF In
    <3> QED
      BY <1>7, <2>1, <3>1
  <2>5. \A n \in DOMAIN sent' : Unhandled(n)' /\ IsReply(n)' =>
           (Expects(sent[n].call) \/ GivenUp(sent[n].call))'
    BY <2>3 DEF Expects, Waiting, GivenUp
  <2>6. \A i \in DOMAIN commands' : (Expects(commands[i]) \/ GivenUp(commands[i]))'
    BY <2>4 DEF Expects, Waiting, GivenUp
  <2> QED
    BY <1>1, <2>1, <2>5, <2>6 DEF Owed
<1>14. Arrived'
  <2> SUFFICES ASSUME NEW n \in DOMAIN sent, ~Unhandled(n), sent[n].token # None
               PROVE  /\ IsReply(n) => GivenUp(sent[n].call) \/ Has(sent[n].call, sent[n].token)
                      /\ ~IsReply(n) => \/ In(deliveries, sent[n].token)
                                        \/ \E c \in Calls : calls[c].token = sent[n].token
    BY <1>1, <1>3, <1>4 DEF Arrived, GivenUp, Has, In
  <2> QED
    BY DEF TokenInv, Arrived
<1>15. Owed'
  BY <1>13 DEF Owed
<1> QED
  BY <1>6, <1>8, <1>9, <1>12, <1>14, <1>15 DEF TokenInv

LEMMA BrokerTokens ==
    ASSUME ClientInv, TokenInv, ClientInv', Broker
    PROVE  TokenInv'
<1>0. None \notin Tokens /\ commands \in Seq(Calls) /\ Once(commands)
  BY ClientAssumption DEF ClientInv, NetOK, NetTyped, TokenInv, OneReply
<1>1. ASSUME NEW ok \in BOOLEAN, NEW token \in Free \cup {None}, NEW damage \in Hurt,
             Answer(ok, token, damage)
      PROVE  TokenInv'
  <2> DEFINE c == Head(commands)
             f == [type |-> "response", rid |-> calls[c].rid, call |-> c, ok |-> ok,
                   token |-> token, damage |-> damage]
  <2>1. commands # << >> /\ Send(f) /\ commands' = Tail(commands)
    BY <1>1 DEF Answer
  <2>2. /\ Once(commands') /\ In(commands, c) /\ c \in Calls
        /\ \A x : In(commands', x) <=> In(commands, x) /\ x # c
    BY <1>0, <2>1, TailView
  <2>3. calls[c].rid \in Nat
    BY <2>2, CallFields DEF ClientInv
  <2> HIDE DEF c
  <2>4. /\ f \in Frame /\ f.token = token /\ f.call = c
    BY <2>2, <2>3 DEF Frame, Free, Hurt
  <2> HIDE DEF f
  <2>5. f.token # None => f.token \in Tokens \ given
    BY <2>4 DEF Free
  <2> QED
    BY <2>1, <2>2, <2>4, <2>5, SendTokens
<1>2. ASSUME NEW token \in Free, NEW damage \in Hurt, Push(token, damage)
      PROVE  TokenInv'
  <2> DEFINE f == [type |-> "event", rid |-> 0, call |-> None, ok |-> TRUE,
                   token |-> token, damage |-> damage]
  <2>1. Send(f) /\ commands' = commands
    BY <1>2 DEF Push
  <2>2. f \in Frame /\ f.token = token /\ f.type = "event"
    BY DEF Frame, Free, Hurt
  <2> HIDE DEF f
  <2>3. f.token \in Tokens \ given
    BY <2>2 DEF Free
  <2> QED
    BY <1>0, <2>1, <2>2, <2>3, SendTokens
<1>3. ASSUME NEW k \in 0..Len(wire), Lose(k) PROVE TokenInv'
  <2>1. /\ UNCHANGED <<sent, handled, deliveries, given, calls, reader, writer>> /\ commands' = << >>
    BY <1>3 DEF Lose, readVars, callVars
  <2>2. FewerCommands
    BY <2>1 DEF FewerCommands
  <2>3. \A c \in Calls : /\ \A t \in Tokens : Has(c, t)' <=> Has(c, t)
                         /\ GivenUp(c)' <=> GivenUp(c)
                         /\ Expects(c)' <=> Expects(c)
    BY <2>1 DEF Has, GivenUp, Expects, Waiting
  <2>4. reader' = "running" => reader = "running" /\ writer' = "open"
    BY <2>1 DEF TokenInv, Owed
  <2> QED
    BY <2>1, <2>2, <2>3, <2>4, Steady
<1> QED
  BY <1>1, <1>2, <1>3 DEF Broker

\* The frames of a turn of the read loop.
LEMMA NewlyHandled ==
    ASSUME ClientInv, NEW fs, GoesOn(fs), UNCHANGED sent, NEW n \in DOMAIN sent
    PROVE  /\ Unhandled(n)' => Unhandled(n)
           /\ Unhandled(n) /\ ~Unhandled(n)' <=> \E i \in DOMAIN fs : fs[i] = n
<1>1. /\ fs \in Seq(Nat) /\ handled' = handled \o fs
      /\ \A i \in DOMAIN fs : fs[i] = Len(handled) + i /\ fs[i] \in DOMAIN sent
      /\ handled \in Seq(Nat) /\ sent \in Seq(Frame)
  BY DEF GoesOn, ClientInv, NetOK, NetTyped
<1>2. Len(handled') = Len(handled) + Len(fs)
  BY <1>1, ConcatAt
<1> DEFINE h == Len(handled)
           k == Len(fs)
<1>3. h \in Nat /\ k \in Nat /\ DOMAIN fs = 1..k /\ n \in Nat
  BY <1>1
<1>4. \A i \in DOMAIN fs : fs[i] = h + i
  BY <1>1
<1>5. (Unhandled(n) <=> n > h) /\ (Unhandled(n)' <=> n > h + k)
  BY <1>2 DEF Unhandled
<1> HIDE DEF h, k
<1>6. n > h + k => n > h
  BY <1>3
<1>7. ASSUME n > h, ~(n > h + k) PROVE \E i \in DOMAIN fs : fs[i] = n
  <2>1. n - h \in DOMAIN fs /\ h + (n - h) = n
    BY <1>3, <1>7
  <2> QED
    BY <1>4, <2>1
<1>8. ASSUME NEW i \in DOMAIN fs, fs[i] = n PROVE n > h /\ ~(n > h + k)
  BY <1>3, <1>4, <1>8
<1> QED
  BY <1>5, <1>6, <1>7, <1>8

LEMMA GoesOnTokens ==
    ASSUME ClientInv, TokenInv, ClientInv', NEW fs, GoesOn(fs),
           UNCHANGED <<sent, commands, given, writer>>
    PROVE  TokenInv'
<1> DEFINE New(n) == \E i \in DOMAIN fs : fs[i] = n
<1>0. None \notin Tokens
  BY ClientAssumption
<1>1. /\ fs \in Seq(Nat) /\ reader = "running" /\ deliveries' = Queued(fs)
      /\ \A i \in DOMAIN fs : fs[i] = Len(handled) + i /\ fs[i] \in DOMAIN sent
      /\ deliveries \in Seq(Tokens) /\ Len(handled) \in Nat
  BY DEF GoesOn, ClientInv, CallsTyped, NetOK, NetTyped
<1>2. \A n \in DOMAIN sent : /\ Unhandled(n)' => Unhandled(n)
                             /\ Unhandled(n) /\ ~Unhandled(n)' <=> New(n)
  BY NewlyHandled
<1>3. \A n \in DOMAIN sent : /\ sent[n].token # None => sent[n].token \in Tokens
                             /\ IsReply(n) => sent[n].call \in Calls
                             /\ IsReply(n) <=> ~IsDelivery(n)
                             /\ IsDelivery(n) => sent[n].token \in Tokens
  BY FrameFields DEF IsReply, IsDelivery, FrameOK
<1>4. \A n : New(n) => n \in DOMAIN sent
  BY <1>1
<1>5. \A t \in Tokens : Held(t) => \A n : New(n) => sent[n].token # t
  BY <1>2, <1>4 DEF TokenInv, OnTheWay
<1>6. /\ Once(deliveries')
      /\ \A t : In(deliveries', t) <=>
                   \/ In(deliveries, t)
                   \/ \E n \in DOMAIN sent : New(n) /\ IsDelivery(n) /\ sent[n].token = t
  <2>1. \A i \in DOMAIN fs : IsDelivery(fs[i]) => sent[fs[i]].token \in Tokens
    BY <1>1, <1>3
  <2>2. BringsNew(fs)
    <3>1. \A i, j \in DOMAIN fs : fs[i] = fs[j] => i = j
      <4>1. \A i \in DOMAIN fs : i \in Nat
        BY <1>1
      <4>2. \A i \in DOMAIN fs : fs[i] = Len(handled) + i
        BY <1>1
      <4> DEFINE h == Len(handled)
      <4> HIDE DEF h
      <4>3. h \in Nat /\ \A i \in DOMAIN fs : fs[i] = h + i
        BY <1>1, <4>2 DEF h
      <4> QED
        BY <4>1, <4>3
    <3>2. ASSUME NEW i \in DOMAIN fs, IsDelivery(fs[i]) PROVE ~In(deliveries, sent[fs[i]].token)
      BY <1>5, <2>1, <3>2 DEF Held
    <3>3. ASSUME NEW i \in DOMAIN fs, NEW j \in DOMAIN fs, IsDelivery(fs[i]),
                 sent[fs[j]].token = sent[fs[i]].token
          PROVE  i = j
      <4>1. sent[fs[i]].token # None /\ fs[i] \in DOMAIN sent /\ fs[j] \in DOMAIN sent
        BY <1>0, <1>1, <2>1, <3>3
      <4>2. fs[i] = fs[j]
        BY <3>3, <4>1 DEF TokenInv, SentOnce
      <4> QED
        BY <3>1, <4>2
    <3> QED
      BY <3>2, <3>3 DEF BringsNew, TokenInv, Apart
  <2>3. /\ Once(Queued(fs))
        /\ \A t : In(Queued(fs), t) <=>
                     \/ In(deliveries, t)
                     \/ \E i \in DOMAIN fs : IsDelivery(fs[i]) /\ sent[fs[i]].token = t
    BY <1>1, <2>1, <2>2, QueuedView
  <2>4. \A t : (\E i \in DOMAIN fs : IsDelivery(fs[i]) /\ sent[fs[i]].token = t)
                 <=> \E n \in DOMAIN sent : New(n) /\ IsDelivery(n) /\ sent[n].token = t
    BY <1>4
  <2> QED
    BY <1>1, <2>3, <2>4
<1> HIDE DEF New
<1>7. ASSUME NEW c \in Calls
      PROVE  /\ GivenUp(c)' <=> GivenUp(c)
             /\ calls'[c].token = calls[c].token
             /\ \/ /\ calls'[c] = calls[c]
                   /\ Expects(c) => calls[c].rid \notin RepliedTo(fs)
                \/ /\ Expects(c)
                   /\ \A t \in Tokens : ~Has(c, t)
                   /\ \E n \in DOMAIN sent :
                         /\ New(n) /\ IsReply(n) /\ sent[n].call = c
                         /\ \A t \in Tokens : Has(c, t)' <=> sent[n].token = t
  <2>1. CallOK(c)
    BY DEF ClientInv
  <2>2. /\ calls'[c].at = calls[c].at /\ calls'[c].token = calls[c].token
        /\ calls'[c].outcome = calls[c].outcome
    BY AnsweredView
  <2>3. CASE calls'[c] = calls[c]
    BY <2>2, <2>3, AnsweredView DEF GivenUp, Expects
  <2>4. CASE calls'[c] # calls[c]
    <3>1. /\ Expects(c) /\ calls'[c].future = "set"
          /\ \E i \in DOMAIN fs : /\ calls'[c].reply = sent[fs[i]]
                                  /\ sent[fs[i]].type = "response" /\ sent[fs[i]].call = c
      BY <2>4, AnsweredView DEF Expects
    <3>2. PICK n \in DOMAIN sent : /\ New(n) /\ calls'[c].reply = sent[n]
                                   /\ IsReply(n) /\ sent[n].call = c
      BY <1>1, <3>1 DEF New, IsReply
    <3>3. calls[c].at # "done" /\ calls[c].token = None /\ calls[c].future = "pending"
      BY <2>1, <3>1 DEF CallOK, Expects, Waiting
    <3>4. \A t \in Tokens : ~Has(c, t) /\ (Has(c, t)' <=> sent[n].token = t)
      BY <1>0, <2>2, <3>1, <3>2, <3>3 DEF Has
    <3> QED
      BY <2>2, <3>1, <3>2, <3>4 DEF GivenUp
  <2> QED
    BY <2>3, <2>4
<1>8. \A c \in Calls : \A t \in Tokens :
         /\ Has(c, t) => Has(c, t)'
         /\ Has(c, t)' =>
               \/ Has(c, t)
               \/ \E n \in DOMAIN sent :
                     New(n) /\ IsReply(n) /\ sent[n].call = c /\ sent[n].token = t
  <2> SUFFICES ASSUME NEW c \in Calls, NEW t \in Tokens
               PROVE  /\ Has(c, t) => Has(c, t)'
                      /\ Has(c, t)' =>
                            \/ Has(c, t)
                            \/ \E n \in DOMAIN sent :
                                  New(n) /\ IsReply(n) /\ sent[n].call = c /\ sent[n].token = t
    OBVIOUS
  <2>1. CASE calls'[c] = calls[c]
    BY <2>1 DEF Has
  <2>2. CASE calls'[c] # calls[c]
    BY <1>7, <2>2
  <2> QED
    BY <2>1, <2>2
<1>9. ASSUME NEW n \in DOMAIN sent, New(n), IsReply(n), NEW c \in Calls, c = sent[n].call,
             Expects(c), NEW t \in Tokens, t = sent[n].token
      PROVE  Has(c, t)'
  <2>1. calls[c].rid \in RepliedTo(fs)
    <3>1. sent[n].rid = calls[c].rid
      BY <1>9, FrameFields DEF FrameOK, IsReply
    <3> QED
      BY <1>9, <3>1 DEF RepliedTo, New
  <2>2. PICK m \in DOMAIN sent : /\ New(m) /\ IsReply(m) /\ sent[m].call = c
                                 /\ Has(c, t)' <=> sent[m].token = t
    BY <1>7, <1>9, <2>1
  <2>3. m = n
    BY <1>9, <2>2 DEF TokenInv, OneReply
  <2> QED
    BY <1>9, <2>2, <2>3
<1>10. ASSUME NEW c \in Calls, Expects(c),
              \A n \in DOMAIN sent : New(n) /\ IsReply(n) => sent[n].call # c
       PROVE  Expects(c)'
  <2>1. calls'[c] = calls[c]
    BY <1>7, <1>10
  <2> QED
    BY <1>10, <2>1 DEF Expects, Waiting
<1>11. SentOnce'
  BY DEF TokenInv, SentOnce
<1>12. \A n, m \in DOMAIN sent : sent[n].token # None /\ sent[n].token = sent[m].token => n = m
  BY DEF TokenInv, SentOnce
<1>13. \A t \in Tokens : Held(t)' =>
          \/ Held(t)
          \/ \E n \in DOMAIN sent : New(n) /\ sent[n].token = t
  <2> SUFFICES ASSUME NEW t \in Tokens, Held(t)'
               PROVE  Held(t) \/ \E n \in DOMAIN sent : New(n) /\ sent[n].token = t
    OBVIOUS
  <2>1. In(deliveries', t) \/ \E c \in Calls : Has(c, t)'
    BY DEF Held, In
  <2> QED
    BY <1>6, <1>8, <2>1 DEF Held
<1>14. Apart'
  <2>1. ASSUME NEW t \in Tokens, NEW c \in Calls, NEW d \in Calls, Has(c, t)', Has(d, t)'
        PROVE  c = d
    <3>1. CASE Has(c, t) /\ Has(d, t)
      BY <3>1 DEF TokenInv, Apart
    <3>2. CASE Has(c, t) \/ Has(d, t)
      <4>1. \A n : New(n) => sent[n].token # t
        BY <1>5, <3>2 DEF Held
      <4> QED
        BY <1>8, <2>1, <3>1, <4>1
    <3>3. CASE ~Has(c, t) /\ ~Has(d, t)
      <4>1. PICK n \in DOMAIN sent : sent[n].call = c /\ sent[n].token = t
        BY <1>8, <2>1, <3>3
      <4>2. PICK m \in DOMAIN sent : sent[m].call = d /\ sent[m].token = t
        BY <1>8, <2>1, <3>3
      <4>3. n = m
        BY <1>0, <1>12, <4>1, <4>2
      <4> QED
        BY <4>1, <4>2, <4>3
    <3> QED
      BY <3>2, <3>3
  <2>2. ASSUME NEW t \in Tokens, NEW c \in Calls, Has(c, t)', In(deliveries', t) PROVE FALSE
    <3>1. CASE Held(t)
      <4>1. \A n : New(n) => sent[n].token # t
        BY <1>5, <3>1
      <4>2. Has(c, t) /\ In(deliveries, t)
        BY <1>6, <1>8, <2>2, <4>1
      <4> QED
        BY <4>2 DEF TokenInv, Apart
    <3>2. CASE ~Held(t)
      <4>1. PICK n \in DOMAIN sent : IsReply(n) /\ sent[n].token = t
        BY <1>8, <2>2, <3>2 DEF Held
      <4>2. PICK m \in DOMAIN sent : IsDelivery(m) /\ sent[m].token = t
        BY <1>6, <2>2, <3>2 DEF Held
      <4>3. n = m
        BY <1>0, <1>12, <4>1, <4>2
      <4> QED
        BY <1>3, <4>1, <4>2, <4>3
    <3> QED
      BY <3>1, <3>2
  <2> QED
    BY <1>6, <2>1, <2>2 DEF Apart, Once, In
<1>15. OnTheWay'
  <2> SUFFICES ASSUME NEW t \in Tokens, Held(t)'
               PROVE  t \in given /\ \A n \in DOMAIN sent : Unhandled(n)' => sent[n].token # t
    BY DEF OnTheWay
  <2>1. CASE Held(t)
    BY <1>2, <2>1 DEF TokenInv, OnTheWay
  <2>2. CASE \E n \in DOMAIN sent : New(n) /\ sent[n].token = t
    <3>1. PICK n \in DOMAIN sent : New(n) /\ sent[n].token = t
      BY <2>2
    <3>2. t \in given
      BY <1>0, <3>1 DEF TokenInv, SentOnce
    <3>3. ASSUME NEW m \in DOMAIN sent, Unhandled(m)', sent[m].token = t PROVE FALSE
      <4>1. m = n
        BY <1>0, <1>12, <3>1, <3>3
      <4> QED
        BY <1>2, <3>1, <3>3, <4>1
    <3> QED
      BY <3>2, <3>3
  <2> QED
    BY <1>13, <2>1, <2>2
<1>16. \A n : IsReply(n)' <=> IsReply(n)
  BY DEF IsReply
<1>17. OneReply'
  BY <1>16 DEF TokenInv, OneReply, Once
<1>18. Owed'
  <2>1. /\ writer = "open"
        /\ \A n \in DOMAIN sent : Unhandled(n) /\ IsReply(n) =>
              Expects(sent[n].call) \/ GivenUp(sent[n].call)
        /\ \A c \in Calls : In(commands, c) => Expects(c) \/ GivenUp(c)
    BY <1>1, Zenon DEF TokenInv, Owed, In
  <2>2. ASSUME NEW n \in DOMAIN sent, Unhandled(n)', IsReply(n), NEW c, c = sent[n].call
        PROVE  Expects(c)' \/ GivenUp(c)'
    <3>1. c \in Calls /\ (Expects(c) \/ GivenUp(c))
      BY <1>2, <1>3, <2>1, <2>2
    <3>2. \A m \in DOMAIN sent : New(m) /\ IsReply(m) => sent[m].call # c
      BY <1>2, <2>2 DEF TokenInv, OneReply
    <3> QED
      BY <1>7, <1>10, <3>1, <3>2
  <2>3. ASSUME NEW c \in Calls, In(commands', c) PROVE Expects(c)' \/ GivenUp(c)'
    <3>1. In(commands, c)
      BY <2>3 DEF In
    <3>2. \A m \in DOMAIN sent : New(m) /\ IsReply(m) => sent[m].call # c
      BY <3>1, Zenon DEF TokenInv, OneReply, In
    <3> QED
      BY <1>7, <1>10, <2>1, <3>1, <3>2
  <2> QED
    BY <2>1, <2>2, <2>3, OwedView DEF ClientInv
<1>19. Arrived'
  <2> SUFFICES ASSUME NEW n \in DOMAIN sent, ~Unhandled(n)', sent[n].token # None
               PROVE  /\ IsReply(n) => (GivenUp(sent[n].call) \/ Has(sent[n].call, sent[n].token))'
                      /\ ~IsReply(n) => \/ In(deliveries', sent[n].token)
                                        \/ \E c \in Calls : calls'[c].token = sent[n].token
    BY <1>16 DEF Arrived, GivenUp, Has, In
  <2>0. PICK t \in Tokens : t = sent[n].token
    BY <1>3
  <2>1. CASE ~Unhandled(n)
    <3>1. /\ IsReply(n) => GivenUp(sent[n].call) \/ Has(sent[n].call, sent[n].token)
          /\ ~IsReply(n) => \/ In(deliveries, sent[n].token)
                            \/ \E c \in Calls : calls[c].token = sent[n].token
      BY <2>1 DEF TokenInv, Arrived
    <3>2. ASSUME IsReply(n), NEW c \in Calls, c = sent[n].call PROVE GivenUp(c)' \/ Has(c, t)'
      BY <1>7, <1>8, <2>0, <3>1, <3>2
    <3>3. IsReply(n) => (GivenUp(sent[n].call) \/ Has(sent[n].call, sent[n].token))'
      BY <1>3, <2>0, <3>2 DEF GivenUp, Has
    <3>4. ~IsReply(n) => \/ In(deliveries', sent[n].token)
                         \/ \E c \in Calls : calls'[c].token = sent[n].token
      BY <1>6, <1>7, <3>1
    <3> QED
      BY <3>3, <3>4
  <2>2. CASE Unhandled(n)
    <3>1. New(n)
      BY <1>2, <2>2
    <3>2. ASSUME IsReply(n), NEW c \in Calls, c = sent[n].call PROVE GivenUp(c)' \/ Has(c, t)'
      <4>1. Expects(c) \/ GivenUp(c)
        BY <1>1, <2>2, <3>2 DEF TokenInv, Owed
      <4> QED
        BY <1>7, <1>9, <2>0, <3>1, <3>2, <4>1
    <3>3. IsReply(n) => (GivenUp(sent[n].call) \/ Has(sent[n].call, sent[n].token))'
      BY <1>3, <2>0, <3>2 DEF GivenUp, Has
    <3>4. ~IsReply(n) => In(deliveries', sent[n].token)
      BY <1>3, <1>6, <3>1
    <3> QED
      BY <3>3, <3>4
  <2> QED
    BY <2>1, <2>2
<1> QED
  BY <1>11, <1>14, <1>15, <1>17, <1>18, <1>19 DEF TokenInv

LEMMA InitTokens == Init => TokenInv
<1> SUFFICES ASSUME Init PROVE TokenInv
  OBVIOUS
<1>1. /\ sent = << >> /\ commands = << >> /\ deliveries = << >>
      /\ DOMAIN sent = {} /\ DOMAIN commands = {} /\ DOMAIN deliveries = {}
      /\ reader = "none" /\ None \notin Tokens
  BY Empty, ClientAssumption DEF Init
<1>2. \A c \in Calls : \A t \in Tokens : ~Has(c, t)
  BY <1>1 DEF Init, Fresh, Has
<1>3. SentOnce /\ OneReply /\ Owed /\ Arrived
  BY <1>1 DEF SentOnce, OneReply, Owed, Arrived, Once
<1>4. Apart /\ OnTheWay
  BY <1>1, <1>2 DEF Apart, OnTheWay, Held, In, Once
<1> QED
  BY <1>3, <1>4 DEF TokenInv

\* A step that changes no coroutine, and does not start the read loop.
LEMMA IdleTokens ==
    ASSUME ClientInv, TokenInv, ClientInv', UNCHANGED <<sent, handled, deliveries, given, calls>>,
           commands' = commands \/ commands' = << >>,
           reader' = "running" => reader = "running" /\ writer' = "open"
    PROVE  TokenInv'
<1>1. \A c \in Calls : \A t \in Tokens : Has(c, t)' <=> Has(c, t)
  BY DEF Has
<1>2. \A c \in Calls : (GivenUp(c)' <=> GivenUp(c)) /\ (Expects(c)' <=> Expects(c))
  BY DEF GivenUp, Expects, Waiting
<1>3. FewerCommands
  BY DEF FewerCommands
<1> QED
  BY <1>1, <1>2, <1>3, Steady

LEMMA CloseTokens ==
    ASSUME ClientInv, TokenInv, ClientInv', close \/ CloseEnd
    PROVE  TokenInv'
<1>1. CASE close
  <2>1. /\ UNCHANGED <<sent, handled, deliveries, given>> /\ commands' = << >>
        /\ reader' = "none"
    BY <1>1 DEF close
  <2>2. CASE reader = "running"
    <3>1. calls' = EndFutures(pending, "failed")
      BY <1>1, <2>2 DEF close, LoopOver
    <3> QED
      BY <2>1, <3>1, EndTokens
  <2>3. CASE reader # "running"
    <3>1. calls' = calls
      BY <1>1, <2>3 DEF close
    <3> QED
      BY <2>1, <3>1, IdleTokens
  <2> QED
    BY <2>2, <2>3
<1>2. CASE CloseEnd
  <2>1. /\ UNCHANGED <<sent, handled, deliveries, given, commands, reader>>
        /\ calls' = EndFutures(pending, "cancelled") /\ writer = "closing"
    BY <1>2 DEF CloseEnd, netVars, readVars
  <2>2. reader # "running"
    BY <2>1 DEF TokenInv, Owed
  <2> QED
    BY <2>1, <2>2, EndTokens
<1> QED
  BY <1>1, <1>2

LEMMA ReadLoopTokens ==
    ASSUME ClientInv, TokenInv, ClientInv', ReadLoop
    PROVE  TokenInv'
<1>0. NetOK
  BY DEF ClientInv
<1>1. /\ Ends \/ \E fs \in Seq(Nat) : GoesOn(fs)
      /\ UNCHANGED <<sent, commands, given, writer>>
  <2>1. CASE ReadEnds
    BY <1>0, <2>1, EndsNet DEF ReadEnds, netVars
  <2>2. CASE \E k \in 1..Len(wire) : Read(k)
    <3>1. PICK k \in Nat : Read(k)
      <4>1. \A k \in 1..Len(wire) : k \in Nat
        BY <1>0 DEF NetOK, NetTyped
      <4> QED
        BY <2>2, <4>1
    <3> QED
      BY <1>0, <3>1, ReadNet
  <2> QED
    BY <2>1, <2>2 DEF ReadLoop
<1>2. CASE Ends
  <2>1. /\ calls' = EndFutures(pending, "failed") /\ reader' = "ended"
        /\ UNCHANGED <<handled, deliveries>>
    BY <1>2 DEF Ends, LoopOver
  <2> QED
    BY <1>1, <2>1, EndTokens
<1>3. ASSUME NEW fs \in Seq(Nat), GoesOn(fs) PROVE TokenInv'
  BY <1>1, <1>3, GoesOnTokens
<1> QED
  BY <1>1, <1>2, <1>3

LEMMA TokenStep == ClientInv /\ TokenInv /\ [Next]_vars => TokenInv'
<1> SUFFICES ASSUME ClientInv, TokenInv, [Next]_vars PROVE TokenInv'
  OBVIOUS
<1>0. ClientInv'
  BY StepHolds
<1>1. CASE UNCHANGED vars
  <2>1. UNCHANGED <<sent, handled, deliveries, given, calls, commands, reader, writer>>
    BY <1>1 DEF vars, netVars, readVars, callVars
  <2>2. reader = "running" => writer = "open"
    BY DEF TokenInv, Owed
  <2> QED
    BY <1>0, <2>1, <2>2, IdleTokens
<1>2. CASE connect
  BY <1>2, ConnectTokens
<1>3. CASE close \/ CloseEnd
  BY <1>0, <1>3, CloseTokens
<1>4. CASE ReadLoop
  BY <1>0, <1>4, ReadLoopTokens
<1>5. ASSUME NEW c \in Calls, Coroutine(c) PROVE TokenInv'
  BY <1>0, <1>5, StartTokens, WaitTokens, TakeTokens DEF Coroutine
<1>6. CASE Broker
  BY <1>0, <1>6, BrokerTokens
<1> QED
  BY <1>1, <1>2, <1>3, <1>4, <1>5, <1>6 DEF Next

LEMMA TokensInvariant == Spec => [](ClientInv /\ TokenInv)
<1>1. Init => ClientInv /\ TokenInv
  BY InitHolds, InitTokens
<1>2. ClientInv /\ TokenInv /\ [Next]_vars => (ClientInv /\ TokenInv)'
  BY StepHolds, TokenStep
<1> QED
  BY <1>1, <1>2, PTL DEF Spec

\* A token that is held is in one place.
LEMMA OneHolder ==
    ASSUME ClientInv, TokenInv, NEW t \in Tokens, Held(t)
    PROVE  Cardinality(Places(t)) = 1
<1>0. /\ None \notin Tokens /\ \A c \in Calls : CallOK(c)
      /\ Once(deliveries)
      /\ \A c, d \in Calls : Has(c, t) /\ Has(d, t) => c = d
      /\ \A c \in Calls : Has(c, t) => ~In(deliveries, t)
  BY ClientAssumption DEF ClientInv, TokenInv, Apart
<1>1. ASSUME NEW p, Places(t) = {p} PROVE Cardinality(Places(t)) = 1
  BY <1>1, FS_Singleton
<1> DEFINE A == {x \in Calls : calls[x].token = t}
           B == {x \in Calls : /\ calls[x].at # "done" /\ calls[x].future = "set"
                               /\ calls[x].reply.token = t}
           D == {j \in DOMAIN deliveries : deliveries[j] = t}
<1>2. Places(t) = {<<"call", c>> : c \in A} \cup {<<"future", c>> : c \in B}
                    \cup {<<"queue", i>> : i \in D}
  BY DEF Places
<1>3. \A c \in Calls : Has(c, t) <=> c \in A \/ c \in B
  BY DEF Has
<1>4. \A c \in Calls : ~(c \in A /\ c \in B)
  BY <1>0 DEF CallOK
<1>5. In(deliveries, t) <=> \E j \in DOMAIN deliveries : j \in D
  BY DEF In
<1>6. \A i, j \in D : i = j
  BY <1>0 DEF Once
<1>7. A \subseteq Calls /\ B \subseteq Calls /\ D \subseteq DOMAIN deliveries
  OBVIOUS
<1> HIDE DEF A, B, D
<1>8. CASE \E c \in Calls : Has(c, t)
  <2>1. PICK c \in Calls : Has(c, t)
    BY <1>8
  <2>2. D = {}
    BY <1>0, <1>5, <1>7, <2>1
  <2>3. \A d \in A \cup B : d = c
    BY <1>0, <1>3, <1>7, <2>1
  <2>4. CASE c \in A
    <3>1. A = {c} /\ B = {}
      BY <1>4, <1>7, <2>3, <2>4
    <3>2. Places(t) = {<<"call", c>>}
      BY <1>2, <2>2, <3>1, Zenon
    <3> QED
      BY <1>1, <3>2
  <2>5. CASE c \in B
    <3>1. B = {c} /\ A = {}
      BY <1>4, <1>7, <2>3, <2>5
    <3>2. Places(t) = {<<"future", c>>}
      BY <1>2, <2>2, <3>1, Zenon
    <3> QED
      BY <1>1, <3>2
  <2> QED
    BY <1>3, <2>1, <2>4, <2>5
<1>9. CASE ~\E c \in Calls : Has(c, t)
  <2>1. A = {} /\ B = {}
    BY <1>3, <1>7, <1>9
  <2>2. PICK j : j \in D
    BY <1>5, <1>9 DEF Held
  <2>3. D = {j}
    BY <1>6, <2>2
  <2>4. Places(t) = {<<"queue", j>>}
    BY <1>2, <2>1, <2>3, Zenon
  <2> QED
    BY <1>1, <2>4
<1> QED
  BY <1>8, <1>9

-----------------------------------------------------------------------------
(* The theorems.                                                           *)

\* The fields of the client, the calls and the wire stay well typed, and
\* what was handled is among what was sent.
THEOREM ClientTyped == Spec => []ClientTypeOK
<1>1. ClientInv => ClientTypeOK
  <2> SUFFICES ASSUME ClientInv PROVE ClientTypeOK
    OBVIOUS
  <2>1. /\ NetTyped /\ HandledOK /\ CallsTyped
    BY DEF ClientInv, NetOK
  <2>2. handled \in Seq(1..Len(sent))
    <3> DEFINE h == Len(handled)
               n == Len(sent)
    <3>1. /\ h \in Nat /\ n \in Nat /\ h <= n /\ DOMAIN handled = 1..h
          /\ handled \in Seq(Nat) /\ \A i \in 1..h : handled[i] = i
      BY <2>1 DEF NetTyped, HandledOK
    <3>2. \A i \in 1..h : handled[i] \in 1..n
      <4> HIDE DEF h, n
      <4> QED
        BY <3>1
    <3> QED
      BY <3>1, <3>2
  <2> QED
    BY <2>1, <2>2 DEF ClientTypeOK, NetTyped, CallsTyped
<1> QED
  BY <1>1, Invariant, PTL

\* However the stream is cut into reads, FrameReader and the read loop hand on
\* the frames that were sent, in order, each once, none of them damaged; and no
\* whole frame of an intact stream is held back.
THEOREM FramesReassembled == Spec => []Reassembled
<1>1. ClientInv => Reassembled
  <2> SUFFICES ASSUME ClientInv PROVE Reassembled
    OBVIOUS
  <2>1. /\ \A i \in DOMAIN handled : handled[i] = i /\ sent[i].damage = "none"
        /\ Len(handled) \in Nat /\ Len(sent) \in Nat
        /\ reader = "running" /\ net = "up" =>
              /\ Cells(Len(handled)) + Len(buf) + Len(wire) = Cells(Len(sent))
              /\ Intact => Len(buf) < FrameSize
    BY DEF ClientInv, NetOK, NetTyped, HandledOK, StreamOK
  <2>2. /\ FrameSize * Len(handled) = Cells(Len(handled))
        /\ FrameSize * Len(sent) = Cells(Len(sent))
    BY <2>1, CellsProduct
  <2> QED
    BY <2>1, <2>2, Zenon DEF Reassembled
<1> QED
  BY <1>1, Invariant, PTL

\* A future is only ever given the reply to its own command, however late the
\* reply and however often the client has reconnected.
THEOREM RepliesAreOwn == Spec => []OwnReply
<1>1. ClientInv => OwnReply
  BY DEF ClientInv, CallOK, OwnReply
<1> QED
  BY <1>1, Invariant, PTL

\* _pending has the futures of the requests that wait and, beyond them, only
\* those of requests that were cancelled or whose drain() raised; a closed
\* client has none.
THEOREM PendingStaysTrue == Spec => []PendingAgrees
<1>1. ClientInv => PendingAgrees
  BY DEF ClientInv
<1> QED
  BY <1>1, Invariant, PTL

\* No request that was made while the read loop ran is left waiting when the
\* loop has ended, whichever way it ended.
THEOREM EndOfLoopWakes == Spec => []EndWakesRequests
<1>1. ClientInv => EndWakesRequests
  BY DEF ClientInv
<1> QED
  BY <1>1, Invariant, PTL

\* A message that the read loop has handled is in one place, the queue of
\* deliveries or one call, unless it came in the reply to a GET that was given
\* up or cancelled: none is lost between the loop and the calls, and none is handed out twice.
THEOREM NothingIsMislaid == Spec => []NothingMislaid
<1>1. ClientInv /\ TokenInv => NothingMislaid
  <2> SUFFICES ASSUME ClientInv, TokenInv, NEW i \in DOMAIN handled,
                      sent[handled[i]].token # None,
                      ~(/\ sent[handled[i]].type = "response"
                        /\ calls[sent[handled[i]].call].outcome
                              \in {"timeout", "reset", "cancelled"})
               PROVE  Cardinality(Places(sent[handled[i]].token)) = 1
    BY DEF NothingMislaid
  <2>1. handled[i] = i /\ i \in DOMAIN sent /\ ~Unhandled(i)
    <3> DEFINE h == Len(handled)
               n == Len(sent)
    <3>1. /\ h \in Nat /\ n \in Nat /\ h <= n /\ DOMAIN handled = 1..h /\ DOMAIN sent = 1..n
          /\ handled[i] = i
      BY DEF ClientInv, NetOK, NetTyped, HandledOK
    <3>2. Unhandled(i) <=> i \in DOMAIN sent /\ i > h
      BY DEF Unhandled
    <3> HIDE DEF h, n
    <3> QED
      BY <3>1, <3>2
  <2>2. sent[i].token \in Tokens /\ (IsReply(i) => sent[i].call \in Calls)
    BY <2>1, FrameFields
  <2>3. /\ IsReply(i) => GivenUp(sent[i].call) \/ Has(sent[i].call, sent[i].token)
        /\ ~IsReply(i) => \/ In(deliveries, sent[i].token)
                          \/ \E c \in Calls : calls[c].token = sent[i].token
    BY <2>1 DEF TokenInv, Arrived
  <2>4. IsReply(i) => ~GivenUp(sent[i].call)
    BY <2>1 DEF IsReply, GivenUp
  <2>5. Held(sent[i].token)
    BY <2>2, <2>3, <2>4 DEF Held, Has
  <2> QED
    BY <2>1, <2>2, <2>5, OneHolder
<1> QED
  BY <1>1, TokensInvariant, PTL


=============================================================================
