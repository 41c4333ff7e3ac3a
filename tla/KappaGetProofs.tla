--------------------------- MODULE KappaGetProofs ---------------------------
(***************************************************************************)
(* Theorems about get: what a consumer is given and which holders are       *)
(* blamed, for any object, range, piece and run length, number of runs in   *)
(* flight and any holders.                                                  *)
(***************************************************************************)
EXTENDS KappaGet, SequenceTheorems, FiniteSetTheorems, WellFoundedInduction, TLAPS

Pcs == {"idle", "await", "yield", "done", "failed", "left"}

(* A get's record; of its runs nothing is said here. *)
Shape(c, run) ==
    c \in [pc : Pcs, from : Nat, to : Nat, next : Nat, inflight : Seq(Nat), cur : Nat, piece : Nat,
           run : {run}, out : Seq(Int)]

RunShape(r, left, asked, got) ==
    r \in [st : {"fetching", "ok", "failed"}, left : {left}, asked : {asked}, got : {got}]

(* What a run has kept are pieces of the object, and none of the ones it      *)
(* still waits for.                                                           *)
Kept(r) ==
    /\ RunShape(r, r.left, r.asked, r.got)
    /\ \A p \in DOMAIN r.got : r.got[p] = PieceBytes(p)
    /\ r.st = "fetching" => r.asked \cap DOMAIN r.got = {}

Complete(r, pieces) == r.st = "ok" => pieces \subseteq DOMAIN r.got

(* The runs in flight are the last ones that were begun, in their order. *)
InLine(s, next) == Len(s) <= next /\ \A k \in 1 .. Len(s) : s[k] = next - Len(s) + k - 1

InOrder(c) == c.next <= RunCount(c) /\ Len(c.inflight) <= AHEAD /\ InLine(c.inflight, c.next)

Runs(c) ==
    /\ c.run = [i \in 0 .. c.next - 1 |-> c.run[i]]
    /\ \A i \in 0 .. c.next - 1 : Kept(c.run[i])

(* The bytes of the range that lie before piece p. *)
Before(c, p) ==
    IF p * PIECE <= c.from THEN 0
    ELSE IF p * PIECE <= c.to THEN p * PIECE - c.from ELSE c.to - c.from + 1

(* How far the generator is: the run and the piece it has come to, and the    *)
(* bytes given so far, which end there.                                       *)
Place(c) ==
    /\ c.pc = "idle" => c.next = 0 /\ Len(c.inflight) = 0 /\ Len(c.out) = 0
    /\ c.pc \in {"await", "yield"} =>
         /\ c.cur = c.next - Len(c.inflight) - 1
         /\ \A i \in c.cur .. c.next - 1 : Complete(c.run[i], RunPieces(c, i))
    /\ c.pc = "await" => Len(c.out) = Before(c, FirstPiece(c) + c.cur * Per)
    /\ c.pc = "yield" =>
         /\ c.piece \in RunPieces(c, c.cur) /\ c.run[c.cur].st = "ok"
         /\ Len(c.out) = Before(c, c.piece)
         /\ Len(c.inflight) = 0 => c.next = RunCount(c)
    /\ c.pc = "done" => Len(c.out) = c.to - c.from + 1

(* What was given is the range's start. *)
From(s, first) == \A k \in 1 .. Len(s) : s[k] = first + k - 1
Given(c) == Len(c.out) <= c.to - c.from + 1 /\ From(c.out, c.from)

Good(c) ==
    /\ Shape(c, c.run) /\ c.from <= c.to /\ c.to < Size
    /\ InOrder(c) /\ Runs(c) /\ Place(c) /\ Given(c)

Inv ==
    /\ call = [g \in Gets |-> call[g]]
    /\ \A g \in Gets : Good(call[g])


-----------------------------------------------------------------------------
(* Arithmetic of pieces and runs. *)

LEMMA Divides ==
    ASSUME NEW a \in Nat, NEW b \in Nat \ {0}
    PROVE  a \div b \in Nat /\ (a \div b) * b <= a /\ a < (a \div b) * b + b
OBVIOUS

LEMMA Multiples ==
    ASSUME NEW m \in Nat, NEW n \in Nat, NEW b \in Nat \ {0}
    PROVE  /\ m * b \in Nat /\ (m + 1) * b = m * b + b
           /\ m <= n => m * b <= n * b
           /\ m < n => m * b + b <= n * b
<1>1. m * b \in Nat /\ (m + 1) * b = m * b + b
  OBVIOUS
<1>2. ASSUME m <= n PROVE m * b <= n * b
  <2>1. n * b = m * b + (n - m) * b /\ n - m \in Nat
    BY <1>2
  <2>2. (n - m) * b \in Nat
    BY <2>1
  <2>3. n * b \in Nat
    OBVIOUS
  <2>4. QED  BY <1>1, <2>1, <2>2, <2>3
<1>3. ASSUME m < n PROVE m * b + b <= n * b
  <2>1. n * b = m * b + b + (n - m - 1) * b /\ n - m - 1 \in Nat
    BY <1>3
  <2>2. (n - m - 1) * b \in Nat
    BY <2>1
  <2>3. n * b \in Nat
    OBVIOUS
  <2>4. QED  BY <1>1, <2>1, <2>2, <2>3
<1>4. QED  BY <1>1, <1>2, <1>3


(* A range of the object. *)
Ranged(c) == c.from \in Nat /\ c.to \in Nat /\ c.from <= c.to /\ c.to < Size

LEMMA Sizes == PIECE \in Nat \ {0} /\ Per \in Nat \ {0} /\ AHEAD \in Nat \ {0} /\ Size \in Nat \ {0}
BY GetAssumption

LEMMA PieceFacts ==
    ASSUME NEW c, Ranged(c)
    PROVE  /\ FirstPiece(c) \in Nat /\ LastPiece(c) \in Nat /\ FirstPiece(c) <= LastPiece(c)
           /\ FirstPiece(c) * PIECE <= c.from /\ c.from < FirstPiece(c) * PIECE + PIECE
           /\ LastPiece(c) * PIECE <= c.to /\ c.to < LastPiece(c) * PIECE + PIECE
<1> DEFINE F == FirstPiece(c)
           L == LastPiece(c)
<1>1. c.from \in Nat /\ c.to \in Nat /\ c.from <= c.to
  BY DEF Ranged
<1>2. F \in Nat /\ F * PIECE <= c.from /\ c.from < F * PIECE + PIECE
  BY <1>1, Sizes, Divides DEF FirstPiece
<1>3. L \in Nat /\ L * PIECE <= c.to /\ c.to < L * PIECE + PIECE
  BY <1>1, Sizes, Divides DEF LastPiece
<1> HIDE DEF F, L
<1>4. F <= L
  <2>1. SUFFICES ASSUME L < F PROVE FALSE
    BY <1>2, <1>3
  <2>2. L * PIECE + PIECE <= F * PIECE /\ F * PIECE \in Nat /\ L * PIECE \in Nat
    BY <1>2, <1>3, <2>1, Sizes, Multiples
  <2>3. PIECE \in Nat
    BY Sizes
  <2>4. QED  BY <1>1, <1>2, <1>3, <2>2, <2>3
<1>5. QED  BY <1>2, <1>3, <1>4 DEF F, L

LEMMA RunFacts ==
    ASSUME NEW c, Ranged(c)
    PROVE  /\ RunCount(c) \in Nat \ {0}
           /\ \A i \in Nat :
                /\ FirstPiece(c) + i * Per \in Nat
                /\ FirstPiece(c) + (i + 1) * Per = FirstPiece(c) + i * Per + Per
                /\ i < RunCount(c) => FirstPiece(c) + i * Per <= LastPiece(c)
                /\ i + 1 = RunCount(c) => FirstPiece(c) + i * Per + Per > LastPiece(c)
<1> DEFINE F == FirstPiece(c)
           L == LastPiece(c)
           q == (L - F) \div Per
<1>1. F \in Nat /\ L \in Nat /\ F <= L
  BY PieceFacts
<1>2. Per \in Nat \ {0}
  BY Sizes
<1> HIDE DEF F, L
<1>3. q \in Nat /\ q * Per <= L - F /\ L - F < q * Per + Per
  <2>1. L - F \in Nat
    BY <1>1
  <2>2. QED  BY <1>2, <2>1, Divides
<1>4. RunCount(c) = q + 1
  BY DEF RunCount, F, L
<1> HIDE DEF q
<1>5. ASSUME NEW i \in Nat
      PROVE  /\ i * Per \in Nat /\ (i + 1) * Per = i * Per + Per
             /\ i <= q => i * Per <= q * Per
  BY <1>2, <1>3, Multiples
<1>6. ASSUME NEW i \in Nat
      PROVE  /\ F + i * Per \in Nat
             /\ F + (i + 1) * Per = F + i * Per + Per
             /\ i < RunCount(c) => F + i * Per <= L
             /\ i + 1 = RunCount(c) => F + i * Per + Per > L
  <2>1. F + i * Per \in Nat /\ F + (i + 1) * Per = F + i * Per + Per
    BY <1>1, <1>2, <1>5
  <2>2. q * Per \in Nat
    BY <1>2, <1>3, Multiples
  <2>3. i < RunCount(c) => F + i * Per <= L
    BY <1>1, <1>3, <1>4, <1>5, <2>2
  <2>4. ASSUME i + 1 = RunCount(c) PROVE F + i * Per + Per > L
    <3>1. i = q
      BY <1>3, <1>4, <2>4
    <3>2. QED  BY <1>1, <1>2, <1>3, <2>2, <3>1
  <2>5. QED  BY <2>1, <2>3, <2>4
<1>7. QED  BY <1>3, <1>4, <1>6 DEF F, L

(* The pieces of a run are neighbours, and the next run goes on after them. *)
LEMMA RunPiecesFacts ==
    ASSUME NEW c, Ranged(c), NEW i \in Nat, i < RunCount(c)
    PROVE  /\ FirstPiece(c) + i * Per \in RunPieces(c, i)
           /\ Least(RunPieces(c, i)) = FirstPiece(c) + i * Per
           /\ \A p \in RunPieces(c, i) :
                /\ p \in Nat /\ p >= FirstPiece(c) /\ p <= LastPiece(c)
                /\ p + 1 \notin RunPieces(c, i) =>
                     /\ i + 1 < RunCount(c) => p + 1 = FirstPiece(c) + (i + 1) * Per
                     /\ i + 1 = RunCount(c) => p = LastPiece(c)
<1> DEFINE F == FirstPiece(c)
           L == LastPiece(c)
           a == F + i * Per
           b == F + (i + 1) * Per
<1>1. F \in Nat /\ L \in Nat /\ F <= L /\ Per \in Nat \ {0} /\ RunCount(c) \in Nat
  BY PieceFacts, Sizes, RunFacts
<1>2. a \in Nat /\ b = a + Per /\ a <= L /\ (i + 1 = RunCount(c) => b > L) /\ (i + 1 < RunCount(c) => b <= L)
  <2>1. i + 1 \in Nat
    OBVIOUS
  <2>2. QED  BY <2>1, RunFacts
<1>3. a >= F
  BY <1>1, Multiples
<1>4. RunPieces(c, i) = {p \in a .. a + Per - 1 : p <= L}
  BY DEF RunPieces
<1> HIDE DEF F, L, a, b
<1>5. a \in RunPieces(c, i) /\ \A y \in RunPieces(c, i) : a <= y /\ y \in Int
  BY <1>1, <1>2, <1>4
<1>6. Least(RunPieces(c, i)) = a
  <2>1. \A x \in RunPieces(c, i) : (\A y \in RunPieces(c, i) : x <= y) => x = a
    BY <1>2, <1>5
  <2>2. QED  BY <1>5, <2>1 DEF Least
<1>7. ASSUME NEW p \in RunPieces(c, i)
      PROVE  /\ p \in Nat /\ p >= F /\ p <= L
             /\ p + 1 \notin RunPieces(c, i) =>
                     /\ i + 1 < RunCount(c) => p + 1 = b
                     /\ i + 1 = RunCount(c) => p = L
  BY <1>1, <1>2, <1>3, <1>4
<1>8. QED  BY <1>5, <1>6, <1>7 DEF F, L, a, b

LEMMA LenFacts ==
    ASSUME NEW c, Ranged(c), NEW p \in Nat, p >= FirstPiece(c), p <= LastPiece(c)
    PROVE  /\ p * PIECE \in Nat /\ (p + 1) * PIECE = p * PIECE + PIECE /\ p * PIECE <= c.to
           /\ LenOf(p) \in Nat \ {0} /\ LenOf(p) <= PIECE
           /\ p * PIECE + LenOf(p) > c.from
           /\ p * PIECE + LenOf(p) <= c.to => LenOf(p) = PIECE
           /\ p * PIECE + PIECE <= c.to => LenOf(p) = PIECE
<1> DEFINE s == p * PIECE
<1>1. c.from \in Nat /\ c.to \in Nat /\ c.from <= c.to /\ c.to < Size /\ Size \in Nat /\ PIECE \in Nat \ {0}
  BY Sizes DEF Ranged
<1>2. /\ FirstPiece(c) \in Nat /\ LastPiece(c) \in Nat
      /\ c.from < FirstPiece(c) * PIECE + PIECE /\ LastPiece(c) * PIECE <= c.to
  BY PieceFacts
<1>3. /\ s \in Nat /\ (p + 1) * PIECE = s + PIECE
      /\ FirstPiece(c) * PIECE <= s /\ s <= LastPiece(c) * PIECE
      /\ FirstPiece(c) * PIECE \in Nat /\ LastPiece(c) * PIECE \in Nat
  BY <1>1, <1>2, Multiples
<1>4. s <= c.to /\ c.from < s + PIECE
  BY <1>1, <1>2, <1>3
<1>5. LenOf(p) = IF PIECE < Size - s THEN PIECE ELSE Size - s
  BY DEF LenOf
<1> HIDE DEF s
<1>6. /\ LenOf(p) \in Nat \ {0} /\ LenOf(p) <= PIECE /\ s + LenOf(p) > c.from
      /\ s + LenOf(p) <= c.to => LenOf(p) = PIECE
      /\ s + PIECE <= c.to => LenOf(p) = PIECE
  BY <1>1, <1>3, <1>4, <1>5
<1>7. QED  BY <1>3, <1>4, <1>6 DEF s

LEMMA PieceBytesFacts ==
    ASSUME NEW p \in Nat, p * PIECE \in Nat, LenOf(p) \in Nat
    PROVE  /\ PieceBytes(p) \in Seq(Int) /\ Len(PieceBytes(p)) = LenOf(p)
           /\ \A k \in 1 .. LenOf(p) : PieceBytes(p)[k] = p * PIECE + k - 1
<1> DEFINE s == p * PIECE
           n == LenOf(p)
<1>1. PieceBytes(p) = [k \in 1 .. n |-> s + k - 1]
  <2>1. (s + n - 1) - s + 1 = n
    OBVIOUS
  <2>2. QED  BY <2>1 DEF PieceBytes, Bytes
<1> HIDE DEF s, n
<1>2. s \in Nat /\ n \in Nat
  BY DEF s, n
<1>3. QED  BY <1>1, <1>2 DEF s, n

(* The bytes cut out of a piece go on where the pieces before it end. *)
LEMMA CutFacts ==
    ASSUME NEW c, Ranged(c), NEW p \in Nat, p >= FirstPiece(c), p <= LastPiece(c), NEW cut,
           cut = CutTo(c, p, PieceBytes(p))
    PROVE  /\ cut \in Seq(Int) /\ Before(c, p) \in Nat
           /\ Before(c, p) + Len(cut) = Before(c, p + 1)
           /\ \A k \in 1 .. Len(cut) : cut[k] = c.from + Before(c, p) + k - 1
<1> DEFINE s == p * PIECE
           n == LenOf(p)
           buf == PieceBytes(p)
           lo == IF c.from > s THEN c.from ELSE s
           hi == IF c.to < s + n - 1 THEN c.to ELSE s + n - 1
<1>1. c.from \in Nat /\ c.to \in Nat /\ c.from <= c.to /\ PIECE \in Nat \ {0}
  BY Sizes DEF Ranged
<1>2. /\ s \in Nat /\ (p + 1) * PIECE = s + PIECE /\ s <= c.to
      /\ n \in Nat \ {0} /\ n <= PIECE /\ s + n > c.from
      /\ s + n <= c.to => n = PIECE
      /\ s + PIECE <= c.to => n = PIECE
  BY LenFacts
<1>3. /\ buf \in Seq(Int) /\ Len(buf) = n /\ \A k \in 1 .. n : buf[k] = s + k - 1
  BY <1>2, PieceBytesFacts
<1>4. cut = SubSeq(buf, lo - s + 1, hi - s + 1)
  BY <1>3 DEF CutTo
<1>5. /\ Before(c, p) = IF s <= c.from THEN 0 ELSE s - c.from
      /\ Before(c, p + 1) = IF s + PIECE <= c.from THEN 0
                            ELSE IF s + PIECE <= c.to THEN s + PIECE - c.from ELSE c.to - c.from + 1
  <2>1. Before(c, p) = IF s <= c.from THEN 0 ELSE s - c.from
    BY <1>2 DEF Before
  <2> DEFINE u == (p + 1) * PIECE
  <2>2. Before(c, p + 1) = IF u <= c.from THEN 0 ELSE IF u <= c.to THEN u - c.from ELSE c.to - c.from + 1
    BY DEF Before
  <2>3. u = s + PIECE /\ s \in Nat
    BY <1>2
  <2> HIDE DEF u, s
  <2>4. QED  BY <1>1, <2>1, <2>2, <2>3
<1> HIDE DEF s, n, buf
<1>6. /\ lo \in Nat /\ hi \in Nat /\ lo <= hi + 1 /\ s <= lo /\ hi <= s + n - 1
      /\ lo = c.from + Before(c, p) /\ Before(c, p) \in Nat
      /\ Before(c, p) + (hi - lo + 1) = Before(c, p + 1)
  BY <1>1, <1>2, <1>5
<1> HIDE DEF lo, hi
<1>7. /\ cut \in Seq(Int) /\ Len(cut) = hi - lo + 1
      /\ \A k \in 1 .. hi - lo + 1 : cut[k] = buf[lo - s + k]
  <2> DEFINE a == lo - s + 1
             b == hi - s + 1
  <2>1. a \in Int /\ b \in Int /\ a >= 1 /\ b <= n /\ b - a + 1 = hi - lo + 1 /\ b - a + 1 \in Nat
    BY <1>2, <1>6
  <2>2. \A j \in a .. b : buf[j] \in Int
    BY <1>2, <1>3, <2>1
  <2> HIDE DEF a, b
  <2>3. cut = SubSeq(buf, a, b)
    BY <1>4 DEF a, b
  <2>4. /\ cut \in Seq(Int) /\ Len(cut) = IF a <= b THEN b - a + 1 ELSE 0
        /\ \A k \in 1 .. b - a + 1 : cut[k] = buf[a + k - 1]
    BY <2>1, <2>2, <2>3, SubSeqProperties
  <2>5. Len(cut) = b - a + 1
    BY <2>1, <2>4
  <2>6. \A k \in 1 .. b - a + 1 : a + k - 1 = lo - s + k
    BY <1>2, <1>6 DEF a
  <2>7. \A k \in 1 .. hi - lo + 1 : cut[k] = buf[lo - s + k]
    BY <2>1, <2>4, <2>6
  <2>8. QED  BY <2>1, <2>4, <2>5, <2>7
<1>8. ASSUME NEW k \in 1 .. hi - lo + 1 PROVE cut[k] = lo + k - 1
  <2>1. lo - s + k \in 1 .. n
    BY <1>2, <1>6
  <2>2. buf[lo - s + k] = s + (lo - s + k) - 1
    BY <1>3, <2>1
  <2>3. s + (lo - s + k) - 1 = lo + k - 1
    BY <1>2, <1>6
  <2>4. cut[k] = buf[lo - s + k]
    BY <1>7
  <2>5. QED  BY <2>2, <2>3, <2>4
<1>9. QED  BY <1>1, <1>6, <1>7, <1>8


-----------------------------------------------------------------------------
(* One get. *)

LEMMA SameRange ==
    ASSUME NEW c, NEW d, d.from = c.from, d.to = c.to
    PROVE  /\ FirstPiece(d) = FirstPiece(c) /\ LastPiece(d) = LastPiece(c) /\ RunCount(d) = RunCount(c)
           /\ \A i : RunPieces(d, i) = RunPieces(c, i)
           /\ \A p : Before(d, p) = Before(c, p)
<1>1. FirstPiece(d) = FirstPiece(c) /\ LastPiece(d) = LastPiece(c)
  BY DEF FirstPiece, LastPiece
<1>2. QED  BY <1>1 DEF RunCount, RunPieces, Before

LEMMA Fields ==
    ASSUME NEW c, Shape(c, c.run)
    PROVE  /\ c.pc \in Pcs /\ c.from \in Nat /\ c.to \in Nat /\ c.next \in Nat /\ c.inflight \in Seq(Nat)
           /\ c.cur \in Nat /\ c.piece \in Nat /\ c.out \in Seq(Int)
           /\ Len(c.inflight) \in Nat /\ Len(c.out) \in Nat
<1>1. c.inflight \in Seq(Nat) /\ c.out \in Seq(Int)
  BY DEF Shape
<1>2. Len(c.inflight) \in Nat /\ Len(c.out) \in Nat
  BY <1>1
<1>3. QED  BY <1>1, <1>2 DEF Shape

LEMMA BeginKept ==
    ASSUME NEW c, NEW i
    PROVE  Kept(Begin(c, i)) /\ Begin(c, i).st # "ok"
<1> DEFINE left == Rank
           asked == Asked(RunPieces(c, i), Rank)
           st == IF Rank = <<>> THEN "failed" ELSE "fetching"
           none == NoPieces
<1>1. Begin(c, i) = [st |-> st, left |-> left, asked |-> asked, got |-> none]
  BY DEF Begin
<1>2. DOMAIN none = {}
  BY DEF NoPieces
<1>3. st \in {"fetching", "failed"}
  OBVIOUS
<1> HIDE DEF left, asked, st, none
<1>4. QED  BY <1>1, <1>2, <1>3 DEF Kept, RunShape

(* The next n runs stand in line behind the others; the first in line is the *)
(* one before the rest.                                                      *)
LEMMA InLineMore ==
    ASSUME NEW s \in Seq(Nat), NEW next \in Nat, NEW n \in Nat, InLine(s, next), NEW new, NEW t,
           new = [k \in 1 .. n |-> next + k - 1], t = s \o new
    PROVE  t \in Seq(Nat) /\ Len(t) = Len(s) + n /\ InLine(t, next + n)
<1>1. new \in Seq(Nat) /\ Len(new) = n /\ \A k \in 1 .. n : new[k] = next + k - 1
  OBVIOUS
<1>2. /\ t \in Seq(Nat) /\ Len(t) = Len(s) + n
      /\ \A k \in 1 .. Len(s) + n : t[k] = IF k <= Len(s) THEN s[k] ELSE new[k - Len(s)]
  BY <1>1, ConcatProperties
<1>3. Len(s) \in Nat /\ Len(s) <= next /\ \A k \in 1 .. Len(s) : s[k] = next - Len(s) + k - 1
  BY DEF InLine
<1>4. ASSUME NEW k \in 1 .. Len(t) PROVE t[k] = (next + n) - Len(t) + k - 1
  <2>1. k \in 1 .. Len(s) + n
    BY <1>2
  <2>2. CASE k <= Len(s)
    <3>1. t[k] = s[k] /\ k \in 1 .. Len(s)
      BY <1>2, <1>3, <2>1, <2>2
    <3>2. t[k] = next - Len(s) + k - 1
      BY <1>3, <3>1
    <3>3. QED  BY <1>2, <1>3, <3>2
  <2>3. CASE ~(k <= Len(s))
    <3>1. t[k] = new[k - Len(s)] /\ k - Len(s) \in 1 .. n
      BY <1>2, <1>3, <2>1, <2>3
    <3>2. t[k] = next + (k - Len(s)) - 1
      BY <1>1, <3>1
    <3>3. QED  BY <1>2, <1>3, <3>2
  <2>4. QED  BY <2>2, <2>3
<1>5. QED  BY <1>2, <1>3, <1>4 DEF InLine

LEMMA InLineFirst ==
    ASSUME NEW s \in Seq(Nat), NEW next \in Nat, s # <<>>, InLine(s, next)
    PROVE  /\ Len(s) # 0 /\ Head(s) \in Nat /\ Tail(s) \in Seq(Nat) /\ Len(Tail(s)) = Len(s) - 1
           /\ Head(s) = next - Len(s) /\ Head(s) = next - Len(Tail(s)) - 1 /\ InLine(Tail(s), next)
<1> DEFINE tail == Tail(s)
<1>1. /\ Len(s) \in Nat /\ Len(s) # 0 /\ Head(s) = s[1] /\ Head(s) \in Nat /\ tail \in Seq(Nat)
      /\ Len(tail) = Len(s) - 1 /\ \A k \in 1 .. Len(tail) : tail[k] = s[k + 1]
  BY HeadTailProperties
<1>2. Len(s) <= next /\ \A k \in 1 .. Len(s) : s[k] = next - Len(s) + k - 1
  BY DEF InLine
<1> HIDE DEF tail
<1>3. Head(s) = next - Len(s)
  <2>1. 1 \in 1 .. Len(s)
    BY <1>1
  <2>2. s[1] = next - Len(s) + 1 - 1
    BY <1>2, <2>1
  <2>3. QED  BY <1>1, <2>2
<1>4. ASSUME NEW k \in 1 .. Len(tail) PROVE tail[k] = next - Len(tail) + k - 1
  <2>1. k + 1 \in 1 .. Len(s)
    BY <1>1
  <2>2. s[k + 1] = next - Len(s) + (k + 1) - 1
    BY <1>2, <2>1
  <2>3. tail[k] = s[k + 1]
    BY <1>1
  <2>4. next - Len(s) + (k + 1) - 1 = next - Len(tail) + k - 1
    BY <1>1
  <2>5. QED  BY <2>2, <2>3, <2>4
<1>5. Len(tail) <= next /\ next - Len(s) = next - Len(tail) - 1
  BY <1>1, <1>2
<1>6. QED  BY <1>1, <1>3, <1>4, <1>5 DEF tail, InLine

(* pump begins the next runs and puts them behind the others. *)
LEMMA PumpFacts ==
    ASSUME NEW c, Shape(c, c.run), Ranged(c), InOrder(c), Runs(c), NEW d, d = Pump(c)
    PROVE  /\ Shape(d, d.run) /\ InOrder(d) /\ Runs(d)
           /\ d.pc = c.pc /\ d.from = c.from /\ d.to = c.to /\ d.cur = c.cur /\ d.piece = c.piece /\ d.out = c.out
           /\ d.next >= c.next /\ d.next - Len(d.inflight) = c.next - Len(c.inflight)
           /\ \A i \in 0 .. c.next - 1 : d.run[i] = c.run[i]
           /\ \A i \in c.next .. d.next - 1 : d.run[i].st # "ok"
           /\ Len(d.inflight) = 0 => d.next = RunCount(c)
<1> DEFINE len == Len(c.inflight)
           room == AHEAD - len
           last == IF c.next + room < RunCount(c) THEN c.next + room ELSE RunCount(c)
           fresh == c.next .. last - 1
           new == [k \in 1 .. last - c.next |-> c.next + k - 1]
           flight == c.inflight \o new
           run == [i \in DOMAIN c.run \cup fresh |-> IF i \in fresh THEN Begin(c, i) ELSE c.run[i]]
<1>1. /\ c.next \in Nat /\ c.inflight \in Seq(Nat) /\ len \in Nat /\ RunCount(c) \in Nat /\ AHEAD \in Nat \ {0}
  BY Fields, RunFacts, Sizes
<1>2. c.next <= RunCount(c) /\ len <= AHEAD
  BY DEF InOrder
<1>3. /\ last \in Nat /\ last >= c.next /\ last <= RunCount(c) /\ last - c.next \in Nat
      /\ len + (last - c.next) <= AHEAD
      /\ len + (last - c.next) = 0 => last = RunCount(c)
  <2> DEFINE n == c.next
             all == RunCount(c)
  <2>1. n \in Nat /\ all \in Nat /\ n <= all /\ last = IF n + room < all THEN n + room ELSE all
    BY <1>1, <1>2
  <2>2. len \in Nat /\ AHEAD \in Nat \ {0} /\ len <= AHEAD /\ room = AHEAD - len
    BY <1>1, <1>2
  <2> HIDE DEF n, all, len, room, last
  <2>3. /\ last \in Nat /\ last >= n /\ last <= all /\ last - n \in Nat
        /\ len + (last - n) <= AHEAD
        /\ len + (last - n) = 0 => last = all
    <3>1. CASE n + room < all
      <4>1. last = n + room
        BY <2>1, <3>1
      <4>2. QED  BY <2>1, <2>2, <3>1, <4>1
    <3>2. CASE ~(n + room < all)
      <4>1. last = all
        BY <2>1, <3>2
      <4>2. QED  BY <2>1, <2>2, <3>2, <4>1
    <3>3. QED  BY <3>1, <3>2
  <2>4. QED  BY <2>3 DEF n, all
<1>4. d = [c EXCEPT !.next = last, !.inflight = flight, !.run = run]
  BY DEF Pump, Shape
<1> HIDE DEF last
<1>5. flight \in Seq(Nat) /\ Len(flight) = len + (last - c.next) /\ InLine(flight, c.next + (last - c.next))
  <2> HIDE DEF len
  <2>1. InLine(c.inflight, c.next)
    BY DEF InOrder
  <2>2. QED  BY <1>1, <1>3, <2>1, InLineMore DEF len
<1>6. InLine(flight, last)
  <2>1. c.next + (last - c.next) = last
    BY <1>1, <1>3
  <2>2. QED  BY <1>5, <2>1
<1> HIDE DEF new, flight
<1>7. Len(flight) <= AHEAD /\ (Len(flight) = 0 => last = RunCount(c)) /\ last - Len(flight) = c.next - len
  <2> HIDE DEF len
  <2>1. len \in Nat
    BY <1>1
  <2>2. QED  BY <1>1, <1>3, <1>5, <2>1
<1>8. /\ d.pc = c.pc /\ d.from = c.from /\ d.to = c.to /\ d.cur = c.cur /\ d.piece = c.piece /\ d.out = c.out
      /\ d.next = last /\ d.inflight = flight /\ d.run = run /\ Shape(d, d.run)
  <2> HIDE DEF run
  <2>1. QED  BY <1>3, <1>4, <1>5 DEF Shape
<1>9. InOrder(d)
  <2>1. RunCount(d) = RunCount(c)
    BY <1>8, SameRange
  <2>2. QED  BY <1>3, <1>6, <1>7, <1>8, <2>1 DEF InOrder
<1>10. /\ run = [i \in 0 .. last - 1 |-> run[i]]
       /\ \A i \in 0 .. c.next - 1 : run[i] = c.run[i]
       /\ \A i \in c.next .. last - 1 : run[i] = Begin(c, i)
  <2>1. DOMAIN c.run = 0 .. c.next - 1
    BY DEF Runs
  <2>2. (DOMAIN c.run) \cup fresh = 0 .. last - 1
    BY <1>1, <1>3, <2>1
  <2>3. \A i \in 0 .. c.next - 1 : i \notin fresh
    BY <1>1, <1>3
  <2>4. QED  BY <2>1, <2>2, <2>3
<1> HIDE DEF run
<1>11. \A i \in 0 .. last - 1 : i \in 0 .. c.next - 1 \/ i \in c.next .. last - 1
  BY <1>1, <1>3
<1>12. Runs(d)
  <2>1. \A i \in 0 .. c.next - 1 : Kept(c.run[i])
    BY DEF Runs
  <2>2. ASSUME NEW i \in 0 .. last - 1 PROVE Kept(run[i])
    <3>1. CASE i \in 0 .. c.next - 1
      <4>1. run[i] = c.run[i]
        BY <1>10, <3>1
      <4>2. QED  BY <2>1, <3>1, <4>1
    <3>2. CASE i \in c.next .. last - 1
      <4>1. run[i] = Begin(c, i)
        BY <1>10, <3>2
      <4>2. QED  BY <4>1, BeginKept
    <3>3. QED  BY <1>11, <3>1, <3>2
  <2>3. QED  BY <1>8, <1>10, <2>2 DEF Runs
<1>13. \A i \in c.next .. d.next - 1 : d.run[i].st # "ok"
  BY <1>8, <1>10, BeginKept
<1>14. QED  BY <1>3, <1>7, <1>8, <1>9, <1>10, <1>12, <1>13

(* The window moves on by one run, or the get is through. *)
LEMMA ShiftGood ==
    ASSUME NEW c, Shape(c, c.run), Ranged(c), InOrder(c), Runs(c), Given(c),
           \A i \in c.next - Len(c.inflight) .. c.next - 1 : Complete(c.run[i], RunPieces(c, i)),
           Len(c.inflight) = 0 => Len(c.out) = c.to - c.from + 1,
           Len(c.inflight) # 0 => Len(c.out) = Before(c, FirstPiece(c) + (c.next - Len(c.inflight)) * Per)
    PROVE  Good(Shift(c))
<1>1. /\ c.next \in Nat /\ c.inflight \in Seq(Nat) /\ Len(c.inflight) \in Nat
  BY Fields
<1>2. CASE c.inflight = <<>>
  <2> DEFINE d == [c EXCEPT !.pc = "done"]
  <2>1. Shift(c) = d
    BY <1>2 DEF Shift
  <2>2. /\ d.pc = "done" /\ d.from = c.from /\ d.to = c.to /\ d.next = c.next /\ d.inflight = c.inflight
        /\ d.run = c.run /\ d.out = c.out /\ Shape(d, d.run)
    BY DEF Shape, Pcs
  <2> HIDE DEF d
  <2>3. InOrder(d) /\ Runs(d) /\ Given(d) /\ d.from <= d.to /\ d.to < Size
    BY <2>2, SameRange DEF InOrder, Runs, Given, Ranged
  <2>4. Len(c.inflight) = 0
    BY <1>2
  <2>5. Place(d)
    BY <2>2, <2>4 DEF Place
  <2>6. QED  BY <2>1, <2>2, <2>3, <2>5 DEF Good
<1>3. CASE c.inflight # <<>>
  <2> DEFINE head == Head(c.inflight)
             tail == Tail(c.inflight)
             d == [c EXCEPT !.pc = "await", !.cur = head, !.inflight = tail]
  <2>1. Shift(c) = d
    BY <1>3 DEF Shift, Shape
  <2>2. /\ Len(c.inflight) # 0 /\ head \in Nat /\ tail \in Seq(Nat) /\ Len(tail) = Len(c.inflight) - 1
        /\ head = c.next - Len(c.inflight) /\ head = c.next - Len(tail) - 1 /\ InLine(tail, c.next)
    BY <1>1, <1>3, InLineFirst DEF InOrder
  <2> HIDE DEF head, tail
  <2>3. /\ d.pc = "await" /\ d.from = c.from /\ d.to = c.to /\ d.next = c.next /\ d.inflight = tail
        /\ d.cur = head /\ d.run = c.run /\ d.out = c.out /\ Shape(d, d.run)
    BY <2>2 DEF Shape, Pcs
  <2> HIDE DEF d
  <2>6. InOrder(d)
    <3>1. RunCount(d) = RunCount(c)
      BY <2>3, SameRange
    <3>2. c.next <= RunCount(c) /\ Len(c.inflight) <= AHEAD
      BY DEF InOrder
    <3>3. Len(tail) <= AHEAD
      BY <1>1, <2>2, <3>2, Sizes
    <3>4. QED  BY <2>2, <2>3, <3>1, <3>2, <3>3 DEF InOrder
  <2>7. Runs(d) /\ Given(d) /\ d.from <= d.to /\ d.to < Size
    BY <2>3 DEF Runs, Given, Ranged
  <2>8. Place(d)
    <3>1. /\ \A i : RunPieces(d, i) = RunPieces(c, i)
          /\ \A p : Before(d, p) = Before(c, p)
          /\ FirstPiece(d) = FirstPiece(c)
      BY <2>3, SameRange
    <3>2. \A i \in d.cur .. d.next - 1 : Complete(d.run[i], RunPieces(d, i))
      BY <2>2, <2>3, <3>1
    <3>3. Len(d.out) = Before(d, FirstPiece(d) + d.cur * Per)
      BY <2>2, <2>3, <3>1
    <3>4. QED  BY <2>2, <2>3, <3>2, <3>3 DEF Place
  <2>9. QED  BY <2>1, <2>3, <2>6, <2>7, <2>8 DEF Good
<1>4. QED  BY <1>2, <1>3


-----------------------------------------------------------------------------
(* The steps of the generator. *)

LEMMA CallMoves ==
    ASSUME Inv, NEW g \in Gets, NEW new, call' = [call EXCEPT ![g] = new], Good(new)
    PROVE  Inv'
<1>1. call = [h \in Gets |-> call[h]] /\ \A h \in Gets : Good(call[h])
  BY DEF Inv
<1>2. \A h \in Gets : call'[h] = IF h = g THEN new ELSE call[h]
  BY <1>1
<1>3. call' = [h \in Gets |-> call'[h]]
  BY <1>1
<1>4. QED  BY <1>1, <1>2, <1>3 DEF Inv

LEMMA AtGet ==
    ASSUME Inv, NEW g \in Gets, NEW c, c = call[g]
    PROVE  /\ Shape(c, c.run) /\ Ranged(c) /\ InOrder(c) /\ Runs(c) /\ Place(c) /\ Given(c)
           /\ c.from <= c.to /\ c.to < Size
           /\ c.next \in Nat /\ c.cur \in Nat /\ c.piece \in Nat /\ c.from \in Nat /\ c.to \in Nat
           /\ c.inflight \in Seq(Nat) /\ c.out \in Seq(Int) /\ Len(c.inflight) \in Nat /\ Len(c.out) \in Nat
<1>1. Good(c)
  BY DEF Inv
<1>2. Shape(c, c.run)
  BY <1>1 DEF Good
<1>3. /\ c.next \in Nat /\ c.cur \in Nat /\ c.piece \in Nat /\ c.from \in Nat /\ c.to \in Nat
      /\ c.inflight \in Seq(Nat) /\ c.out \in Seq(Int) /\ Len(c.inflight) \in Nat /\ Len(c.out) \in Nat
  BY <1>2, Fields
<1>4. QED  BY <1>1, <1>3 DEF Good, Ranged

LEMMA BeforeFacts ==
    ASSUME NEW c, Ranged(c)
    PROVE  /\ Before(c, FirstPiece(c)) = 0
           /\ Before(c, LastPiece(c) + 1) = c.to - c.from + 1
           /\ \A p \in Nat : Before(c, p) <= c.to - c.from + 1
<1>1. /\ FirstPiece(c) \in Nat /\ LastPiece(c) \in Nat
      /\ FirstPiece(c) * PIECE <= c.from /\ c.to < LastPiece(c) * PIECE + PIECE
  BY PieceFacts
<1>2. c.from \in Nat /\ c.to \in Nat /\ c.from <= c.to /\ PIECE \in Nat \ {0}
  BY Sizes DEF Ranged
<1>3. Before(c, FirstPiece(c)) = 0
  BY <1>1 DEF Before
<1>4. Before(c, LastPiece(c) + 1) = c.to - c.from + 1
  <2> DEFINE u == (LastPiece(c) + 1) * PIECE
  <2>1. u = LastPiece(c) * PIECE + PIECE /\ LastPiece(c) * PIECE \in Nat
    BY <1>1, <1>2, Multiples
  <2>2. Before(c, LastPiece(c) + 1) = IF u <= c.from THEN 0 ELSE IF u <= c.to THEN u - c.from ELSE c.to - c.from + 1
    BY DEF Before
  <2> HIDE DEF u
  <2>3. u \in Nat /\ u > c.to
    BY <1>1, <1>2, <2>1
  <2>4. QED  BY <1>2, <2>2, <2>3
<1>5. ASSUME NEW p \in Nat PROVE Before(c, p) <= c.to - c.from + 1
  <2> DEFINE u == p * PIECE
  <2>1. u \in Nat
    BY <1>2, Multiples
  <2>2. Before(c, p) = IF u <= c.from THEN 0 ELSE IF u <= c.to THEN u - c.from ELSE c.to - c.from + 1
    BY DEF Before
  <2> HIDE DEF u
  <2>3. QED  BY <1>2, <2>1, <2>2
<1>6. QED  BY <1>3, <1>4, <1>5

LEMMA StartKeeps ==
    ASSUME Inv, NEW g \in Gets, Start(g)
    PROVE  Inv'
<1> DEFINE c == call[g]
           d == Pump(c)
<1>1. /\ Shape(c, c.run) /\ Ranged(c) /\ InOrder(c) /\ Runs(c) /\ Place(c) /\ Given(c)
  BY AtGet
<1>2. c.pc = "idle" /\ call' = [call EXCEPT ![g] = Shift(d)]
  BY DEF Start
<1> HIDE DEF c
<1>3. c.next = 0 /\ Len(c.inflight) = 0 /\ Len(c.out) = 0
  BY <1>1, <1>2 DEF Place
<1>4. /\ Shape(d, d.run) /\ InOrder(d) /\ Runs(d)
      /\ d.pc = c.pc /\ d.from = c.from /\ d.to = c.to /\ d.cur = c.cur /\ d.piece = c.piece /\ d.out = c.out
      /\ d.next >= c.next /\ d.next - Len(d.inflight) = c.next - Len(c.inflight)
      /\ \A i \in 0 .. c.next - 1 : d.run[i] = c.run[i]
      /\ \A i \in c.next .. d.next - 1 : d.run[i].st # "ok"
      /\ Len(d.inflight) = 0 => d.next = RunCount(c)
  BY <1>1, PumpFacts
<1> HIDE DEF d
<1>5. d.next \in Nat /\ Len(d.inflight) \in Nat
  BY <1>4, Fields
<1>6. d.next - Len(d.inflight) = 0 /\ d.next = Len(d.inflight)
  BY <1>3, <1>4, <1>5
<1>7. Len(d.inflight) # 0
  <2>1. RunCount(c) # 0
    BY <1>1, RunFacts
  <2>2. QED  BY <1>4, <1>6, <2>1
<1>8. Ranged(d) /\ Given(d)
  BY <1>1, <1>4 DEF Ranged, Given
<1>9. \A i \in d.next - Len(d.inflight) .. d.next - 1 : Complete(d.run[i], RunPieces(d, i))
  BY <1>3, <1>4, <1>6 DEF Complete
<1>10. Len(d.out) = Before(d, FirstPiece(d) + (d.next - Len(d.inflight)) * Per)
  <2>1. FirstPiece(d) + 0 * Per = FirstPiece(d)
    BY <1>8, PieceFacts, Sizes
  <2>2. QED  BY <1>3, <1>4, <1>6, <1>8, <2>1, BeforeFacts
<1>11. Good(Shift(d))
  BY <1>4, <1>7, <1>8, <1>9, <1>10, ShiftGood
<1>12. QED  BY <1>2, <1>11, CallMoves

(* A get that stops keeps what it has given. *)
LEMMA StopKeeps ==
    ASSUME Inv, NEW g \in Gets, NEW pc \in {"failed", "left"},
           call' = [call EXCEPT ![g] = [call[g] EXCEPT !.pc = pc]]
    PROVE  Inv'
<1> DEFINE c == call[g]
           d == [c EXCEPT !.pc = pc]
<1>1. /\ Shape(c, c.run) /\ Ranged(c) /\ InOrder(c) /\ Runs(c) /\ Place(c) /\ Given(c)
      /\ c.from <= c.to /\ c.to < Size
  BY AtGet
<1> HIDE DEF c
<1>2. /\ d.pc = pc /\ d.from = c.from /\ d.to = c.to /\ d.next = c.next /\ d.inflight = c.inflight
      /\ d.run = c.run /\ d.out = c.out /\ Shape(d, d.run)
  BY <1>1 DEF Shape, Pcs
<1> HIDE DEF d
<1>3. InOrder(d) /\ Runs(d) /\ Given(d) /\ d.from <= d.to /\ d.to < Size
  BY <1>1, <1>2, SameRange DEF InOrder, Runs, Given
<1>4. Place(d)
  BY <1>2 DEF Place
<1>5. Good(d)
  BY <1>2, <1>3, <1>4 DEF Good
<1>6. QED  BY <1>5, CallMoves DEF c, d

LEMMA AwaitKeeps ==
    ASSUME Inv, NEW g \in Gets, Await(g)
    PROVE  Inv'
<1> DEFINE c == call[g]
           d == Pump(c)
           p == Least(RunPieces(c, c.cur))
           e == [d EXCEPT !.pc = "yield", !.piece = p]
<1>1. /\ Shape(c, c.run) /\ Ranged(c) /\ InOrder(c) /\ Runs(c) /\ Place(c) /\ Given(c)
      /\ c.from <= c.to /\ c.to < Size /\ c.next \in Nat /\ c.cur \in Nat /\ Len(c.inflight) \in Nat
  BY AtGet
<1>2. CASE c.run[c.cur].st = "failed"
  <2>1. call' = [call EXCEPT ![g] = [c EXCEPT !.pc = "failed"]]
    BY <1>2 DEF Await
  <2>2. QED  BY <2>1, StopKeeps
<1>3. CASE c.run[c.cur].st # "failed"
  <2>1. c.pc = "await" /\ c.run[c.cur].st = "ok" /\ call' = [call EXCEPT ![g] = e]
    BY <1>3 DEF Await
  <2> HIDE DEF c
  <2>2. /\ c.cur = c.next - Len(c.inflight) - 1
        /\ \A i \in c.cur .. c.next - 1 : Complete(c.run[i], RunPieces(c, i))
        /\ Len(c.out) = Before(c, FirstPiece(c) + c.cur * Per)
    BY <1>1, <2>1 DEF Place
  <2>3. /\ Shape(d, d.run) /\ InOrder(d) /\ Runs(d)
        /\ d.pc = c.pc /\ d.from = c.from /\ d.to = c.to /\ d.cur = c.cur /\ d.piece = c.piece /\ d.out = c.out
        /\ d.next >= c.next /\ d.next - Len(d.inflight) = c.next - Len(c.inflight)
        /\ \A i \in 0 .. c.next - 1 : d.run[i] = c.run[i]
        /\ \A i \in c.next .. d.next - 1 : d.run[i].st # "ok"
        /\ Len(d.inflight) = 0 => d.next = RunCount(c)
    BY <1>1, PumpFacts
  <2>4. c.cur < RunCount(c) /\ c.cur < c.next
    <3>1. c.next <= RunCount(c) /\ RunCount(c) \in Nat
      BY <1>1, RunFacts DEF InOrder
    <3>2. QED  BY <1>1, <2>2, <3>1
  <2>5. p \in RunPieces(c, c.cur) /\ p = FirstPiece(c) + c.cur * Per /\ p \in Nat
    BY <1>1, <2>4, RunPiecesFacts
  <2> HIDE DEF d, p
  <2>6. /\ e.pc = "yield" /\ e.from = c.from /\ e.to = c.to /\ e.next = d.next /\ e.inflight = d.inflight
        /\ e.cur = c.cur /\ e.piece = p /\ e.run = d.run /\ e.out = c.out /\ Shape(e, e.run)
    BY <2>3, <2>5 DEF Shape, Pcs
  <2> HIDE DEF e
  <2>7. /\ RunCount(e) = RunCount(c) /\ RunCount(d) = RunCount(c)
        /\ \A i : RunPieces(e, i) = RunPieces(c, i)
        /\ \A q : Before(e, q) = Before(c, q)
    BY <2>3, <2>6, SameRange
  <2>8. InOrder(e) /\ Runs(e) /\ Given(e) /\ e.from <= e.to /\ e.to < Size
    BY <1>1, <2>3, <2>6, <2>7 DEF InOrder, Runs, Given
  <2>9. d.next \in Nat /\ Len(d.inflight) \in Nat
    BY <2>3, Fields
  <2>10. e.cur = e.next - Len(e.inflight) - 1
    BY <1>1, <2>2, <2>3, <2>6, <2>9
  <2>11. \A i \in e.cur .. e.next - 1 : Complete(e.run[i], RunPieces(e, i))
    <3> SUFFICES ASSUME NEW i \in c.cur .. d.next - 1 PROVE Complete(d.run[i], RunPieces(c, i))
      BY <2>6, <2>7
    <3>1. CASE i < c.next
      <4>1. i \in c.cur .. c.next - 1 /\ i \in 0 .. c.next - 1
        BY <1>1, <2>9, <3>1
      <4>2. QED  BY <2>2, <2>3, <4>1
    <3>2. CASE ~(i < c.next)
      <4>1. i \in c.next .. d.next - 1
        BY <1>1, <2>9, <3>2
      <4>2. QED  BY <2>3, <4>1 DEF Complete
    <3>3. QED  BY <3>1, <3>2
  <2>12. e.run[e.cur].st = "ok"
    <3>1. c.cur \in 0 .. c.next - 1
      BY <1>1, <2>4
    <3>2. QED  BY <2>1, <2>3, <2>6, <3>1
  <2>13. Place(e)
    BY <2>2, <2>3, <2>5, <2>6, <2>7, <2>10, <2>11, <2>12 DEF Place
  <2>14. Good(e)
    BY <2>6, <2>8, <2>13 DEF Good
  <2>15. QED  BY <2>1, <2>14, CallMoves
<1>4. QED  BY <1>2, <1>3


(* The bytes given so far and the ones cut out of the next piece. *)
LEMMA GivenMore ==
    ASSUME NEW from \in Nat, NEW out \in Seq(Int), NEW cut \in Seq(Int), NEW all,
           From(out, from), From(cut, from + Len(out)), all = out \o cut
    PROVE  all \in Seq(Int) /\ Len(all) = Len(out) + Len(cut) /\ From(all, from)
<1>1. /\ all \in Seq(Int) /\ Len(all) = Len(out) + Len(cut)
      /\ \A k \in 1 .. Len(out) + Len(cut) : all[k] = IF k <= Len(out) THEN out[k] ELSE cut[k - Len(out)]
  BY ConcatProperties
<1>2. Len(out) \in Nat /\ Len(cut) \in Nat
  OBVIOUS
<1>3. ASSUME NEW k \in 1 .. Len(all) PROVE all[k] = from + k - 1
  <2>1. k \in 1 .. Len(out) + Len(cut)
    BY <1>1
  <2>2. CASE k <= Len(out)
    <3>1. all[k] = out[k] /\ k \in 1 .. Len(out)
      BY <1>1, <1>2, <2>1, <2>2
    <3>2. QED  BY <3>1 DEF From
  <2>3. CASE ~(k <= Len(out))
    <3>1. all[k] = cut[k - Len(out)] /\ k - Len(out) \in 1 .. Len(cut)
      BY <1>1, <1>2, <2>1, <2>3
    <3>2. all[k] = from + Len(out) + (k - Len(out)) - 1
      BY <3>1 DEF From
    <3>3. QED  BY <1>2, <2>1, <3>2
  <2>4. QED  BY <2>2, <2>3
<1>4. QED  BY <1>1, <1>3 DEF From

LEMMA PullKeeps ==
    ASSUME Inv, NEW g \in Gets, Pull(g)
    PROVE  Inv'
<1> DEFINE c == call[g]
           cut == CutTo(c, c.piece, c.run[c.cur].got[c.piece])
           all == c.out \o cut
           more == [c EXCEPT !.out = all]
           forth == [more EXCEPT !.piece = @ + 1]
           through == [more EXCEPT !.run[c.cur].got = NoPieces]
<1>1. /\ Shape(c, c.run) /\ Ranged(c) /\ InOrder(c) /\ Runs(c) /\ Place(c) /\ Given(c)
      /\ c.from <= c.to /\ c.to < Size
      /\ c.next \in Nat /\ c.cur \in Nat /\ c.piece \in Nat /\ c.from \in Nat /\ c.to \in Nat
      /\ c.inflight \in Seq(Nat) /\ c.out \in Seq(Int) /\ Len(c.inflight) \in Nat /\ Len(c.out) \in Nat
  BY AtGet
<1>2. /\ c.pc = "yield"
      /\ call' = [call EXCEPT ![g] = IF c.piece + 1 \in RunPieces(c, c.cur) THEN forth ELSE Shift(through)]
  BY DEF Pull
<1> HIDE DEF c
<1>3. /\ c.cur = c.next - Len(c.inflight) - 1
      /\ \A i \in c.cur .. c.next - 1 : Complete(c.run[i], RunPieces(c, i))
      /\ c.piece \in RunPieces(c, c.cur) /\ c.run[c.cur].st = "ok"
      /\ Len(c.out) = Before(c, c.piece)
      /\ Len(c.inflight) = 0 => c.next = RunCount(c)
  BY <1>1, <1>2 DEF Place
<1>4. RunCount(c) \in Nat /\ c.next <= RunCount(c) /\ c.cur < c.next /\ c.cur < RunCount(c)
  <2>1. c.next <= RunCount(c) /\ RunCount(c) \in Nat
    BY <1>1, RunFacts DEF InOrder
  <2>2. QED  BY <1>1, <1>3, <2>1
<1>5. /\ c.piece >= FirstPiece(c) /\ c.piece <= LastPiece(c)
      /\ c.piece + 1 \notin RunPieces(c, c.cur) =>
           /\ c.cur + 1 < RunCount(c) => c.piece + 1 = FirstPiece(c) + (c.cur + 1) * Per
           /\ c.cur + 1 = RunCount(c) => c.piece = LastPiece(c)
  BY <1>1, <1>3, <1>4, RunPiecesFacts
<1>6. Kept(c.run[c.cur]) /\ c.run[c.cur].got[c.piece] = PieceBytes(c.piece)
  <2>1. c.cur \in 0 .. c.next - 1 /\ c.cur \in c.cur .. c.next - 1
    BY <1>1, <1>4
  <2>2. Kept(c.run[c.cur]) /\ Complete(c.run[c.cur], RunPieces(c, c.cur))
    BY <1>1, <1>3, <2>1 DEF Runs
  <2>3. c.piece \in DOMAIN c.run[c.cur].got
    BY <1>3, <2>2 DEF Complete
  <2>4. QED  BY <2>2, <2>3 DEF Kept
<1>7. /\ cut \in Seq(Int) /\ Before(c, c.piece) + Len(cut) = Before(c, c.piece + 1)
      /\ \A k \in 1 .. Len(cut) : cut[k] = c.from + Before(c, c.piece) + k - 1
  <2>1. cut = CutTo(c, c.piece, PieceBytes(c.piece))
    BY <1>6
  <2> HIDE DEF cut
  <2>2. Ranged(c) /\ c.piece \in Nat /\ c.piece >= FirstPiece(c) /\ c.piece <= LastPiece(c)
    BY <1>1, <1>5
  <2>3. QED  BY <2>1, <2>2, CutFacts
<1> HIDE DEF cut
<1>8. all \in Seq(Int) /\ Len(all) = Before(c, c.piece + 1) /\ From(all, c.from)
  <2>1. From(cut, c.from + Len(c.out)) /\ From(c.out, c.from)
    BY <1>1, <1>3, <1>7 DEF From, Given
  <2>2. all \in Seq(Int) /\ Len(all) = Len(c.out) + Len(cut) /\ From(all, c.from)
    BY <1>1, <1>7, <2>1, GivenMore
  <2>3. QED  BY <1>3, <1>7, <2>2
<1> HIDE DEF all
<1>9. Len(all) <= c.to - c.from + 1
  <2>1. c.piece + 1 \in Nat
    BY <1>1
  <2>2. QED  BY <1>1, <1>8, <2>1, BeforeFacts
<1>10. CASE c.piece + 1 \in RunPieces(c, c.cur)
  <2>1. c.piece + 1 \in Nat
    BY <1>1
  <2>2. forth = [c EXCEPT !.out = all, !.piece = c.piece + 1]
    BY <1>1 DEF Shape
  <2>3. /\ forth.pc = "yield" /\ forth.from = c.from /\ forth.to = c.to /\ forth.next = c.next
        /\ forth.inflight = c.inflight /\ forth.cur = c.cur /\ forth.piece = c.piece + 1
        /\ forth.run = c.run /\ forth.out = all /\ Shape(forth, forth.run)
    BY <1>1, <1>2, <1>8, <2>1, <2>2 DEF Shape
  <2> HIDE DEF forth
  <2>4. /\ RunCount(forth) = RunCount(c) /\ \A i : RunPieces(forth, i) = RunPieces(c, i)
        /\ \A q : Before(forth, q) = Before(c, q)
    BY <2>3, SameRange
  <2>5. InOrder(forth) /\ Runs(forth) /\ Given(forth) /\ forth.from <= forth.to /\ forth.to < Size
    BY <1>1, <1>8, <1>9, <2>3, <2>4 DEF InOrder, Runs, Given
  <2>6. Place(forth)
    BY <1>3, <1>8, <1>10, <2>3, <2>4 DEF Place
  <2>7. Good(forth)
    BY <2>3, <2>5, <2>6 DEF Good
  <2>8. QED  BY <1>2, <1>10, <2>7, CallMoves
<1>11. CASE c.piece + 1 \notin RunPieces(c, c.cur)
  <2> DEFINE r == [c.run[c.cur] EXCEPT !.got = NoPieces]
             run == [c.run EXCEPT ![c.cur] = r]
             d == through
  <2>1. c.cur \in 0 .. c.next - 1 /\ c.run = [i \in 0 .. c.next - 1 |-> c.run[i]]
    BY <1>1, <1>4 DEF Runs
  <2>2. Kept(r)
    <3> DEFINE none == NoPieces
               old == c.run[c.cur]
    <3>1. DOMAIN none = {}
      BY DEF NoPieces
    <3>2. RunShape(old, old.left, old.asked, old.got) /\ old.st = "ok"
      BY <1>3, <1>6 DEF Kept
    <3> HIDE DEF none, old
    <3>3. r = [old EXCEPT !.got = none]
      BY DEF none, old
    <3> HIDE DEF r
    <3>4. RunShape(r, old.left, old.asked, none) /\ r.st = "ok" /\ r.left = old.left /\ r.asked = old.asked /\ r.got = none
      BY <3>2, <3>3 DEF RunShape
    <3>5. QED  BY <3>1, <3>4 DEF Kept
  <2>3. d = [c EXCEPT !.out = all, !.run = run]
    BY <1>1, <2>1 DEF Shape
  <2>4. /\ run = [i \in 0 .. c.next - 1 |-> run[i]]
        /\ \A i \in 0 .. c.next - 1 : run[i] = IF i = c.cur THEN r ELSE c.run[i]
    <3> HIDE DEF r
    <3>1. QED  BY <2>1
  <2> HIDE DEF run, r
  <2>5. /\ d.from = c.from /\ d.to = c.to /\ d.next = c.next /\ d.inflight = c.inflight
        /\ d.run = run /\ d.out = all /\ Shape(d, d.run)
    BY <1>1, <1>8, <2>3 DEF Shape
  <2> HIDE DEF d
  <2>6. /\ RunCount(d) = RunCount(c) /\ FirstPiece(d) = FirstPiece(c)
        /\ \A i : RunPieces(d, i) = RunPieces(c, i)
        /\ \A q : Before(d, q) = Before(c, q)
    BY <2>5, SameRange
  <2>7. InOrder(d) /\ Given(d) /\ Ranged(d)
    BY <1>1, <1>8, <1>9, <2>5, <2>6 DEF InOrder, Given, Ranged
  <2>8. Runs(d)
    <3>1. \A i \in 0 .. c.next - 1 : Kept(c.run[i])
      BY <1>1 DEF Runs
    <3>2. \A i \in 0 .. c.next - 1 : Kept(run[i])
      BY <2>2, <2>4, <3>1
    <3>3. QED  BY <2>4, <2>5, <3>2 DEF Runs
  <2>9. c.next - Len(c.inflight) = c.cur + 1
    BY <1>1, <1>3
  <2>10. \A i \in d.next - Len(d.inflight) .. d.next - 1 : Complete(d.run[i], RunPieces(d, i))
    <3> SUFFICES ASSUME NEW i \in c.cur + 1 .. c.next - 1 PROVE Complete(run[i], RunPieces(c, i))
      BY <2>5, <2>6, <2>9
    <3>1. i \in 0 .. c.next - 1 /\ i # c.cur /\ i \in c.cur .. c.next - 1
      BY <1>1
    <3>2. QED  BY <1>3, <2>4, <3>1
  <2>11. ASSUME Len(d.inflight) = 0 PROVE Len(d.out) = d.to - d.from + 1
    <3>1. c.cur + 1 = RunCount(c)
      BY <1>1, <1>3, <2>5, <2>9, <2>11
    <3>2. c.piece = LastPiece(c)
      BY <1>5, <1>11, <3>1
    <3>3. QED  BY <1>1, <1>8, <2>5, <3>2, BeforeFacts
  <2>12. ASSUME Len(d.inflight) # 0
         PROVE  Len(d.out) = Before(d, FirstPiece(d) + (d.next - Len(d.inflight)) * Per)
    <3>1. c.cur + 1 < RunCount(c)
      BY <1>1, <1>4, <2>5, <2>9, <2>12
    <3>2. c.piece + 1 = FirstPiece(c) + (c.cur + 1) * Per
      BY <1>5, <1>11, <3>1
    <3>3. QED  BY <1>8, <2>5, <2>6, <2>9, <3>2
  <2>13. Good(Shift(d))
    BY <2>5, <2>7, <2>8, <2>10, <2>11, <2>12, ShiftGood
  <2>14. QED  BY <1>2, <1>11, <2>13, CallMoves DEF d
<1>12. QED  BY <1>10, <1>11


-----------------------------------------------------------------------------
(* The answers of holders. *)

(* A run that is being fetched gets pieces, or its next holder, or its end. *)
LEMMA RunMoves ==
    ASSUME Inv, NEW g \in Gets, NEW i, i \in DOMAIN call[g].run, call[g].run[i].st = "fetching",
           NEW r, Kept(r), Complete(r, RunPieces(call[g], i)), SetRun(g, i, r)
    PROVE  Inv'
<1> DEFINE c == call[g]
           run == [c.run EXCEPT ![i] = r]
           d == [c EXCEPT !.run = run]
<1>1. /\ Shape(c, c.run) /\ InOrder(c) /\ Runs(c) /\ Place(c) /\ Given(c) /\ c.from <= c.to /\ c.to < Size
      /\ call = [h \in Gets |-> call[h]]
  BY AtGet DEF Inv
<1>2. i \in 0 .. c.next - 1 /\ c.run = [j \in 0 .. c.next - 1 |-> c.run[j]]
  BY <1>1 DEF Runs
<1>3. call' = [call EXCEPT ![g] = d]
  BY <1>1 DEF SetRun, Shape
<1>4. c.run[i].st = "fetching" /\ Complete(r, RunPieces(c, i))
  OBVIOUS
<1> HIDE DEF c
<1>5. /\ run = [j \in 0 .. c.next - 1 |-> run[j]]
      /\ \A j \in 0 .. c.next - 1 : run[j] = IF j = i THEN r ELSE c.run[j]
  BY <1>2
<1> HIDE DEF run
<1>6. /\ d.pc = c.pc /\ d.from = c.from /\ d.to = c.to /\ d.next = c.next /\ d.inflight = c.inflight
      /\ d.cur = c.cur /\ d.piece = c.piece /\ d.run = run /\ d.out = c.out /\ Shape(d, d.run)
  BY <1>1 DEF Shape
<1> HIDE DEF d
<1>7. /\ RunCount(d) = RunCount(c) /\ FirstPiece(d) = FirstPiece(c)
      /\ \A j : RunPieces(d, j) = RunPieces(c, j)
      /\ \A q : Before(d, q) = Before(c, q)
  BY <1>6, SameRange
<1>8. InOrder(d) /\ Given(d) /\ d.from <= d.to /\ d.to < Size
  BY <1>1, <1>6, <1>7 DEF InOrder, Given
<1>9. Runs(d)
  <2>1. \A j \in 0 .. c.next - 1 : Kept(run[j])
    BY <1>1, <1>5 DEF Runs
  <2>2. QED  BY <1>5, <1>6, <2>1 DEF Runs
<1>10. Place(d)
  <2>1. ASSUME c.pc \in {"await", "yield"}
        PROVE  \A j \in c.cur .. c.next - 1 : Complete(run[j], RunPieces(c, j))
    <3>1. \A j \in c.cur .. c.next - 1 : Complete(c.run[j], RunPieces(c, j)) /\ j \in 0 .. c.next - 1
      <4>1. c.cur \in Nat /\ c.next \in Nat
        BY <1>1, Fields
      <4>2. QED  BY <1>1, <2>1, <4>1 DEF Place
    <3>2. QED  BY <1>4, <1>5, <3>1
  <2>2. ASSUME c.pc = "yield" PROVE run[c.cur].st = "ok"
    <3>1. c.run[c.cur].st = "ok" /\ c.cur = c.next - Len(c.inflight) - 1
      BY <1>1, <2>2 DEF Place
    <3>2. c.cur \in Nat /\ c.next \in Nat /\ Len(c.inflight) \in Nat
      BY <1>1, Fields
    <3>3. c.cur \in 0 .. c.next - 1
      BY <3>1, <3>2
    <3>4. QED  BY <1>4, <1>5, <3>1, <3>3
  <2>3. QED  BY <1>1, <1>6, <1>7, <2>1, <2>2 DEF Place
<1>11. Good(d)
  BY <1>6, <1>8, <1>9, <1>10 DEF Good
<1>12. QED  BY <1>3, <1>11, CallMoves

(* A holder is through: the run has all its pieces, or the next holder is     *)
(* asked for the ones that are missing, or there is none.                     *)
LEMMA AdvanceKept ==
    ASSUME NEW c, NEW i, NEW got, \A p \in DOMAIN got : got[p] = PieceBytes(p)
    PROVE  Kept(Advance(c, i, got)) /\ Complete(Advance(c, i, got), RunPieces(c, i))
<1> DEFINE missing == RunPieces(c, i) \ DOMAIN got
           rest == Tail(c.run[i].left)
           empty == <<>>
           none == NoPieces
           asked == Asked(missing, rest)
           a == Advance(c, i, got)
<1>1. DOMAIN none = {}
  BY DEF NoPieces
<1>2. asked \cap DOMAIN got = {}
  BY DEF Asked
<1>3. a = IF missing = {} THEN [st |-> "ok", left |-> empty, asked |-> {}, got |-> got]
          ELSE IF rest = empty THEN [st |-> "failed", left |-> empty, asked |-> {}, got |-> none]
          ELSE [st |-> "fetching", left |-> rest, asked |-> asked, got |-> got]
  BY DEF Advance
<1>4. missing = {} => RunPieces(c, i) \subseteq DOMAIN got
  OBVIOUS
<1> HIDE DEF missing, rest, empty, none, asked, a
<1>5. CASE missing = {}
  <2>1. a = [st |-> "ok", left |-> empty, asked |-> {}, got |-> got]
    BY <1>3, <1>5
  <2>2. QED  BY <1>4, <1>5, <2>1 DEF Kept, RunShape, Complete, a
<1>6. CASE missing # {} /\ rest = empty
  <2>1. a = [st |-> "failed", left |-> empty, asked |-> {}, got |-> none]
    BY <1>3, <1>6
  <2>2. QED  BY <1>1, <2>1 DEF Kept, RunShape, Complete, a
<1>7. CASE missing # {} /\ rest # empty
  <2>1. a = [st |-> "fetching", left |-> rest, asked |-> asked, got |-> got]
    BY <1>3, <1>7
  <2>2. QED  BY <1>2, <2>1 DEF Kept, RunShape, Complete, a
<1>8. QED  BY <1>5, <1>6, <1>7

LEMMA AtRun ==
    ASSUME Inv, NEW g \in Gets, NEW i, Asking(g, i)
    PROVE  i \in DOMAIN call[g].run /\ call[g].run[i].st = "fetching" /\ Kept(call[g].run[i])
<1>1. Runs(call[g])
  BY AtGet
<1>2. QED  BY <1>1 DEF Asking, Runs

LEMMA RangeAnswerKeeps ==
    ASSUME Inv, NEW g \in Gets, NEW i, NEW spoiled, NEW short, RangeAnswer(g, i, spoiled, short)
    PROVE  Inv'
<1> DEFINE c == call[g]
           r == c.run[i]
<1>1. Asking(g, i)
  BY DEF RangeAnswer
<1>2. PICK right, part :
         /\ \A p \in right : part[p] = PieceBytes(p)
         /\ SetRun(g, i, Advance(c, i, [p \in DOMAIN r.got \cup right |-> IF p \in right THEN part[p] ELSE r.got[p]]))
  <2> DEFINE want == Missing(c, i)
             lo == Least(want)
             hi == Greatest(want)
             off == lo * PIECE
             whole == Sent(off, hi * PIECE + LenOf(hi) - off, spoiled)
             buf == IF short THEN Short(whole) ELSE whole
             part == [p \in want |-> PartOf(buf, off, p)]
             right == {p \in want : Ok(p, PartOf(buf, off, p))}
  <2>1. SetRun(g, i, Advance(c, i, [p \in DOMAIN r.got \cup right |->
                                      IF p \in right THEN PartOf(buf, off, p) ELSE r.got[p]]))
    BY DEF RangeAnswer
  <2> HIDE DEF want, off, buf, r, c
  <2>2. \A p \in right : part[p] = PartOf(buf, off, p) /\ part[p] = PieceBytes(p)
    BY DEF Ok
  <2>3. [p \in DOMAIN r.got \cup right |-> IF p \in right THEN PartOf(buf, off, p) ELSE r.got[p]]
          = [p \in DOMAIN r.got \cup right |-> IF p \in right THEN part[p] ELSE r.got[p]]
    BY <2>2
  <2> HIDE DEF right, part
  <2>4. QED  BY <2>1, <2>2, <2>3
<1> DEFINE got == [p \in DOMAIN r.got \cup right |-> IF p \in right THEN part[p] ELSE r.got[p]]
<1>3. i \in DOMAIN c.run /\ r.st = "fetching" /\ Kept(r)
  BY <1>1, AtRun
<1>4. \A p \in DOMAIN got : got[p] = PieceBytes(p)
  BY <1>2, <1>3 DEF Kept
<1> HIDE DEF got
<1>5. Kept(Advance(c, i, got)) /\ Complete(Advance(c, i, got), RunPieces(c, i))
  BY <1>4, AdvanceKept
<1>6. SetRun(g, i, Advance(c, i, got))
  BY <1>2 DEF got
<1>7. QED  BY <1>3, <1>5, <1>6, RunMoves

LEMMA RangeFailsKeeps ==
    ASSUME Inv, NEW g \in Gets, NEW i, NEW slow, RangeFails(g, i, slow)
    PROVE  Inv'
<1>1. /\ i \in DOMAIN call[g].run /\ call[g].run[i].st = "fetching" /\ Kept(call[g].run[i])
      /\ SetRun(g, i, Advance(call[g], i, call[g].run[i].got))
  BY AtRun DEF RangeFails
<1>2. \A p \in DOMAIN call[g].run[i].got : call[g].run[i].got[p] = PieceBytes(p)
  BY <1>1 DEF Kept
<1>3. QED  BY <1>1, <1>2, AdvanceKept, RunMoves

LEMMA PieceAnswerKeeps ==
    ASSUME Inv, NEW g \in Gets, NEW i, NEW p, NEW answer, PieceAnswer(g, i, p, answer)
    PROVE  Inv'
<1> DEFINE c == call[g]
           r == c.run[i]
           buf == IF answer = "right" THEN PieceBytes(p) ELSE Sent(p * PIECE, LenOf(p), {p})
           good == answer \in {"right", "wrong"} /\ Ok(p, buf)
           got == [q \in DOMAIN r.got \cup (IF good THEN {p} ELSE {}) |-> IF q = p THEN buf ELSE r.got[q]]
           fewer == [r EXCEPT !.asked = @ \ {p}, !.got = got]
<1>1. /\ Asking(g, i) /\ p \in r.asked
      /\ SetRun(g, i, IF r.asked = {p} THEN Advance(c, i, got) ELSE fewer)
  BY DEF PieceAnswer
<1>2. i \in DOMAIN c.run /\ r.st = "fetching" /\ Kept(r)
  BY <1>1, AtRun
<1>3. good => buf = PieceBytes(p)
  BY DEF Ok
<1> HIDE DEF c, r, buf, good
<1>4. p \notin DOMAIN r.got
  BY <1>1, <1>2 DEF Kept
<1>5. /\ \A q \in DOMAIN got : got[q] = PieceBytes(q)
      /\ (r.asked \ {p}) \cap DOMAIN got = {}
  BY <1>2, <1>3, <1>4 DEF Kept
<1> HIDE DEF got
<1>6. Kept(Advance(c, i, got)) /\ Complete(Advance(c, i, got), RunPieces(c, i))
  BY <1>5, AdvanceKept
<1>7. Kept(fewer) /\ Complete(fewer, RunPieces(c, i))
  <2> DEFINE left == r.asked \ {p}
  <2>1. RunShape(r, r.left, r.asked, r.got)
    BY <1>2 DEF Kept
  <2> HIDE DEF left
  <2>2. fewer = [r EXCEPT !.asked = left, !.got = got]
    BY <2>1 DEF RunShape, left
  <2> HIDE DEF fewer
  <2>3. /\ RunShape(fewer, r.left, left, got) /\ fewer.st = "fetching"
        /\ fewer.left = r.left /\ fewer.asked = left /\ fewer.got = got
    BY <1>2, <2>1, <2>2 DEF RunShape
  <2>4. QED  BY <1>5, <2>3 DEF Kept, Complete, left
<1> HIDE DEF fewer
<1>8. PICK new : SetRun(g, i, new) /\ Kept(new) /\ Complete(new, RunPieces(c, i))
  BY <1>1, <1>6, <1>7
<1>9. QED  BY <1>2, <1>8, RunMoves DEF c, r

-----------------------------------------------------------------------------
LEMMA InitInv == Init => Inv
<1> SUFFICES ASSUME Init PROVE Inv
  OBVIOUS
<1> DEFINE empty == <<>>
           none == NoPieces
           At(s) == [pc |-> "idle", from |-> s[1], to |-> s[2], next |-> 0,
                     inflight |-> empty, cur |-> 0, piece |-> 0, run |-> none, out |-> empty]
<1>1. call \in [Gets -> {At(s) : s \in Spans}]
  BY DEF Init
<1>2. empty \in Seq(Nat) /\ empty \in Seq(Int) /\ Len(empty) = 0
  OBVIOUS
<1>3. none = [i \in 0 .. 0 - 1 |-> none[i]]
  BY DEF NoPieces
<1> HIDE DEF empty, none
<1>4. ASSUME NEW s \in Spans PROVE Good(At(s))
  <2>1. s[1] \in 0 .. Size - 1 /\ s[2] \in s[1] .. Size - 1 /\ Size \in Nat
    BY GetAssumption
  <2>2. s[1] \in Nat /\ s[2] \in Nat /\ s[1] <= s[2] /\ s[2] < Size
    BY <2>1
  <2> DEFINE c == At(s)
  <2>3. /\ c.pc = "idle" /\ c.from = s[1] /\ c.to = s[2] /\ c.next = 0 /\ c.inflight = empty
        /\ c.run = none /\ c.out = empty /\ Shape(c, c.run)
    BY <1>2, <2>2 DEF Shape, Pcs
  <2> HIDE DEF c
  <2>4. Ranged(c)
    BY <2>2, <2>3 DEF Ranged
  <2>5. RunCount(c) \in Nat /\ AHEAD \in Nat
    BY <2>4, RunFacts, Sizes
  <2>6. InOrder(c)
    BY <1>2, <2>3, <2>5 DEF InOrder, InLine
  <2>7. Runs(c)
    BY <1>3, <2>3 DEF Runs
  <2>8. Place(c)
    BY <1>2, <2>3 DEF Place
  <2>9. Given(c)
    BY <1>2, <2>2, <2>3 DEF Given, From
  <2>10. QED  BY <2>2, <2>3, <2>6, <2>7, <2>8, <2>9 DEF Good, c
<1>5. QED  BY <1>1, <1>4 DEF Inv

LEMMA NextInv == Inv /\ [Next]_vars => Inv'
<1> SUFFICES ASSUME Inv, [Next]_vars PROVE Inv'
  OBVIOUS
<1>1. CASE UNCHANGED vars
  BY <1>1 DEF Inv, vars
<1>2. ASSUME NEW g \in Gets, Leave(g) PROVE Inv'
  <2>1. call' = [call EXCEPT ![g] = [call[g] EXCEPT !.pc = "left"]]
    BY <1>2 DEF Leave, Inv
  <2>2. QED  BY <2>1, StopKeeps
<1>3. ASSUME NEW g \in Gets, NEW i \in DOMAIN call[g].run, Answer(g, i) PROVE Inv'
  BY <1>3, RangeAnswerKeeps, RangeFailsKeeps, PieceAnswerKeeps DEF Answer
<1>4. QED  BY <1>1, <1>2, <1>3, StartKeeps, AwaitKeeps, PullKeeps DEF Next, Work

(* What a consumer is given is its range from the start, byte for byte and in  *)
(* order, and all of it when the get ends without an error, whatever holders   *)
(* send and however the runs in flight overtake each other (get of             *)
(* kappa-get.mjs).                                                             *)
THEOREM GetReleasesRight == Spec => []ReleasedRight
<1>1. Inv => ReleasedRight
  <2> SUFFICES ASSUME Inv, NEW g \in Gets
               PROVE  LET c == call[g]
                          asked == Bytes(c.from, c.to)
                      IN  /\ Len(c.out) <= Len(asked) /\ c.out = SubSeq(asked, 1, Len(c.out))
                          /\ c.pc = "done" => c.out = asked
    BY DEF ReleasedRight
  <2> DEFINE c == call[g]
             asked == Bytes(c.from, c.to)
             n == c.to - c.from + 1
             start == SubSeq(asked, 1, Len(c.out))
  <2>1. /\ Place(c) /\ Given(c) /\ c.from <= c.to /\ c.from \in Nat /\ c.to \in Nat
        /\ c.out \in Seq(Int) /\ Len(c.out) \in Nat
    BY AtGet
  <2> HIDE DEF c
  <2>2. Len(c.out) <= n /\ \A k \in 1 .. Len(c.out) : c.out[k] = c.from + k - 1
    BY <2>1 DEF Given, From
  <2>3. asked \in Seq(Int) /\ Len(asked) = n /\ \A k \in 1 .. n : asked[k] = c.from + k - 1
    <3>1. n \in Nat
      BY <2>1
    <3>2. asked = [k \in 1 .. n |-> c.from + k - 1]
      BY DEF Bytes
    <3> HIDE DEF n, asked
    <3>3. QED  BY <2>1, <3>1, <3>2
  <2> HIDE DEF asked
  <2>4. /\ start \in Seq(Int) /\ Len(start) = Len(c.out)
        /\ \A k \in 1 .. Len(c.out) : start[k] = asked[k]
    <3>1. \A j \in 1 .. Len(c.out) : asked[j] \in Int
      BY <2>1, <2>2, <2>3
    <3>2. /\ start \in Seq(Int) /\ Len(start) = IF 1 <= Len(c.out) THEN Len(c.out) - 1 + 1 ELSE 0
          /\ \A k \in 1 .. Len(c.out) - 1 + 1 : start[k] = asked[1 + k - 1]
      BY <2>1, <3>1, SubSeqProperties
    <3>3. Len(c.out) - 1 + 1 = Len(c.out) /\ \A k \in 1 .. Len(c.out) : 1 + k - 1 = k
      BY <2>1
    <3>4. Len(start) = Len(c.out)
      BY <2>1, <3>2
    <3>5. QED  BY <3>2, <3>3, <3>4
  <2> HIDE DEF start
  <2>5. \A k \in 1 .. Len(c.out) : k \in 1 .. n
    BY <2>1, <2>2
  <2>6. c.out = start
    BY <2>1, <2>2, <2>3, <2>4, <2>5, SeqEqual
  <2>7. c.pc = "done" => c.out = asked
    <3> SUFFICES ASSUME c.pc = "done" PROVE c.out = asked
      OBVIOUS
    <3>1. Len(c.out) = Len(asked)
      BY <2>1, <2>3 DEF Place
    <3>2. QED  BY <2>1, <2>2, <2>3, <2>5, <3>1, SeqEqual
  <2>8. QED  BY <2>2, <2>3, <2>6, <2>7 DEF c, asked, start
<1>2. QED  BY InitInv, NextInv, <1>1, PTL DEF Spec
-----------------------------------------------------------------------------
(* Blame. *)

(* The first and the last of the missing pieces. *)
LEMMA LeastFacts ==
    ASSUME NEW T \in SUBSET Nat, T # {}
    PROVE  Least(T) \in T /\ \A y \in T : Least(T) <= y
<1> DEFINE R == {ss \in Nat \X Nat : ss[1] < ss[2]}
<1>1. R = OpToRel(<, Nat)
  BY Zenon DEF OpToRel
<1>2. IsWellFoundedOn(R, Nat)
  BY <1>1, NatLessThanWellFounded, Zenon
<1> HIDE DEF R
<1>3. PICK m \in T : \A y \in T : ~(<<y, m>> \in R)
  BY <1>2, WFMin
<1>4. ASSUME NEW y \in T PROVE m <= y
  <2>1. m \in Nat /\ y \in Nat /\ <<y, m>> \notin R
    BY <1>3
  <2>2. <<y, m>> \in Nat \X Nat /\ <<y, m>>[1] = y /\ <<y, m>>[2] = m
    BY <2>1
  <2>3. ~(y < m)
    BY <2>1, <2>2 DEF R
  <2>4. QED  BY <2>1, <2>3
<1>5. QED  BY <1>4, Zenon DEF Least

LEMMA GreatestFacts ==
    ASSUME NEW T \in SUBSET Nat, T # {}, NEW max \in Nat, \A y \in T : y <= max
    PROVE  Greatest(T) \in T /\ \A y \in T : y <= Greatest(T)
<1> DEFINE U == {n \in Nat : max - n \in T}
<1>1. U # {}
  <2>1. PICK y \in T : TRUE
    OBVIOUS
  <2>2. max - y \in Nat /\ max - (max - y) = y
    BY <2>1
  <2>3. QED  BY <2>1, <2>2
<1> DEFINE m == Least(U)
<1>2. m \in U /\ \A n \in U : m <= n
  BY <1>1, LeastFacts
<1> HIDE DEF m
<1>3. ASSUME NEW y \in T PROVE max - m >= y
  <2>1. max - y \in Nat /\ max - (max - y) = y
    OBVIOUS
  <2>2. m <= max - y
    BY <1>2, <2>1
  <2>3. QED  BY <1>2, <2>1, <2>2
<1>4. \E x \in T : \A y \in T : x >= y
  BY <1>2, <1>3
<1>5. Greatest(T) \in T /\ \A y \in T : Greatest(T) >= y
  BY <1>4, Zenon DEF Greatest
<1>6. QED  BY <1>5

(* Of a range that came as it was asked for, from the first missing piece to  *)
(* the last, the part that is checked for a piece is that piece's bytes.      *)
LEMMA HonestPart ==
    ASSUME NEW c, Ranged(c), NEW lo \in Nat, NEW hi \in Nat, NEW p \in Nat,
           FirstPiece(c) <= lo, lo <= p, p <= hi, hi <= LastPiece(c),
           NEW off, off = lo * PIECE, NEW buf, buf = Sent(off, hi * PIECE + LenOf(hi) - off, {})
    PROVE  PartOf(buf, off, p) = PieceBytes(p)
<1> DEFINE s == p * PIECE
           h == hi * PIECE
           n == LenOf(p)
           len == h + LenOf(hi) - off
           part == SubSeq(buf, s - off + 1, s - off + n)
<1>1. PIECE \in Nat \ {0} /\ FirstPiece(c) \in Nat /\ LastPiece(c) \in Nat
  BY Sizes, PieceFacts
<1>2. /\ s \in Nat /\ n \in Nat \ {0} /\ n <= PIECE
      /\ h \in Nat /\ LenOf(hi) \in Nat \ {0}
  <2>1. p >= FirstPiece(c) /\ p <= LastPiece(c) /\ hi >= FirstPiece(c) /\ hi <= LastPiece(c)
    BY <1>1
  <2>2. QED  BY <2>1, LenFacts
<1>3. off \in Nat /\ off <= s /\ s <= h /\ (p < hi => s + PIECE <= h)
  BY <1>1, Multiples
<1>4. s + n <= h + LenOf(hi)
  <2>1. CASE p = hi
    BY <2>1, <1>2
  <2>2. CASE p < hi
    BY <2>2, <1>1, <1>2, <1>3
  <2>3. QED  BY <2>1, <2>2
<1>5. buf = [k \in 1 .. len |-> off + k - 1]
  BY DEF Sent
<1>6. len \in Nat /\ s - off + n <= len
  <2> HIDE DEF s, h, n
  <2>1. QED  BY <1>2, <1>3, <1>4
<1>7. PieceBytes(p) \in Seq(Int) /\ Len(PieceBytes(p)) = n /\ \A k \in 1 .. n : PieceBytes(p)[k] = s + k - 1
  BY <1>2, PieceBytesFacts
<1> HIDE DEF len
<1>8. Len(buf) = len /\ \A k \in 1 .. len : buf[k] = off + k - 1 /\ buf[k] \in Int
  <2>1. \A k \in 1 .. len : off + k - 1 \in Int
    BY <1>3, <1>6
  <2>2. buf \in Seq(Int) /\ Len(buf) = len
    BY <1>5, <1>6, <2>1
  <2>3. QED  BY <1>5, <2>1, <2>2
<1>9. PartOf(buf, off, p) = part
  <2>1. ~(s - off + n < Len(buf)) => Len(buf) = s - off + n
    <3>1. Len(buf) = len /\ len \in Nat /\ s - off + n <= len /\ s - off + n \in Int
      BY <1>2, <1>3, <1>6, <1>8
    <3> HIDE DEF s, n
    <3>2. QED  BY <3>1
  <2> DEFINE end == s - off + n
  <2>2. PartOf(buf, off, p) = SubSeq(buf, s - off + 1, IF end < Len(buf) THEN end ELSE Len(buf))
    BY DEF PartOf
  <2>3. (IF end < Len(buf) THEN end ELSE Len(buf)) = end
    BY <2>1
  <2>4. QED  BY <2>2, <2>3
<1> HIDE DEF s, n, h
<1>10. /\ part \in Seq(Int) /\ Len(part) = n
       /\ \A k \in 1 .. n : part[k] = buf[s - off + 1 + k - 1]
  <2>1. s - off + 1 \in Int /\ s - off + n \in Int /\ s - off + 1 <= s - off + n
        /\ (s - off + n) - (s - off + 1) + 1 = n
    BY <1>2, <1>3
  <2>2. \A j \in s - off + 1 .. s - off + n : buf[j] \in Int
    <3>1. \A j \in s - off + 1 .. s - off + n : j \in 1 .. len
      BY <1>2, <1>3, <1>6
    <3>2. QED  BY <3>1, <1>8
  <2>3. QED  BY <2>1, <2>2, SubSeqProperties
<1> HIDE DEF part
<1>11. ASSUME NEW k \in 1 .. n PROVE part[k] = s + k - 1
  <2>1. s - off + 1 + k - 1 \in 1 .. len /\ off + (s - off + 1 + k - 1) - 1 = s + k - 1
    BY <1>2, <1>3, <1>6
  <2>2. QED  BY <1>8, <1>10, <2>1
<1>12. part = PieceBytes(p)
  BY <1>7, <1>10, <1>11, SeqEqual
<1>13. QED  BY <1>9, <1>12

(* A strike count that may go up only for a holder that is not honest. *)
LEMMA NotesLiar ==
    ASSUME lies = [k \in Kinds |-> lies[k]], HonestUnblamed, NEW k, NEW n, Note(k, n), k \in Honest => n = 0
    PROVE  (lies = [h \in Kinds |-> lies[h]] /\ HonestUnblamed)'
<1>1. lies' = [lies EXCEPT ![k] = @ + n]
  BY DEF Note
<1>2. lies' = [h \in Kinds |-> IF h = k THEN lies[k] + n ELSE lies[h]]
  BY <1>1
<1>3. Honest \subseteq Kinds
  BY GetAssumption
<1>4. ASSUME NEW h \in Honest PROVE lies'[h] = 0
  <2>1. lies[h] = 0
    BY DEF HonestUnblamed
  <2>2. CASE h = k
    BY <1>2, <1>3, <2>1, <2>2
  <2>3. CASE h # k
    BY <1>2, <1>3, <2>1, <2>3
  <2>4. QED  BY <2>2, <2>3
<1>5. QED  BY <1>2, <1>4 DEF HonestUnblamed

Blame == lies = [k \in Kinds |-> lies[k]] /\ HonestUnblamed

(* What an honest holder sends for a range has all the missing pieces. *)
LEMMA HonestRight ==
    ASSUME NEW c, Ranged(c), NEW i \in Nat, i < RunCount(c), NEW want, want = Missing(c, i),
           NEW off, off = Least(want) * PIECE,
           NEW buf, buf = Sent(off, Greatest(want) * PIECE + LenOf(Greatest(want)) - off, {})
    PROVE  \A p \in want : Ok(p, PartOf(buf, off, p))
<1> DEFINE lo == Least(want)
           hi == Greatest(want)
<1>1. \A p \in want : p \in Nat /\ p >= FirstPiece(c) /\ p <= LastPiece(c)
  BY RunPiecesFacts DEF Missing
<1> SUFFICES ASSUME NEW p \in want PROVE Ok(p, PartOf(buf, off, p))
  OBVIOUS
<1>2. want \in SUBSET Nat /\ want # {} /\ LastPiece(c) \in Nat /\ FirstPiece(c) \in Nat
  BY <1>1, PieceFacts
<1>3. lo \in want /\ lo <= p
  BY <1>2, LeastFacts
<1>4. hi \in want /\ p <= hi
  BY <1>1, <1>2, GreatestFacts
<1>5. buf = Sent(off, hi * PIECE + LenOf(hi) - off, {}) /\ off = lo * PIECE
  OBVIOUS
<1> HIDE DEF lo, hi
<1>6. p \in Nat /\ lo \in Nat /\ hi \in Nat /\ FirstPiece(c) <= lo /\ hi <= LastPiece(c)
  BY <1>1, <1>2, <1>3, <1>4
<1>7. QED  BY <1>3, <1>4, <1>5, <1>6, HonestPart DEF Ok

LEMMA RangeAnswerBlames ==
    ASSUME Inv, Blame, NEW g \in Gets, NEW i, NEW spoiled, NEW short, RangeAnswer(g, i, spoiled, short)
    PROVE  Blame'
<1> DEFINE c == call[g]
           want == Missing(c, i)
           lo == Least(want)
           hi == Greatest(want)
           off == lo * PIECE
           whole == Sent(off, hi * PIECE + LenOf(hi) - off, spoiled)
           buf == IF short THEN Short(whole) ELSE whole
           right == {p \in want : Ok(p, PartOf(buf, off, p))}
           k == Asks(g, i)
<1>1. /\ Asking(g, i) /\ Note(k, Cardinality(want \ right))
      /\ k \in Honest => spoiled = {} /\ ~short
  BY DEF RangeAnswer
<1>2. Ranged(c) /\ Runs(c) /\ InOrder(c) /\ c.next \in Nat
  BY AtGet
<1> HIDE DEF c
<1>3. i \in Nat /\ i < RunCount(c)
  <2>1. i \in DOMAIN c.run
    BY <1>1 DEF Asking, c
  <2>2. i \in 0 .. c.next - 1
    BY <1>2, <2>1 DEF Runs
  <2>3. RunCount(c) \in Nat /\ c.next <= RunCount(c)
    BY <1>2, RunFacts DEF InOrder
  <2>4. QED  BY <1>2, <2>2, <2>3
<1>4. ASSUME k \in Honest PROVE Cardinality(want \ right) = 0
  <2>1. \A p \in want : Ok(p, PartOf(buf, off, p))
    BY <1>1, <1>2, <1>3, <1>4, HonestRight
  <2> HIDE DEF want, off, buf
  <2>2. want \ right = {}
    BY <2>1
  <2>3. QED  BY <2>2, FS_EmptySet
<1> HIDE DEF right, k
<1>5. QED  BY <1>1, <1>4, NotesLiar DEF Blame

LEMMA AnswerBlames ==
    ASSUME Inv, Blame, NEW g \in Gets, NEW i, Answer(g, i)
    PROVE  Blame'
<1>1. ASSUME NEW spoiled, NEW short, RangeAnswer(g, i, spoiled, short) PROVE Blame'
  BY <1>1, RangeAnswerBlames
<1>2. ASSUME NEW slow, RangeFails(g, i, slow) PROVE Blame'
  <2>1. Note(Asks(g, i), IF slow THEN 1 ELSE 0) /\ Asks(g, i) \notin Honest
    BY <1>2 DEF RangeFails
  <2>2. QED  BY <2>1, NotesLiar DEF Blame
<1>3. ASSUME NEW p, NEW answer, PieceAnswer(g, i, p, answer) PROVE Blame'
  <2> DEFINE buf == IF answer = "right" THEN PieceBytes(p) ELSE Sent(p * PIECE, LenOf(p), {p})
             good == answer \in {"right", "wrong"} /\ Ok(p, buf)
             n == IF ~good /\ answer \in {"wrong", "slow"} THEN 1 ELSE 0
  <2>1. Note(Asks(g, i), n) /\ (Asks(g, i) \in Honest => answer = "right")
    BY <1>3 DEF PieceAnswer
  <2>2. Asks(g, i) \in Honest => n = 0
    BY <2>1
  <2> HIDE DEF n
  <2>3. QED  BY <2>1, <2>2, NotesLiar DEF Blame
<1>4. QED  BY <1>1, <1>2, <1>3 DEF Answer

LEMMA InitBlame == Init => Blame
BY GetAssumption DEF Init, Blame, HonestUnblamed

LEMMA NextBlame == Inv /\ Blame /\ [Next]_vars => Blame'
<1> SUFFICES ASSUME Inv, Blame, [Next]_vars PROVE Blame'
  OBVIOUS
<1>1. CASE UNCHANGED lies
  BY <1>1 DEF Blame, HonestUnblamed
<1>2. ASSUME NEW g \in Gets, NEW i \in DOMAIN call[g].run, Answer(g, i) PROVE Blame'
  BY <1>2, AnswerBlames
<1>3. QED  BY <1>1, <1>2 DEF Next, Work, Start, Await, Pull, Leave, vars

(* A holder that answers every read in time with the right bytes never gets a  *)
(* strike in `standing`, however ranges, pieces and the runs of several gets   *)
(* interleave, also where it is asked for a span that covers pieces which      *)
(* another holder has delivered (the range branch of fetchRun and note of      *)
(* kappa-get.mjs).                                                             *)
THEOREM GetNeverBlamesHonest == Spec => []HonestUnblamed
<1>1. Blame => HonestUnblamed
  BY DEF Blame
<1>2. QED  BY InitInv, NextInv, InitBlame, NextBlame, <1>1, PTL DEF Spec

-----------------------------------------------------------------------------
(* The order in which holders are asked. *)

(* A set that holds 0 and, with each natural, the next one, holds them all. *)
LEMMA NatSetInduction ==
    ASSUME NEW T, 0 \in T, \A n \in Nat : n \in T => n + 1 \in T
    PROVE  Nat \subseteq T
<1> SUFFICES ASSUME ~(Nat \subseteq T) PROVE FALSE
  OBVIOUS
<1> DEFINE U == {n \in Nat : n \notin T}
           m == Least(U)
<1>1. U \in SUBSET Nat /\ U # {}
  OBVIOUS
<1>2. m \in U /\ \A y \in U : m <= y
  BY <1>1, LeastFacts
<1> HIDE DEF m
<1>3. m # 0 /\ m - 1 \in Nat /\ m - 1 \notin U
  BY <1>2
<1>4. QED  BY <1>2, <1>3

(* One step of the filter, and a function that makes n of them. *)
FilterStep(s, kept, before, k) ==
    IF k = 0 THEN <<>> ELSE IF s[k] \in kept THEN Append(before, s[k]) ELSE before
UpTo(f, s, kept, n) == f = [k \in 0 .. n |-> FilterStep(s, kept, f[k - 1], k)]

LEMMA FilterStepZero == ASSUME NEW s, NEW kept, NEW b PROVE FilterStep(s, kept, b, 0) = <<>>
  BY DEF FilterStep

LEMMA UpToExists == ASSUME NEW s, NEW kept PROVE \A n \in Nat : \E f : UpTo(f, s, kept, n)
<1> DEFINE T == {n \in Nat : \E f : UpTo(f, s, kept, n)}
<1>1. 0 \in T
  <2> DEFINE f == [k \in 0 .. 0 |-> FilterStep(s, kept, <<>>, k)]
  <2>1. f = [k \in 0 .. 0 |-> FilterStep(s, kept, f[k - 1], k)]
    <3>1. \A k \in 0 .. 0 : FilterStep(s, kept, <<>>, k) = FilterStep(s, kept, f[k - 1], k)
      BY FilterStepZero
    <3>2. QED  BY <3>1
  <2>2. UpTo(f, s, kept, 0)
    BY <2>1 DEF UpTo
  <2>3. QED  BY <2>2
<1>2. ASSUME NEW n \in Nat, n \in T PROVE n + 1 \in T
  <2>1. PICK f : UpTo(f, s, kept, n)
    BY <1>2
  <2> DEFINE g == [k \in 0 .. n + 1 |-> FilterStep(s, kept, f[k - 1], k)]
  <2>2. ASSUME NEW k \in 0 .. n PROVE g[k] = f[k]
    <3>1. f = [j \in 0 .. n |-> FilterStep(s, kept, f[j - 1], j)]
      BY <2>1 DEF UpTo
    <3>2. f[k] = FilterStep(s, kept, f[k - 1], k)
      BY <3>1
    <3>3. k \in 0 .. n + 1
      BY <1>2
    <3>4. QED  BY <3>2, <3>3
  <2>3. ASSUME NEW k \in 0 .. n + 1
        PROVE  g[k] = FilterStep(s, kept, g[k - 1], k)
    <3>1. g[k] = FilterStep(s, kept, f[k - 1], k)
      OBVIOUS
    <3>2. k # 0 => k - 1 \in 0 .. n
      BY <1>2
    <3> HIDE DEF g
    <3>3. CASE k = 0
      BY <3>1, <3>3, FilterStepZero
    <3>4. CASE k # 0
      <4>1. g[k - 1] = f[k - 1]
        BY <2>2, <3>2, <3>4
      <4>2. QED  BY <3>1, <4>1
    <3>5. QED  BY <3>3, <3>4
  <2>4. g = [k \in 0 .. n + 1 |-> FilterStep(s, kept, g[k - 1], k)]
    <3> DEFINE h == [k \in 0 .. n + 1 |-> FilterStep(s, kept, g[k - 1], k)]
    <3>1. \A k \in 0 .. n + 1 : g[k] = h[k]
      BY <2>3
    <3>2. g = [k \in 0 .. n + 1 |-> g[k]] /\ h = [k \in 0 .. n + 1 |-> h[k]]
      OBVIOUS
    <3> HIDE DEF g, h
    <3>3. g = h
      BY <3>1, <3>2
    <3>4. QED  BY <3>3 DEF h
  <2> HIDE DEF g
  <2>5. UpTo(g, s, kept, n + 1)
    BY <2>4 DEF UpTo
  <2>6. QED  BY <2>5, <1>2
<1>3. QED  BY <1>1, <1>2, NatSetInduction

LEMMA FilterIs ==
    ASSUME NEW s, NEW kept, Len(s) \in Nat
    PROVE  \E f : UpTo(f, s, kept, Len(s)) /\ Filter(s, kept) = f[Len(s)]
<1> DEFINE step(f) == [k \in 0 .. Len(s) |->
                          IF k = 0 THEN <<>>
                          ELSE IF s[k] \in kept THEN Append(f[k - 1], s[k]) ELSE f[k - 1]]
           g == CHOOSE f : f = step(f)
<1>1. Filter(s, kept) = g[Len(s)]
  BY Zenon DEF Filter
<1>2. PICK f : UpTo(f, s, kept, Len(s))
  BY UpToExists
<1>3. f = step(f)
  BY <1>2 DEF UpTo, FilterStep
<1>4. g = step(g)
  BY <1>3, Zenon
<1> HIDE DEF g
<1>5. UpTo(g, s, kept, Len(s))
  BY <1>4 DEF UpTo, FilterStep
<1>6. QED  BY <1>1, <1>5

(* t is made of entries of the first n of s, each from a place of its own.    *)
Stands(m, t, s, n) ==
    /\ m \in [1 .. Len(t) -> 1 .. n]
    /\ \A j, l \in 1 .. Len(t) : m[j] = m[l] => j = l
    /\ \A j \in 1 .. Len(t) : t[j] = s[m[j]]

(* t has all of them that are in kept, and no others. *)
Picks(t, s, kept, n) ==
    /\ \E m : Stands(m, t, s, n)
    /\ \A j \in 1 .. Len(t) : t[j] \in kept
    /\ \A a \in 1 .. n : s[a] \in kept => \E j \in 1 .. Len(t) : t[j] = s[a]

LEMMA PicksMore ==
    ASSUME NEW K, NEW s, NEW kept, NEW n \in Nat, NEW t \in Seq(K), Picks(t, s, kept, n), s[n + 1] \in K,
           s[n + 1] \in kept, NEW u, u = Append(t, s[n + 1])
    PROVE  u \in Seq(K) /\ Picks(u, s, kept, n + 1)
<1>1. PICK m : Stands(m, t, s, n)
  BY DEF Picks
<1>2. /\ Len(t) \in Nat /\ u \in Seq(K) /\ Len(u) = Len(t) + 1 /\ u[Len(t) + 1] = s[n + 1]
      /\ \A j \in 1 .. Len(t) : u[j] = t[j]
  OBVIOUS
<1> DEFINE len == Len(t)
           x == [j \in 1 .. len + 1 |-> IF j = len + 1 THEN n + 1 ELSE m[j]]
<1> HIDE DEF len
<1>3. len \in Nat /\ \A j \in 1 .. len + 1 : j = len + 1 \/ (j \in 1 .. len /\ j # len + 1)
  BY <1>2 DEF len
<1>4. \A j \in 1 .. len : m[j] \in 1 .. n /\ m[j] # n + 1 /\ m[j] \in 1 .. n + 1 /\ t[j] = s[m[j]]
  <2>1. \A j \in 1 .. len : m[j] \in 1 .. n /\ t[j] = s[m[j]]
    BY <1>1 DEF Stands, len
  <2>2. QED  BY <2>1
<1>5. x[len + 1] = n + 1 /\ \A j \in 1 .. len : x[j] = m[j]
  BY <1>3
<1>6. x \in [1 .. len + 1 -> 1 .. n + 1]
  BY <1>3, <1>4
<1> HIDE DEF x
<1>7. \A j, l \in 1 .. len + 1 : x[j] = x[l] => j = l
  BY <1>1, <1>3, <1>4, <1>5 DEF Stands, len
<1>8. \A j \in 1 .. len + 1 : u[j] = s[x[j]]
  BY <1>2, <1>3, <1>4, <1>5 DEF len
<1>9. Stands(x, u, s, n + 1)
  BY <1>2, <1>6, <1>7, <1>8 DEF Stands, len
<1>10. \A j \in 1 .. Len(u) : u[j] \in kept
  BY <1>2, <1>3 DEF Picks, len
<1>11. ASSUME NEW a \in 1 .. n + 1, s[a] \in kept PROVE \E j \in 1 .. Len(u) : u[j] = s[a]
  <2>1. CASE a = n + 1
    <3>1. Len(t) + 1 \in 1 .. Len(u)
      BY <1>2
    <3>2. QED  BY <1>2, <2>1, <3>1
  <2>2. CASE a # n + 1
    <3>1. a \in 1 .. n
      BY <2>2
    <3>2. PICK j \in 1 .. Len(t) : t[j] = s[a]
      BY <1>11, <3>1 DEF Picks
    <3>3. j \in 1 .. Len(u) /\ u[j] = s[a]
      BY <1>2, <3>2
    <3>4. QED  BY <3>3
  <2>3. QED  BY <2>1, <2>2
<1>12. QED  BY <1>2, <1>9, <1>10, <1>11 DEF Picks

LEMMA PicksSame ==
    ASSUME NEW s, NEW kept, NEW n \in Nat, NEW t, Picks(t, s, kept, n), s[n + 1] \notin kept
    PROVE  Picks(t, s, kept, n + 1)
<1>1. PICK m : Stands(m, t, s, n)
  BY DEF Picks
<1>2. m \in [1 .. Len(t) -> 1 .. n + 1]
  BY <1>1 DEF Stands
<1>3. Stands(m, t, s, n + 1)
  BY <1>1, <1>2 DEF Stands
<1>4. \A a \in 1 .. n + 1 : s[a] \in kept => a \in 1 .. n
  OBVIOUS
<1>5. QED  BY <1>3, <1>4 DEF Picks

LEMMA PicksNone == ASSUME NEW s, NEW kept PROVE Picks(<<>>, s, kept, 0)
<1> DEFINE m == [j \in 1 .. 0 |-> 0]
<1>1. Stands(m, <<>>, s, 0)
  BY DEF Stands
<1>2. QED  BY <1>1 DEF Picks

(* A filter keeps what is to be kept, each entry once. *)
LEMMA FilterPicks ==
    ASSUME NEW K, NEW s \in Seq(K), NEW kept
    PROVE  Filter(s, kept) \in Seq(K) /\ Picks(Filter(s, kept), s, kept, Len(s))
<1>1. Len(s) \in Nat
  OBVIOUS
<1>2. PICK f : UpTo(f, s, kept, Len(s)) /\ Filter(s, kept) = f[Len(s)]
  BY <1>1, FilterIs
<1> DEFINE T == {n \in Nat : n <= Len(s) => f[n] \in Seq(K) /\ Picks(f[n], s, kept, n)}
<1>3. \A n \in 0 .. Len(s) : f[n] = FilterStep(s, kept, f[n - 1], n)
  BY <1>2 DEF UpTo
<1>4. 0 \in T
  <2>1. f[0] = <<>>
    BY <1>1, <1>3, FilterStepZero
  <2>2. f[0] \in Seq(K) /\ Picks(f[0], s, kept, 0)
    BY <2>1, PicksNone
  <2>3. QED  BY <2>2
<1>5. ASSUME NEW n \in Nat, n \in T PROVE n + 1 \in T
  <2> SUFFICES ASSUME n + 1 <= Len(s)
               PROVE  f[n + 1] \in Seq(K) /\ Picks(f[n + 1], s, kept, n + 1)
    BY <1>5
  <2>1. f[n] \in Seq(K) /\ Picks(f[n], s, kept, n) /\ s[n + 1] \in K
    BY <1>1, <1>5
  <2>2. n + 1 \in 0 .. Len(s) /\ (n + 1) - 1 = n /\ n + 1 # 0
    BY <1>1
  <2>3. f[n + 1] = IF s[n + 1] \in kept THEN Append(f[n], s[n + 1]) ELSE f[n]
    BY <1>3, <2>2 DEF FilterStep
  <2>4. CASE s[n + 1] \in kept
    BY <2>1, <2>3, <2>4, PicksMore
  <2>5. CASE s[n + 1] \notin kept
    BY <2>1, <2>3, <2>5, PicksSame
  <2>6. QED  BY <2>4, <2>5
<1>6. Len(s) \in T
  BY <1>1, <1>4, <1>5, NatSetInduction
<1>7. QED  BY <1>1, <1>2, <1>6

(* rank asks each listed holder once for each time it is listed; and while   *)
(* an honest one is listed it asks one before any that has a strike.         *)
LEMMA RankFacts ==
    /\ Rank \in Seq(Kinds) /\ \E m : Stands(m, Rank, Listed, Len(Listed))
    /\ HonestListed /\ HonestUnblamed =>
         \A j \in 1 .. Len(Rank) :
             Demoted(Rank[j]) => \E l \in 1 .. j - 1 : Rank[l] \in Honest
<1> DEFINE good == {k \in Kinds : ~Demoted(k)}
           bad == {k \in Kinds : Demoted(k)}
           A == Filter(Listed, good)
           B == Filter(Listed, bad)
           N == Len(Listed)
           R == Rank
<1>1. Listed \in Seq(Kinds) /\ N \in Nat /\ Honest \subseteq Kinds
  BY GetAssumption
<1>2. /\ A \in Seq(Kinds) /\ Picks(A, Listed, good, N)
      /\ B \in Seq(Kinds) /\ Picks(B, Listed, bad, N)
  BY <1>1, FilterPicks
<1>3. R = A \o B
  BY DEF Rank
<1>4. ASSUME NEW k \in good PROVE k \notin bad /\ ~Demoted(k)
  OBVIOUS
<1>5. PICK x : Stands(x, A, Listed, N)
  BY <1>2 DEF Picks
<1>6. PICK y : Stands(y, B, Listed, N)
  BY <1>2 DEF Picks
<1>7. (\A j \in 1 .. Len(A) : A[j] \in good) /\ (\A j \in 1 .. Len(B) : B[j] \in bad)
  BY <1>2 DEF Picks
<1>8. \A a \in 1 .. N : Listed[a] \in good => \E j \in 1 .. Len(A) : A[j] = Listed[a]
  BY <1>2 DEF Picks
<1> DEFINE a == Len(A)
           b == Len(B)
<1>9. a \in Nat /\ b \in Nat
  BY <1>2
<1>10. /\ R \in Seq(Kinds) /\ Len(R) = a + b
       /\ \A j \in 1 .. a + b : R[j] = IF j <= a THEN A[j] ELSE B[j - a]
  BY <1>2, <1>3, ConcatProperties
<1> HIDE DEF R, A, B, N
<1>11. Stands([j \in 1 .. a + b |-> IF j <= a THEN x[j] ELSE y[j - a]], R, Listed, N)
  <2> DEFINE m == [j \in 1 .. a + b |-> IF j <= a THEN x[j] ELSE y[j - a]]
  <2>1. /\ \A j \in 1 .. a : x[j] \in 1 .. N /\ A[j] = Listed[x[j]] /\ A[j] \in good
        /\ \A j \in 1 .. b : y[j] \in 1 .. N /\ B[j] = Listed[y[j]] /\ B[j] \in bad
        /\ \A j, l \in 1 .. a : x[j] = x[l] => j = l
        /\ \A j, l \in 1 .. b : y[j] = y[l] => j = l
    BY <1>5, <1>6, <1>7 DEF Stands
  <2>2. ASSUME NEW j \in 1 .. a, NEW l \in 1 .. b PROVE x[j] # y[l]
    BY <1>4, <2>1
  <2> HIDE DEF a, b, good, bad
  <2>3. a \in Nat /\ b \in Nat
    BY <1>9
  <2>4. \A j \in 1 .. a + b : (j <= a /\ j \in 1 .. a) \/ (~(j <= a) /\ j - a \in 1 .. b)
    BY <2>3
  <2>5. \A j \in 1 .. a + b : m[j] = IF j <= a THEN x[j] ELSE y[j - a]
    OBVIOUS
  <2>6. m \in [1 .. a + b -> 1 .. N]
    BY <2>1, <2>4
  <2> HIDE DEF m
  <2>7. ASSUME NEW j \in 1 .. a + b PROVE R[j] = Listed[m[j]]
    <3>1. R[j] = IF j <= a THEN A[j] ELSE B[j - a]
      BY <1>10
    <3>2. CASE j <= a
      BY <2>1, <2>4, <2>5, <3>1, <3>2
    <3>3. CASE ~(j <= a)
      BY <2>1, <2>4, <2>5, <3>1, <3>3
    <3>4. QED  BY <3>2, <3>3
  <2>8. ASSUME NEW j \in 1 .. a + b, NEW l \in 1 .. a + b, m[j] = m[l] PROVE j = l
    <3>1. CASE j <= a /\ l <= a
      BY <2>1, <2>4, <2>5, <2>8, <3>1
    <3>2. CASE ~(j <= a) /\ ~(l <= a)
      <4>1. j - a = l - a
        BY <2>1, <2>4, <2>5, <2>8, <3>2
      <4>2. QED  BY <2>3, <4>1
    <3>3. CASE j <= a /\ ~(l <= a)
      BY <2>2, <2>4, <2>5, <2>8, <3>3
    <3>4. CASE ~(j <= a) /\ l <= a
      BY <2>2, <2>4, <2>5, <2>8, <3>4
    <3>5. QED  BY <3>1, <3>2, <3>3, <3>4
  <2>9. QED  BY <1>10, <2>6, <2>7, <2>8 DEF Stands, m, a, b
<1>12. ASSUME HonestListed, HonestUnblamed, NEW j \in 1 .. Len(R), Demoted(R[j])
       PROVE  \E l \in 1 .. j - 1 : R[l] \in Honest
  <2>1. PICK n \in 1 .. N : Listed[n] \in Honest
    BY <1>1, <1>12 DEF HonestListed, N
  <2>2. Listed[n] \in good
    <3>1. lies[Listed[n]] = 0
      BY <1>12, <2>1 DEF HonestUnblamed
    <3>2. QED  BY <1>1, <2>1, <3>1 DEF Demoted
  <2>3. PICK l \in 1 .. a : A[l] = Listed[n]
    BY <1>8, <2>2
  <2>4. ~(j <= a)
    <3> SUFFICES ASSUME j <= a PROVE FALSE
      OBVIOUS
    <3>1. j \in 1 .. a /\ R[j] = A[j]
      BY <1>9, <1>10
    <3>2. QED  BY <1>4, <1>7, <1>12, <3>1
  <2> HIDE DEF a, b
  <2>5. l \in 1 .. j - 1 /\ l \in 1 .. a + b /\ l <= a
    BY <1>9, <1>10, <2>3, <2>4 DEF a, b
  <2>6. R[l] \in Honest
    BY <1>10, <2>1, <2>3, <2>5 DEF a, b
  <2>7. QED  BY <2>5, <2>6
<1>13. QED  BY <1>10, <1>11, <1>12 DEF R, N

-----------------------------------------------------------------------------
(* Strikes still to come. *)

(* A run that is being fetched: somebody is being asked, for pieces that are   *)
(* missing, and an honest holder of pieces for all of them.  The holders left  *)
(* stand in the list.                                                          *)
Running(r, pieces) ==
    /\ r.left \in Seq(Kinds) /\ r.left # <<>> /\ \E m : Stands(m, r.left, Listed, Len(Listed))
    /\ ~(pieces \subseteq DOMAIN r.got)
    /\ r.asked \subseteq pieces /\ (r.asked # {} => r.left[1] \in ByPiece)
    /\ r.left[1] \in ByPiece \cap Honest => pieces \subseteq r.asked \cup DOMAIN r.got

(* Only the last AHEAD runs are being fetched. *)
Flight(c) ==
    /\ \A i \in 0 .. c.next - 1 :
          c.run[i].st = "fetching" => Running(c.run[i], RunPieces(c, i)) /\ i >= c.next - AHEAD
    /\ c.pc \in {"await", "yield"} => \A i \in 0 .. c.cur - 1 : c.run[i].st # "fetching"
    /\ c.pc = "await" => Len(c.inflight) < AHEAD

Flying == \A g \in Gets : Flight(call[g])

(* A strike a run may yet give k: for piece p, which is missing, when the e-th *)
(* holder from the end of its line, which is k, is asked; nobody honest is     *)
(* asked before, and p is not answered yet.                                    *)
Due(r, pieces, p, e, k) ==
    /\ r.st = "fetching" /\ p \in pieces \ DOMAIN r.got
    /\ e \in 1 .. Len(r.left) /\ r.left[Len(r.left) - e + 1] = k
    /\ \A j \in 1 .. Len(r.left) - e : r.left[j] \notin Honest
    /\ e = Len(r.left) /\ k \in ByPiece => p \in r.asked

Owes(c, i, p, e, k) == i \in 0 .. c.next - 1 /\ Due(c.run[i], RunPieces(c, i), p, e, k)

Dues(calls, k) == {t \in Gets \X Nat \X Nat \X Nat : Owes(calls[t[1]], t[2], t[3], t[4], k)}

Most(k) == Cardinality(Gets) * AHEAD * Per * Cardinality(Places(k))

(* From its first strike on, the strikes of a liar and those still to come are *)
(* within what the runs in flight can give.                                    *)
Debt ==
    /\ lies \in [Kinds -> Nat]
    /\ HonestListed =>
         \A k \in Kinds \ Honest : lies[k] > 0 => lies[k] + Cardinality(Dues(call, k)) <= Most(k)

LEMMA RunningFacts ==
    ASSUME NEW r, NEW pieces, Running(r, pieces)
    PROVE  /\ Len(r.left) \in Nat /\ Len(r.left) >= 1 /\ Head(r.left) = r.left[1] /\ r.left[1] \in Kinds
           /\ Tail(r.left) \in Seq(Kinds) /\ Len(Tail(r.left)) = Len(r.left) - 1
           /\ \A j \in 1 .. Len(r.left) - 1 : Tail(r.left)[j] = r.left[j + 1]
<1> DEFINE s == r.left
<1>1. s \in Seq(Kinds) /\ s # <<>>
  BY DEF Running
<1> HIDE DEF s
<1>2. /\ Len(s) \in Nat /\ Len(s) # 0 /\ Head(s) = s[1] /\ Head(s) \in Kinds /\ Tail(s) \in Seq(Kinds)
      /\ Len(Tail(s)) = Len(s) - 1 /\ \A j \in 1 .. Len(Tail(s)) : Tail(s)[j] = s[j + 1]
  BY <1>1, HeadTailProperties
<1>3. QED  BY <1>2 DEF s

(* On to the next holder: unless the last one was honest, and then the run is *)
(* through.                                                                   *)
LEMMA AdvanceRuns ==
    ASSUME NEW c, NEW i, NEW r, r = c.run[i], NEW pieces, pieces = RunPieces(c, i), r.st = "fetching", Running(r, pieces),
           NEW got, DOMAIN r.got \subseteq DOMAIN got, r.left[1] \in Honest => pieces \subseteq DOMAIN got,
           NEW new, new = Advance(c, i, got)
    PROVE  /\ new.st = "fetching" => Running(new, pieces)
           /\ \A p, e, k : Due(new, pieces, p, e, k) => Due(r, pieces, p, e, k) /\ e < Len(r.left)
<1> DEFINE missing == pieces \ DOMAIN got
           rest == Tail(r.left)
           empty == <<>>
           none == NoPieces
           asked == Asked(missing, rest)
           n == Len(r.left)
<1>1. new = IF missing = {} THEN [st |-> "ok", left |-> empty, asked |-> {}, got |-> got]
            ELSE IF rest = empty THEN [st |-> "failed", left |-> empty, asked |-> {}, got |-> none]
            ELSE [st |-> "fetching", left |-> rest, asked |-> asked, got |-> got]
  BY DEF Advance
<1>2. /\ n \in Nat /\ n >= 1 /\ rest \in Seq(Kinds) /\ Len(rest) = n - 1
      /\ \A j \in 1 .. n - 1 : rest[j] = r.left[j + 1]
  BY RunningFacts
<1>3. asked = IF rest # empty /\ Head(rest) \in ByPiece THEN missing ELSE {}
  BY DEF Asked
<1> HIDE DEF asked, rest, empty, none, n
<1>4. CASE missing = {} \/ rest = empty
  <2>1. new.st # "fetching"
    <3> HIDE DEF missing
    <3>1. CASE missing = {}
      <4>1. new = [st |-> "ok", left |-> empty, asked |-> {}, got |-> got]
        BY <1>1, <3>1
      <4>2. QED  BY <4>1
    <3>2. CASE missing # {}
      <4>1. new = [st |-> "failed", left |-> empty, asked |-> {}, got |-> none]
        BY <1>1, <1>4, <3>2
      <4>2. QED  BY <4>1
    <3>3. QED  BY <3>1, <3>2
  <2>2. QED  BY <2>1 DEF Due
<1>5. CASE missing # {} /\ rest # empty
  <2>1. new = [st |-> "fetching", left |-> rest, asked |-> asked, got |-> got]
    <3> HIDE DEF missing
    <3>1. QED  BY <1>1, <1>5
  <2>2. new.st = "fetching" /\ new.left = rest /\ new.asked = asked /\ new.got = got
    BY <2>1
  <2>3. r.left[1] \notin Honest
    BY <1>5
  <2>4. Head(rest) = rest[1] /\ Len(rest) >= 1
    BY <1>2, <1>5, HeadTailProperties DEF empty
  <2>5. Running(new, pieces)
    <3>1. PICK m : Stands(m, r.left, Listed, Len(Listed))
      BY DEF Running
    <3> DEFINE x == [j \in 1 .. n - 1 |-> m[j + 1]]
    <3>2. \A j \in 1 .. n - 1 : j + 1 \in 1 .. n
      BY <1>2
    <3>3. /\ \A j \in 1 .. n : m[j] \in 1 .. Len(Listed) /\ r.left[j] = Listed[m[j]]
          /\ \A j, l \in 1 .. n : m[j] = m[l] => j = l
      BY <3>1 DEF Stands, n
    <3>4. x \in [1 .. n - 1 -> 1 .. Len(Listed)] /\ \A j \in 1 .. n - 1 : x[j] = m[j + 1]
      BY <3>2, <3>3
    <3> HIDE DEF x
    <3>5. \A j \in 1 .. n - 1 : rest[j] = Listed[x[j]]
      BY <1>2, <3>2, <3>3, <3>4
    <3>6. ASSUME NEW j \in 1 .. n - 1, NEW l \in 1 .. n - 1, x[j] = x[l] PROVE j = l
      <4>1. j + 1 = l + 1
        BY <3>2, <3>3, <3>4, <3>6
      <4>2. QED  BY <1>2, <4>1
    <3>7. Stands(x, rest, Listed, Len(Listed))
      BY <1>2, <3>4, <3>5, <3>6 DEF Stands
    <3>8. ~(pieces \subseteq DOMAIN got)
      BY <1>5
    <3>9. /\ asked \subseteq pieces /\ (asked # {} => rest[1] \in ByPiece)
          /\ rest[1] \in ByPiece \cap Honest => pieces \subseteq asked \cup DOMAIN got
      BY <1>3, <1>5, <2>4
    <3>10. QED  BY <1>2, <1>5, <2>2, <3>7, <3>8, <3>9 DEF Running, empty
  <2>6. ASSUME NEW p, NEW e, NEW k, Due(new, pieces, p, e, k) PROVE Due(r, pieces, p, e, k) /\ e < n
    <3>1. /\ p \in pieces \ DOMAIN got /\ e \in 1 .. n - 1 /\ rest[n - 1 - e + 1] = k
          /\ \A j \in 1 .. n - 1 - e : rest[j] \notin Honest
      BY <1>2, <2>2, <2>6 DEF Due
    <3>2. e \in 1 .. n /\ e < n /\ e # n
      BY <1>2, <3>1
    <3>3. r.left[n - e + 1] = k
      <4>1. n - 1 - e + 1 \in 1 .. n - 1 /\ n - 1 - e + 1 + 1 = n - e + 1
        BY <1>2, <3>1
      <4>2. QED  BY <1>2, <3>1, <4>1
    <3>4. ASSUME NEW j \in 1 .. n - e PROVE r.left[j] \notin Honest
      <4>1. CASE j = 1
        BY <2>3, <4>1
      <4>2. CASE j # 1
        <5>1. j - 1 \in 1 .. n - 1 - e /\ j - 1 \in 1 .. n - 1 /\ j - 1 + 1 = j
          BY <1>2, <3>1, <4>2
        <5>2. rest[j - 1] = r.left[j]
          BY <1>2, <5>1
        <5>3. QED  BY <3>1, <5>1, <5>2
      <4>3. QED  BY <4>1, <4>2
    <3>5. QED  BY <3>1, <3>2, <3>3, <3>4 DEF Due, n
  <2>7. QED  BY <2>5, <2>6 DEF n
<1>6. QED  BY <1>4, <1>5

(* One of several pieces is answered. *)
LEMMA FewerRuns ==
    ASSUME NEW r, NEW pieces, r.st = "fetching", Running(r, pieces), Kept(r), NEW p \in r.asked, r.asked # {p},
           NEW got, DOMAIN r.got \subseteq DOMAIN got, DOMAIN got \subseteq DOMAIN r.got \cup {p},
           r.left[1] \in Honest => p \in DOMAIN got,
           NEW new, new.st = "fetching", new.left = r.left, new.asked = r.asked \ {p}, new.got = got
    PROVE  /\ Running(new, pieces)
           /\ \A q, e, k : Due(new, pieces, q, e, k) => Due(r, pieces, q, e, k)
           /\ r.left[1] \in ByPiece => ~Due(new, pieces, p, Len(r.left), r.left[1])
<1> DEFINE asked == r.asked \ {p}
<1>1. r.asked \cap DOMAIN r.got = {}
  BY DEF Kept
<1>2. new.asked = asked
  OBVIOUS
<1> HIDE DEF asked
<1>3. new.st = "fetching" /\ new.left = r.left /\ new.asked = asked /\ new.got = got
  BY <1>2
<1>4. Running(new, pieces)
  <2>1. ~(pieces \subseteq DOMAIN got)
    <3>1. PICK q \in r.asked : q # p
      OBVIOUS
    <3>2. q \in pieces /\ q \notin DOMAIN got
      BY <1>1, <3>1 DEF Running
    <3>3. QED  BY <3>2
  <2>2. asked \subseteq pieces /\ (asked # {} => r.left[1] \in ByPiece)
    BY DEF Running, asked
  <2>3. r.left[1] \in ByPiece \cap Honest => pieces \subseteq asked \cup DOMAIN got
    BY DEF Running, asked
  <2>4. QED  BY <1>3, <2>1, <2>2, <2>3 DEF Running
<1>5. ASSUME NEW q, NEW e, NEW k, Due(new, pieces, q, e, k) PROVE Due(r, pieces, q, e, k)
  BY <1>3, <1>5 DEF Due, asked
<1>6. ~(p \in asked)
  BY DEF asked
<1>7. r.left[1] \in ByPiece => ~Due(new, pieces, p, Len(r.left), r.left[1])
  BY <1>3, <1>6 DEF Due
<1>8. QED  BY <1>4, <1>5, <1>7

(* The holder that is asked may yet be struck for a piece that is missing. *)
LEMMA HeadDue ==
    ASSUME NEW r, NEW pieces, r.st = "fetching", Running(r, pieces), NEW p \in pieces \ DOMAIN r.got,
           r.left[1] \in ByPiece => p \in r.asked
    PROVE  Due(r, pieces, p, Len(r.left), r.left[1])
<1> DEFINE n == Len(r.left)
<1>1. n \in Nat /\ n >= 1
  BY RunningFacts
<1> HIDE DEF n
<1>2. n \in 1 .. n /\ n - n + 1 = 1 /\ 1 .. n - n = {}
  BY <1>1
<1>3. QED  BY <1>2 DEF Due, n

-----------------------------------------------------------------------------
(* How many strikes can be due. *)

LEMMA PiecesFinite ==
    ASSUME NEW c, NEW i \in Nat, Ranged(c)
    PROVE  /\ IsFiniteSet(RunPieces(c, i))
           /\ \A p \in RunPieces(c, i) : p \in Nat /\ p - (FirstPiece(c) + i * Per) + 1 \in 1 .. Per
<1> DEFINE a == FirstPiece(c) + i * Per
<1>1. a \in Nat /\ Per \in Nat
  BY RunFacts, Sizes
<1>2. RunPieces(c, i) = {p \in a .. a + Per - 1 : p <= LastPiece(c)}
  BY DEF RunPieces
<1> HIDE DEF a
<1>3. IsFiniteSet(a .. a + Per - 1)
  BY <1>1, FS_Interval
<1>4. IsFiniteSet(RunPieces(c, i))
  BY <1>2, <1>3, FS_Subset
<1>5. \A p \in RunPieces(c, i) : p \in Nat /\ p - a + 1 \in 1 .. Per
  BY <1>1, <1>2
<1>6. QED  BY <1>4, <1>5 DEF a

(* The strikes that may yet be given: a get, one of its last AHEAD runs, one  *)
(* of its pieces, one of the places where the list names the holder.          *)
Box(k) == ((Gets \X (1 .. AHEAD)) \X (1 .. Per)) \X Places(k)

LEMMA BoxFacts ==
    ASSUME NEW k
    PROVE  IsFiniteSet(Box(k)) /\ Cardinality(Box(k)) = Most(k) /\ Most(k) \in Nat
<1> DEFINE A == 1 .. AHEAD
           P == 1 .. Per
           L == Places(k)
<1>1. AHEAD \in Nat /\ Per \in Nat /\ IsFiniteSet(Gets) /\ Listed \in Seq(Kinds)
  BY GetAssumption
<1>2. IsFiniteSet(A) /\ Cardinality(A) = AHEAD /\ IsFiniteSet(P) /\ Cardinality(P) = Per
  BY <1>1, FS_Interval
<1>3. IsFiniteSet(L)
  <2>1. DOMAIN Listed = 1 .. Len(Listed) /\ Len(Listed) \in Int
    BY <1>1
  <2>2. IsFiniteSet(DOMAIN Listed)
    BY <2>1, FS_Interval
  <2>3. QED  BY <2>2, FS_Subset DEF Places
<1> HIDE DEF A, P, L
<1>4. IsFiniteSet(Gets \X A) /\ Cardinality(Gets \X A) = Cardinality(Gets) * AHEAD
  BY <1>1, <1>2, FS_Product
<1>5. IsFiniteSet((Gets \X A) \X P) /\ Cardinality((Gets \X A) \X P) = Cardinality(Gets) * AHEAD * Per
  BY <1>2, <1>4, FS_Product
<1>6. /\ IsFiniteSet(((Gets \X A) \X P) \X L)
      /\ Cardinality(((Gets \X A) \X P) \X L) = Cardinality(Gets) * AHEAD * Per * Cardinality(L)
  BY <1>3, <1>5, FS_Product
<1>7. Cardinality(((Gets \X A) \X P) \X L) \in Nat
  BY <1>6, FS_CardinalityType
<1>8. Box(k) = ((Gets \X A) \X P) \X L
  BY DEF Box, A, P, L
<1>9. Most(k) = Cardinality(Gets) * AHEAD * Per * Cardinality(L)
  BY DEF Most, L
<1>10. QED  BY <1>6, <1>7, <1>8, <1>9

(* What a strike that is due stands for, if m is where the holders left stand. *)
LEMMA DueFacts ==
    ASSUME Inv, Flying, NEW g \in Gets, NEW i \in Nat, NEW p \in Nat, NEW e \in Nat, NEW k, Owes(call[g], i, p, e, k)
    PROVE  /\ call[g].next - i \in 1 .. AHEAD
           /\ p - (FirstPiece(call[g]) + i * Per) + 1 \in 1 .. Per
           /\ FirstPiece(call[g]) + i * Per \in Nat /\ call[g].next \in Nat
           /\ Len(call[g].run[i].left) \in Nat
           /\ Len(call[g].run[i].left) - e + 1 \in 1 .. Len(call[g].run[i].left)
           /\ \E m : Stands(m, call[g].run[i].left, Listed, Len(Listed))
           /\ \A m : Stands(m, call[g].run[i].left, Listed, Len(Listed)) =>
                m[Len(call[g].run[i].left) - e + 1] \in Places(k)
<1> DEFINE c == call[g]
           left == c.run[i].left
           n == Len(left)
<1>1. Ranged(c) /\ c.next \in Nat
  BY AtGet
<1>2. /\ i \in 0 .. c.next - 1 /\ Due(c.run[i], RunPieces(c, i), p, e, k)
  BY DEF Owes
<1>3. c.run[i].st = "fetching" /\ p \in RunPieces(c, i) /\ e \in 1 .. n /\ left[n - e + 1] = k
  BY <1>2 DEF Due
<1>4. Running(c.run[i], RunPieces(c, i)) /\ i >= c.next - AHEAD
  BY <1>2, <1>3 DEF Flying, Flight
<1>5. c.next - i \in 1 .. AHEAD
  BY <1>1, <1>2, <1>4, Sizes
<1>6. p - (FirstPiece(c) + i * Per) + 1 \in 1 .. Per /\ FirstPiece(c) + i * Per \in Nat
  BY <1>1, <1>3, PiecesFinite, RunFacts
<1>7. n \in Nat /\ n - e + 1 \in 1 .. n
  <2>1. n \in Nat
    BY <1>4, RunningFacts
  <2>2. e \in 1 .. n
    BY <1>3
  <2> HIDE DEF n
  <2>3. QED  BY <2>1, <2>2
<1>8. \E m : Stands(m, left, Listed, Len(Listed))
  BY <1>4 DEF Running
<1>9. ASSUME NEW m, Stands(m, left, Listed, Len(Listed)) PROVE m[n - e + 1] \in Places(k)
  <2>1. Listed \in Seq(Kinds)
    BY GetAssumption
  <2>2. m[n - e + 1] \in 1 .. Len(Listed) /\ left[n - e + 1] = Listed[m[n - e + 1]]
    BY <1>7, <1>9 DEF Stands
  <2>3. DOMAIN Listed = 1 .. Len(Listed)
    BY <2>1
  <2>4. QED  BY <1>3, <2>2, <2>3 DEF Places
<1>10. QED  BY <1>1, <1>5, <1>6, <1>7, <1>8, <1>9

LEMMA DuesFit ==
    ASSUME Inv, Flying, NEW k
    PROVE  /\ IsFiniteSet(Dues(call, k)) /\ Cardinality(Dues(call, k)) <= Most(k)
           /\ Cardinality(Dues(call, k)) \in Nat
<1> DEFINE D == Dues(call, k)
           left(t) == call[t[1]].run[t[2]].left
           m(t) == CHOOSE x : Stands(x, left(t), Listed, Len(Listed))
           run(t) == call[t[1]].next - t[2]
           off(t) == FirstPiece(call[t[1]]) + t[2] * Per
           piece(t) == t[3] - off(t) + 1
           at(t) == Len(left(t)) - t[4] + 1
           slot(t) == <<<<<<t[1], run(t)>>, piece(t)>>, m(t)[at(t)]>>
           f == [t \in D |-> slot(t)]
<1>1. ASSUME NEW t \in D
      PROVE  /\ t = <<t[1], t[2], t[3], t[4]>> /\ t[1] \in Gets /\ t[2] \in Nat /\ t[3] \in Nat /\ t[4] \in Nat
             /\ run(t) \in 1 .. AHEAD /\ piece(t) \in 1 .. Per /\ off(t) \in Nat /\ call[t[1]].next \in Nat
             /\ Len(left(t)) \in Nat /\ at(t) \in 1 .. Len(left(t))
             /\ Stands(m(t), left(t), Listed, Len(Listed)) /\ m(t)[at(t)] \in Places(k)
  <2>1. /\ t \in Gets \X Nat \X Nat \X Nat /\ Owes(call[t[1]], t[2], t[3], t[4], k)
    BY DEF Dues
  <2>2. t = <<t[1], t[2], t[3], t[4]>> /\ t[1] \in Gets /\ t[2] \in Nat /\ t[3] \in Nat /\ t[4] \in Nat
    BY <2>1
  <2> DEFINE g == t[1]
             i == t[2]
             p == t[3]
             e == t[4]
  <2> HIDE DEF g, i, p, e
  <2>3. g \in Gets /\ i \in Nat /\ p \in Nat /\ e \in Nat /\ Owes(call[g], i, p, e, k)
    BY <2>1, <2>2 DEF g, i, p, e
  <2>4. /\ call[g].next - i \in 1 .. AHEAD
        /\ p - (FirstPiece(call[g]) + i * Per) + 1 \in 1 .. Per
        /\ FirstPiece(call[g]) + i * Per \in Nat /\ call[g].next \in Nat
        /\ Len(call[g].run[i].left) \in Nat
        /\ Len(call[g].run[i].left) - e + 1 \in 1 .. Len(call[g].run[i].left)
        /\ \E x : Stands(x, call[g].run[i].left, Listed, Len(Listed))
        /\ \A x : Stands(x, call[g].run[i].left, Listed, Len(Listed)) =>
                x[Len(call[g].run[i].left) - e + 1] \in Places(k)
    BY <2>3, DueFacts
  <2>5. /\ run(t) \in 1 .. AHEAD /\ piece(t) \in 1 .. Per /\ off(t) \in Nat /\ call[t[1]].next \in Nat
        /\ Len(left(t)) \in Nat /\ at(t) \in 1 .. Len(left(t))
        /\ \E x : Stands(x, left(t), Listed, Len(Listed))
        /\ \A x : Stands(x, left(t), Listed, Len(Listed)) => x[at(t)] \in Places(k)
    BY <2>4 DEF g, i, p, e
  <2>6. Stands(m(t), left(t), Listed, Len(Listed))
    BY <2>5, Zenon
  <2> HIDE DEF m, left
  <2>7. m(t)[at(t)] \in Places(k)
    BY <2>5, <2>6
  <2>8. QED  BY <2>2, <2>5, <2>6, <2>7
<1>2. ASSUME NEW t \in D PROVE slot(t) \in Box(k)
  <2> HIDE DEF m, left, run, piece, at, D
  <2>1. QED  BY <1>1, <1>2 DEF Box
<1>3. ASSUME NEW t \in D, NEW u \in D, slot(t) = slot(u) PROVE t = u
  <2> HIDE DEF D
  <2>1. t[1] = u[1] /\ run(t) = run(u) /\ piece(t) = piece(u) /\ m(t)[at(t)] = m(u)[at(u)]
    <3> HIDE DEF run, piece, m, at
    <3>1. QED  BY <1>3
  <2>2. t[2] = u[2]
    <3>1. call[t[1]].next - t[2] = call[t[1]].next - u[2]
      BY <2>1
    <3>2. t[2] \in Nat /\ u[2] \in Nat /\ call[t[1]].next \in Nat
      BY <1>1, <1>3
    <3>3. QED  BY <3>1, <3>2
  <2>3. t[3] = u[3]
    <3>1. off(t) = off(u)
      BY <2>1, <2>2
    <3>2. t[3] \in Nat /\ u[3] \in Nat /\ off(t) \in Nat
      BY <1>1, <1>3
    <3> HIDE DEF off
    <3>3. t[3] - off(t) + 1 = u[3] - off(t) + 1
      BY <2>1, <3>1
    <3>4. QED  BY <3>2, <3>3
  <2>4. left(t) = left(u)
    BY <2>1, <2>2
  <2>5. m(t) = m(u)
    BY <2>4
  <2>6. at(t) = at(u)
    <3> HIDE DEF m, at, left
    <3>1. at(t) \in 1 .. Len(left(t)) /\ at(u) \in 1 .. Len(left(t)) /\ m(t)[at(t)] = m(t)[at(u)]
      BY <1>1, <1>3, <2>1, <2>4, <2>5
    <3>2. Stands(m(t), left(t), Listed, Len(Listed))
      BY <1>1, <1>3
    <3>3. QED  BY <3>1, <3>2 DEF Stands
  <2>7. t[4] = u[4]
    <3>1. Len(left(t)) - t[4] + 1 = Len(left(t)) - u[4] + 1
      BY <2>4, <2>6
    <3>2. t[4] \in Nat /\ u[4] \in Nat /\ Len(left(t)) \in Nat
      BY <1>1, <1>3
    <3> HIDE DEF left
    <3>3. QED  BY <3>1, <3>2
  <2>8. QED  BY <1>1, <1>3, <2>1, <2>2, <2>3, <2>7
<1> HIDE DEF slot, D
<1>4. f \in Injection(D, Box(k))
  <2>1. f \in [D -> Box(k)]
    BY <1>2
  <2>2. \A t, u \in D : f[t] = f[u] => t = u
    BY <1>3
  <2> HIDE DEF f
  <2>3. QED  BY <2>1, <2>2 DEF Injection, IsInjective
<1> HIDE DEF f
<1>5. IsFiniteSet(D) /\ Cardinality(D) <= Most(k)
  BY <1>4, BoxFacts, FS_Injection
<1>6. Cardinality(D) \in Nat
  BY <1>5, FS_CardinalityType
<1>7. QED  BY <1>5, <1>6 DEF D

(* A strike for each piece of S, none of which is due any more. *)
LEMMA DuesPaid ==
    ASSUME NEW D, IsFiniteSet(D), NEW E, E \subseteq D, NEW g, NEW i, NEW n, NEW S, IsFiniteSet(S),
           \A p \in S : <<g, i, p, n>> \in D /\ <<g, i, p, n>> \notin E
    PROVE  Cardinality(E) \in Nat /\ Cardinality(S) \in Nat /\ Cardinality(E) + Cardinality(S) <= Cardinality(D)
<1> DEFINE f == [p \in S |-> <<g, i, p, n>>]
           T == D \ E
<1>1. IsFiniteSet(E) /\ IsFiniteSet(T)
  BY FS_Subset
<1>2. f \in Injection(S, T)
  <2>1. f \in [S -> T]
    OBVIOUS
  <2>2. \A p, q \in S : f[p] = f[q] => p = q
    OBVIOUS
  <2> HIDE DEF f, T
  <2>3. QED  BY <2>1, <2>2 DEF Injection, IsInjective
<1> HIDE DEF f
<1>3. Cardinality(S) <= Cardinality(T)
  BY <1>1, <1>2, FS_Injection
<1>4. E \cup T = D /\ E \cap T = {}
  OBVIOUS
<1> HIDE DEF T
<1>5. Cardinality(D) = Cardinality(E) + Cardinality(T) - 0
  BY <1>1, <1>4, FS_Union, FS_EmptySet
<1>6. Cardinality(E) \in Nat /\ Cardinality(S) \in Nat /\ Cardinality(T) \in Nat
  BY <1>1, FS_CardinalityType
<1>7. QED  BY <1>3, <1>5, <1>6

(* An answer: strikes that were due are given, and no others become due. *)
LEMMA AnswerDebt ==
    ASSUME Inv, Flying, Debt, NEW g \in Gets, NEW i \in 0 .. call[g].next - 1, NEW r, r = call[g].run[i], NEW new,
           SetRun(g, i, new), NEW S, IsFiniteSet(S), S \subseteq Nat, Note(Asks(g, i), Cardinality(S)),
           r.st = "fetching",
           \A p, e, k : Due(new, RunPieces(call[g], i), p, e, k) => Due(r, RunPieces(call[g], i), p, e, k),
           \A p \in S : /\ Due(r, RunPieces(call[g], i), p, Len(r.left), r.left[1])
                        /\ ~Due(new, RunPieces(call[g], i), p, Len(r.left), r.left[1])
    PROVE  Debt'
<1> DEFINE c == call[g]
           h == r.left[1]
           n == Len(r.left)
           run == [c.run EXCEPT ![i] = new]
           d == [c EXCEPT !.run = run]
<1>1. /\ Shape(c, c.run) /\ Runs(c) /\ c.next \in Nat /\ call = [j \in Gets |-> call[j]]
  BY AtGet DEF Inv
<1>2. call' = [call EXCEPT ![g] = d]
  BY <1>1 DEF SetRun, Shape
<1>3. Running(r, RunPieces(c, i))
  BY DEF Flying, Flight
<1>4. n \in Nat /\ n >= 1 /\ Asks(g, i) = h /\ h \in Kinds
  BY <1>3, RunningFacts DEF Asks
<1> HIDE DEF c, n
<1>5. \A j \in 0 .. c.next - 1 : run[j] = IF j = i THEN new ELSE c.run[j]
  BY <1>1 DEF Runs
<1> HIDE DEF run
<1>6. d.from = c.from /\ d.to = c.to /\ d.next = c.next /\ d.run = run
  BY <1>1 DEF Shape
<1> HIDE DEF d
<1>7. \A j : RunPieces(d, j) = RunPieces(c, j)
  BY <1>6, SameRange
<1>8. \A j, p, e, k : Owes(d, j, p, e, k) => Owes(c, j, p, e, k)
  BY <1>5, <1>6, <1>7 DEF Owes, c
<1>9. \A a \in Gets : call'[a] = IF a = g THEN d ELSE call[a]
  BY <1>1, <1>2
<1>10. ASSUME NEW k PROVE Dues(call', k) \subseteq Dues(call, k)
  <2>1. ASSUME NEW t \in Gets \X Nat \X Nat \X Nat, Owes(call'[t[1]], t[2], t[3], t[4], k)
        PROVE  Owes(call[t[1]], t[2], t[3], t[4], k)
    <3>1. t[1] \in Gets
      OBVIOUS
    <3>2. QED  BY <1>8, <1>9, <2>1, <3>1 DEF c
  <2>2. QED  BY <2>1 DEF Dues
<1>11. ASSUME NEW p \in S PROVE <<g, i, p, n>> \in Dues(call, h) /\ <<g, i, p, n>> \notin Dues(call', h)
  <2> DEFINE t == <<g, i, p, n>>
  <2>1. t \in Gets \X Nat \X Nat \X Nat /\ t[1] = g /\ t[2] = i /\ t[3] = p /\ t[4] = n
    BY <1>1, <1>4 DEF c
  <2>2. Owes(c, i, p, n, h)
    BY DEF Owes, c, n
  <2>3. ~Owes(d, i, p, n, h)
    BY <1>5, <1>6, <1>7 DEF Owes, c, n
  <2>4. call'[g] = d
    BY <1>9
  <2> HIDE DEF t
  <2>5. QED  BY <2>1, <2>2, <2>3, <2>4 DEF Dues, c, t
<1>12. ASSUME NEW k
       PROVE  /\ IsFiniteSet(Dues(call, k)) /\ Cardinality(Dues(call, k)) <= Most(k)
              /\ Cardinality(Dues(call, k)) \in Nat /\ Most(k) \in Nat
  BY DuesFit, BoxFacts
<1>13. /\ Cardinality(Dues(call', h)) \in Nat /\ Cardinality(S) \in Nat
       /\ Cardinality(Dues(call', h)) + Cardinality(S) <= Cardinality(Dues(call, h))
  <2> DEFINE D == Dues(call, h)
             E == Dues(call', h)
  <2>1. IsFiniteSet(D) /\ E \subseteq D /\ \A p \in S : <<g, i, p, n>> \in D /\ <<g, i, p, n>> \notin E
    BY <1>10, <1>11, <1>12
  <2> HIDE DEF D, E, n
  <2>2. Cardinality(E) \in Nat /\ Cardinality(S) \in Nat /\ Cardinality(E) + Cardinality(S) <= Cardinality(D)
    BY <2>1, DuesPaid
  <2>3. QED  BY <2>2 DEF D, E
<1>14. lies \in [Kinds -> Nat]
  BY DEF Debt
<1>15. lies' = [lies EXCEPT ![h] = lies[h] + Cardinality(S)]
  BY <1>4, <1>14 DEF Note
<1> HIDE DEF h
<1>16. lies' \in [Kinds -> Nat] /\ \A k \in Kinds : lies'[k] = IF k = h THEN lies[h] + Cardinality(S) ELSE lies[k]
  BY <1>4, <1>13, <1>14, <1>15
<1>17. ASSUME HonestListed, NEW k \in Kinds \ Honest, lies'[k] > 0
       PROVE  lies'[k] + Cardinality(Dues(call', k)) <= Most(k)
  <2>1. lies[k] \in Nat
    BY <1>14
  <2>2. lies[k] > 0 => lies[k] + Cardinality(Dues(call, k)) <= Most(k)
    BY <1>17 DEF Debt
  <2> DEFINE D == Cardinality(Dues(call, k))
             E == Cardinality(Dues(call', k))
  <2>3. D \in Nat /\ D <= Most(k) /\ Most(k) \in Nat
    BY <1>12
  <2>4. CASE k = h
    <3>1. E \in Nat /\ Cardinality(S) \in Nat /\ E + Cardinality(S) <= D
      BY <1>13, <2>4
    <3>2. lies'[k] = lies[k] + Cardinality(S)
      BY <1>16, <2>4
    <3>3. (lies[k] > 0 => lies[k] + D <= Most(k)) /\ lies[k] \in Nat
      BY <2>1, <2>2
    <3> DEFINE s == Cardinality(S)
               l == lies[k]
               M == Most(k)
    <3> HIDE DEF D, E, s, l, M
    <3>4. l + s + E <= M
      BY <2>3, <3>1, <3>3 DEF s, l, M
    <3>5. QED  BY <3>2, <3>4 DEF s, l, M, E
  <2>5. CASE k # h
    <3>1. lies'[k] = lies[k]
      BY <1>16, <2>5
    <3>2. E \in Nat /\ E <= D
      <4>1. IsFiniteSet(Dues(call, k)) /\ Dues(call', k) \subseteq Dues(call, k)
        BY <1>10, <1>12
      <4>2. QED  BY <4>1, FS_Subset, FS_CardinalityType
    <3>3. lies[k] + D <= Most(k)
      BY <1>17, <2>2, <3>1
    <3> HIDE DEF D, E
    <3>4. lies[k] + E <= Most(k)
      BY <2>1, <2>3, <3>2, <3>3
    <3>5. QED  BY <3>1, <3>4 DEF E
  <2>6. QED  BY <2>4, <2>5
<1>18. QED  BY <1>16, <1>17 DEF Debt

(* A step of a generator: no strike becomes due for a holder that has one. *)
LEMMA CallDebt ==
    ASSUME Inv, Flying, Debt, NEW g \in Gets, NEW d, call' = [call EXCEPT ![g] = d], UNCHANGED lies,
           HonestListed => \A i, p, e, k : Demoted(k) /\ Owes(d, i, p, e, k) => Owes(call[g], i, p, e, k)
    PROVE  Debt'
<1>1. \A a \in Gets : call'[a] = IF a = g THEN d ELSE call[a]
  BY DEF Inv
<1>2. ASSUME HonestListed, NEW k \in Kinds \ Honest, lies[k] > 0
      PROVE  lies[k] + Cardinality(Dues(call', k)) <= Most(k)
  <2>1. Demoted(k)
    BY <1>2 DEF Demoted
  <2>2. ASSUME NEW t \in Gets \X Nat \X Nat \X Nat, Owes(call'[t[1]], t[2], t[3], t[4], k)
        PROVE  Owes(call[t[1]], t[2], t[3], t[4], k)
    <3>1. t[1] \in Gets
      OBVIOUS
    <3>2. QED  BY <1>1, <1>2, <2>1, <2>2, <3>1
  <2>3. Dues(call', k) \subseteq Dues(call, k)
    BY <2>2 DEF Dues
  <2> DEFINE D == Cardinality(Dues(call, k))
             E == Cardinality(Dues(call', k))
  <2>4. IsFiniteSet(Dues(call, k)) /\ D \in Nat /\ Most(k) \in Nat
    BY DuesFit, BoxFacts
  <2>5. E \in Nat /\ E <= D
    BY <2>3, <2>4, FS_Subset, FS_CardinalityType
  <2>6. lies[k] \in Nat /\ lies[k] + D <= Most(k)
    BY <1>2 DEF Debt
  <2> HIDE DEF D, E
  <2>7. lies[k] + E <= Most(k)
    BY <2>4, <2>5, <2>6
  <2>8. QED  BY <2>7 DEF E
<1>3. QED  BY <1>2 DEF Debt

-----------------------------------------------------------------------------
(* The steps of the generator and the strikes that are due. *)

LEMMA CallFlies ==
    ASSUME Inv, Flying, NEW g \in Gets, NEW d, call' = [call EXCEPT ![g] = d], Flight(d)
    PROVE  Flying'
<1>1. \A a \in Gets : call'[a] = IF a = g THEN d ELSE call[a]
  BY DEF Inv
<1>2. QED  BY <1>1 DEF Flying

(* The runs being fetched are among the ones in line. *)
Abreast(c) ==
    \A i \in 0 .. c.next - 1 :
        c.run[i].st = "fetching" => Running(c.run[i], RunPieces(c, i)) /\ i >= c.next - Len(c.inflight)

LEMMA BeginRuns ==
    ASSUME NEW c, Ranged(c), NEW i \in Nat, i < RunCount(c)
    PROVE  /\ Begin(c, i).st = "fetching" => Running(Begin(c, i), RunPieces(c, i))
           /\ HonestListed /\ HonestUnblamed =>
                \A p, e, k : Demoted(k) => ~Due(Begin(c, i), RunPieces(c, i), p, e, k)
<1> DEFINE left == Rank
           pieces == RunPieces(c, i)
           asked == Asked(pieces, left)
           st == IF left = <<>> THEN "failed" ELSE "fetching"
           none == NoPieces
           b == Begin(c, i)
           n == Len(left)
<1>1. b = [st |-> st, left |-> left, asked |-> asked, got |-> none]
  BY DEF Begin
<1>2. DOMAIN none = {}
  BY DEF NoPieces
<1>3. left \in Seq(Kinds) /\ \E m : Stands(m, left, Listed, Len(Listed))
  BY RankFacts
<1>4. asked = IF left # <<>> /\ Head(left) \in ByPiece THEN pieces ELSE {}
  BY DEF Asked
<1>5. HonestListed /\ HonestUnblamed =>
        \A j \in 1 .. n : Demoted(left[j]) => \E l \in 1 .. j - 1 : left[l] \in Honest
  BY RankFacts
<1>6. pieces # {}
  BY RunPiecesFacts
<1>7. st = "fetching" <=> left # <<>>
  OBVIOUS
<1> HIDE DEF left, pieces, asked, st, none, b
<1>8. b.st = st /\ b.left = left /\ b.asked = asked /\ b.got = none
  BY <1>1
<1>9. ASSUME b.st = "fetching" PROVE Running(b, pieces)
  <2>1. left # <<>>
    BY <1>7, <1>8, <1>9
  <2>2. Head(left) = left[1]
    BY <1>3, <2>1, HeadTailProperties
  <2>3. /\ asked \subseteq pieces /\ (asked # {} => left[1] \in ByPiece)
        /\ left[1] \in ByPiece \cap Honest => pieces \subseteq asked \cup DOMAIN none
    BY <1>4, <2>1, <2>2
  <2>4. ~(pieces \subseteq DOMAIN none)
    BY <1>2, <1>6
  <2>5. QED  BY <1>3, <1>8, <2>1, <2>3, <2>4 DEF Running
<1>10. ASSUME HonestListed, HonestUnblamed, NEW p, NEW e, NEW k, Demoted(k), Due(b, pieces, p, e, k) PROVE FALSE
  <2>1. n \in Nat
    BY <1>3
  <2>2. e \in 1 .. n /\ left[n - e + 1] = k /\ \A j \in 1 .. n - e : left[j] \notin Honest
    BY <1>8, <1>10 DEF Due
  <2> HIDE DEF n
  <2>3. n - e + 1 \in 1 .. n /\ (n - e + 1) - 1 = n - e
    BY <2>1, <2>2
  <2>4. PICK l \in 1 .. (n - e + 1) - 1 : left[l] \in Honest
    BY <1>5, <1>10, <2>2, <2>3
  <2>5. QED  BY <2>2, <2>3, <2>4
<1>11. QED  BY <1>9, <1>10 DEF b, pieces

LEMMA PumpBegins ==
    ASSUME NEW c, Shape(c, c.run), Ranged(c), InOrder(c), Runs(c), NEW d, d = Pump(c)
    PROVE  \A i \in c.next .. d.next - 1 : d.run[i] = Begin(c, i)
<1> DEFINE room == AHEAD - Len(c.inflight)
           last == IF c.next + room < RunCount(c) THEN c.next + room ELSE RunCount(c)
           fresh == c.next .. last - 1
           flight == c.inflight \o [k \in 1 .. last - c.next |-> c.next + k - 1]
           run == [i \in DOMAIN c.run \cup fresh |-> IF i \in fresh THEN Begin(c, i) ELSE c.run[i]]
<1>1. d = [c EXCEPT !.next = last, !.inflight = flight, !.run = run]
  BY DEF Pump, Shape
<1>2. \A i \in fresh : run[i] = Begin(c, i)
  OBVIOUS
<1> HIDE DEF last, flight, run
<1>3. d.next = last /\ d.run = run
  BY <1>1 DEF Shape
<1>4. QED  BY <1>2, <1>3

(* The window is filled up: AHEAD runs at most, and the new ones ask nobody    *)
(* that has a strike before somebody honest.                                   *)
LEMMA PumpFlies ==
    ASSUME NEW c, Shape(c, c.run), Ranged(c), InOrder(c), Runs(c), Abreast(c), NEW d, d = Pump(c)
    PROVE  /\ Abreast(d)
           /\ HonestListed /\ HonestUnblamed =>
                \A i, p, e, k : Demoted(k) /\ Owes(d, i, p, e, k) => Owes(c, i, p, e, k)
<1>1. /\ Shape(d, d.run) /\ InOrder(d) /\ d.from = c.from /\ d.to = c.to
      /\ d.next >= c.next /\ d.next - Len(d.inflight) = c.next - Len(c.inflight)
      /\ \A i \in 0 .. c.next - 1 : d.run[i] = c.run[i]
  BY PumpFacts
<1>2. \A i \in c.next .. d.next - 1 : d.run[i] = Begin(c, i)
  BY PumpBegins
<1>3. /\ c.next \in Nat /\ d.next \in Nat /\ Len(c.inflight) \in Nat /\ Len(d.inflight) \in Nat
      /\ RunCount(c) \in Nat /\ RunCount(d) = RunCount(c) /\ \A i : RunPieces(d, i) = RunPieces(c, i)
  BY <1>1, Fields, RunFacts, SameRange
<1>4. d.next <= RunCount(c)
  BY <1>1, <1>3 DEF InOrder
<1>5. ASSUME NEW i \in 0 .. d.next - 1
      PROVE  \/ i \in 0 .. c.next - 1
             \/ i \in c.next .. d.next - 1 /\ i \in Nat /\ i < RunCount(c) /\ i >= c.next - Len(c.inflight)
  BY <1>3, <1>4
<1>6. ASSUME NEW i \in 0 .. d.next - 1, d.run[i].st = "fetching"
      PROVE  Running(d.run[i], RunPieces(c, i)) /\ i >= d.next - Len(d.inflight)
  <2>1. CASE i \in 0 .. c.next - 1
    <3>1. d.run[i] = c.run[i]
      BY <1>1, <2>1
    <3>2. Running(c.run[i], RunPieces(c, i)) /\ i >= c.next - Len(c.inflight)
      BY <1>6, <2>1, <3>1 DEF Abreast
    <3>3. QED  BY <1>1, <3>1, <3>2
  <2>2. CASE i \in c.next .. d.next - 1 /\ i \in Nat /\ i < RunCount(c) /\ i >= c.next - Len(c.inflight)
    <3>1. d.run[i] = Begin(c, i)
      BY <1>2, <2>2
    <3>2. Running(d.run[i], RunPieces(c, i))
      BY <1>6, <2>2, <3>1, BeginRuns
    <3>3. QED  BY <1>1, <2>2, <3>2
  <2>3. QED  BY <1>5, <2>1, <2>2
<1>7. ASSUME HonestListed, HonestUnblamed, NEW i, NEW p, NEW e, NEW k, Demoted(k), Owes(d, i, p, e, k)
      PROVE  Owes(c, i, p, e, k)
  <2>1. i \in 0 .. d.next - 1 /\ Due(d.run[i], RunPieces(c, i), p, e, k)
    BY <1>3, <1>7 DEF Owes
  <2>2. CASE i \in 0 .. c.next - 1
    BY <1>1, <2>1, <2>2 DEF Owes
  <2>3. CASE i \in c.next .. d.next - 1 /\ i \in Nat /\ i < RunCount(c)
    <3>1. d.run[i] = Begin(c, i)
      BY <1>2, <2>3
    <3>2. QED  BY <1>7, <2>1, <2>3, <3>1, BeginRuns
  <2>4. QED  BY <1>5, <2>1, <2>2, <2>3
<1>8. QED  BY <1>3, <1>6, <1>7 DEF Abreast

LEMMA SameOwes ==
    ASSUME NEW c, NEW d, d.from = c.from, d.to = c.to, d.next = c.next, d.run = c.run
    PROVE  \A i, p, e, k : Owes(d, i, p, e, k) => Owes(c, i, p, e, k)
BY SameRange DEF Owes

LEMMA ShiftFlies ==
    ASSUME NEW c, Shape(c, c.run), Ranged(c), InOrder(c), Abreast(c)
    PROVE  /\ Flight(Shift(c))
           /\ \A i, p, e, k : Owes(Shift(c), i, p, e, k) => Owes(c, i, p, e, k)
<1>1. /\ c.next \in Nat /\ c.inflight \in Seq(Nat) /\ Len(c.inflight) \in Nat /\ AHEAD \in Nat
  BY Fields, Sizes
<1>2. Len(c.inflight) <= AHEAD /\ InLine(c.inflight, c.next)
  BY DEF InOrder
<1>3. ASSUME NEW i \in 0 .. c.next - 1, c.run[i].st = "fetching"
      PROVE  Running(c.run[i], RunPieces(c, i)) /\ i >= c.next - AHEAD /\ i >= c.next - Len(c.inflight)
  <2>1. Running(c.run[i], RunPieces(c, i)) /\ i >= c.next - Len(c.inflight)
    BY <1>3 DEF Abreast
  <2>2. QED  BY <1>1, <1>2, <2>1
<1>4. CASE c.inflight = <<>>
  <2> DEFINE d == [c EXCEPT !.pc = "done"]
  <2>1. Shift(c) = d
    BY <1>4 DEF Shift
  <2>2. /\ d.pc = "done" /\ d.from = c.from /\ d.to = c.to /\ d.next = c.next /\ d.run = c.run
    BY DEF Shape
  <2> HIDE DEF d
  <2>3. \A i : RunPieces(d, i) = RunPieces(c, i)
    BY <2>2, SameRange
  <2>4. Flight(d)
    BY <1>3, <2>2, <2>3 DEF Flight
  <2>5. QED  BY <2>1, <2>2, <2>4, SameOwes
<1>5. CASE c.inflight # <<>>
  <2> DEFINE head == Head(c.inflight)
             tail == Tail(c.inflight)
             d == [c EXCEPT !.pc = "await", !.cur = head, !.inflight = tail]
  <2>1. Shift(c) = d
    BY <1>5 DEF Shift, Shape
  <2>2. /\ head \in Nat /\ Len(tail) = Len(c.inflight) - 1 /\ head = c.next - Len(c.inflight)
    BY <1>1, <1>2, <1>5, InLineFirst
  <2> HIDE DEF head, tail
  <2>3. /\ d.pc = "await" /\ d.from = c.from /\ d.to = c.to /\ d.next = c.next /\ d.inflight = tail
        /\ d.cur = head /\ d.run = c.run
    BY DEF Shape
  <2> HIDE DEF d
  <2>4. \A i : RunPieces(d, i) = RunPieces(c, i)
    BY <2>3, SameRange
  <2>5. Len(tail) < AHEAD
    BY <1>1, <1>2, <2>2
  <2>6. ASSUME NEW i \in 0 .. head - 1 PROVE c.run[i].st # "fetching"
    <3>1. i \in 0 .. c.next - 1 /\ ~(i >= c.next - Len(c.inflight))
      BY <1>1, <2>2
    <3>2. QED  BY <1>3, <3>1
  <2>7. Flight(d)
    BY <1>3, <2>3, <2>4, <2>5, <2>6 DEF Flight
  <2>8. QED  BY <2>1, <2>3, <2>7, SameOwes
<1>6. QED  BY <1>4, <1>5

(* The strikes given and those still to come are bounded. *)
FairBlame == Flying /\ Debt

LEMMA StartFair ==
    ASSUME Inv, Blame, FairBlame, NEW g \in Gets, Start(g)
    PROVE  FairBlame'
<1> DEFINE c == call[g]
           d == Pump(c)
           e == Shift(d)
<1>1. /\ Shape(c, c.run) /\ Ranged(c) /\ InOrder(c) /\ Runs(c) /\ Place(c)
  BY AtGet
<1>2. c.pc = "idle" /\ call' = [call EXCEPT ![g] = e] /\ UNCHANGED lies
  BY DEF Start
<1> HIDE DEF c
<1>3. c.next = 0
  BY <1>1, <1>2 DEF Place
<1>4. Abreast(c)
  BY <1>3 DEF Abreast
<1>5. Shape(d, d.run) /\ InOrder(d) /\ d.from = c.from /\ d.to = c.to
  BY <1>1, PumpFacts
<1>6. /\ Abreast(d)
      /\ HonestListed => \A i, p, n, k : Demoted(k) /\ Owes(d, i, p, n, k) => Owes(c, i, p, n, k)
  BY <1>1, <1>4, PumpFlies DEF Blame
<1> HIDE DEF d
<1>7. Ranged(d)
  BY <1>1, <1>5 DEF Ranged
<1>8. Flight(e) /\ \A i, p, n, k : Owes(e, i, p, n, k) => Owes(d, i, p, n, k)
  BY <1>5, <1>6, <1>7, ShiftFlies
<1> HIDE DEF e
<1>9. HonestListed => \A i, p, n, k : Demoted(k) /\ Owes(e, i, p, n, k) => Owes(call[g], i, p, n, k)
  BY <1>6, <1>8 DEF c
<1>10. QED  BY <1>2, <1>8, <1>9, CallFlies, CallDebt DEF FairBlame

(* A get that stops. *)
LEMMA StopFair ==
    ASSUME Inv, FairBlame, NEW g \in Gets, NEW pc \in {"failed", "left"},
           call' = [call EXCEPT ![g] = [call[g] EXCEPT !.pc = pc]], UNCHANGED lies
    PROVE  FairBlame'
<1> DEFINE c == call[g]
           d == [c EXCEPT !.pc = pc]
<1>1. Shape(c, c.run)
  BY AtGet
<1>2. Flight(c)
  BY DEF FairBlame, Flying
<1> HIDE DEF c
<1>3. d.pc = pc /\ d.from = c.from /\ d.to = c.to /\ d.next = c.next /\ d.run = c.run
  BY <1>1 DEF Shape
<1>4. call' = [call EXCEPT ![g] = d]
  BY DEF c
<1> HIDE DEF d
<1>5. Flight(d)
  BY <1>2, <1>3, SameRange DEF Flight
<1>6. \A i, p, e, k : Owes(d, i, p, e, k) => Owes(call[g], i, p, e, k)
  BY <1>3, SameOwes DEF c
<1>7. QED  BY <1>4, <1>5, <1>6, CallFlies, CallDebt DEF FairBlame

LEMMA AwaitFair ==
    ASSUME Inv, Blame, FairBlame, NEW g \in Gets, Await(g)
    PROVE  FairBlame'
<1> DEFINE c == call[g]
           d == Pump(c)
           p == Least(RunPieces(c, c.cur))
           e == [d EXCEPT !.pc = "yield", !.piece = p]
<1>1. /\ Shape(c, c.run) /\ Ranged(c) /\ InOrder(c) /\ Runs(c) /\ Place(c)
      /\ c.next \in Nat /\ c.cur \in Nat /\ Len(c.inflight) \in Nat
  BY AtGet
<1>2. CASE c.run[c.cur].st = "failed"
  <2>1. call' = [call EXCEPT ![g] = [c EXCEPT !.pc = "failed"]] /\ UNCHANGED lies
    BY <1>2 DEF Await
  <2>2. QED  BY <2>1, StopFair
<1>3. CASE c.run[c.cur].st # "failed"
  <2>1. c.pc = "await" /\ c.run[c.cur].st = "ok" /\ call' = [call EXCEPT ![g] = e] /\ UNCHANGED lies
    BY <1>3 DEF Await
  <2>2. Flight(c)
    BY DEF FairBlame, Flying
  <2> HIDE DEF c
  <2>3. c.cur = c.next - Len(c.inflight) - 1
    BY <1>1, <2>1 DEF Place
  <2>4. Abreast(c)
    <3> SUFFICES ASSUME NEW i \in 0 .. c.next - 1, c.run[i].st = "fetching"
                 PROVE  Running(c.run[i], RunPieces(c, i)) /\ i >= c.next - Len(c.inflight)
      BY DEF Abreast
    <3>1. Running(c.run[i], RunPieces(c, i)) /\ i \notin 0 .. c.cur - 1 /\ i # c.cur
      BY <2>1, <2>2 DEF Flight
    <3>2. QED  BY <1>1, <2>3, <3>1
  <2>5. /\ Shape(d, d.run) /\ InOrder(d) /\ d.pc = c.pc /\ d.from = c.from /\ d.to = c.to /\ d.cur = c.cur
        /\ d.next >= c.next /\ \A i \in 0 .. c.next - 1 : d.run[i] = c.run[i]
    BY <1>1, PumpFacts
  <2>6. /\ Abreast(d)
        /\ HonestListed => \A i, q, n, k : Demoted(k) /\ Owes(d, i, q, n, k) => Owes(c, i, q, n, k)
    BY <1>1, <2>4, PumpFlies DEF Blame
  <2> HIDE DEF d, p
  <2>7. d.next \in Nat /\ Len(d.inflight) \in Nat /\ AHEAD \in Nat /\ Len(d.inflight) <= AHEAD
    BY <2>5, Fields, Sizes DEF InOrder
  <2>8. e.pc = "yield" /\ e.from = d.from /\ e.to = d.to /\ e.next = d.next /\ e.cur = d.cur /\ e.run = d.run
    BY <2>5 DEF Shape
  <2> HIDE DEF e
  <2>9. \A i : RunPieces(e, i) = RunPieces(d, i)
    BY <2>8, SameRange
  <2>10. ASSUME NEW i \in 0 .. d.next - 1, d.run[i].st = "fetching"
         PROVE  Running(d.run[i], RunPieces(d, i)) /\ i >= d.next - AHEAD
    <3>1. Running(d.run[i], RunPieces(d, i)) /\ i >= d.next - Len(d.inflight)
      BY <2>6, <2>10 DEF Abreast
    <3>2. QED  BY <2>7, <3>1
  <2>11. ASSUME NEW i \in 0 .. c.cur - 1 PROVE d.run[i].st # "fetching"
    <3>1. c.run[i].st # "fetching"
      BY <2>1, <2>2 DEF Flight
    <3>2. i \in 0 .. c.next - 1
      BY <1>1, <2>3
    <3>3. QED  BY <2>5, <3>1, <3>2
  <2>12. Flight(e)
    BY <2>5, <2>8, <2>9, <2>10, <2>11 DEF Flight
  <2>13. HonestListed => \A i, q, n, k : Demoted(k) /\ Owes(e, i, q, n, k) => Owes(call[g], i, q, n, k)
    BY <2>6, <2>8, SameOwes DEF c
  <2>14. QED  BY <2>1, <2>12, <2>13, CallFlies, CallDebt DEF FairBlame
<1>4. QED  BY <1>2, <1>3

LEMMA PullOut ==
    ASSUME Inv, NEW g \in Gets, Pull(g), NEW c, c = call[g]
    PROVE  c.out \o CutTo(c, c.piece, c.run[c.cur].got[c.piece]) \in Seq(Int)
<1> DEFINE buf == c.run[c.cur].got[c.piece]
           cut == CutTo(c, c.piece, buf)
<1>1. /\ Ranged(c) /\ InOrder(c) /\ Runs(c) /\ Place(c) /\ c.out \in Seq(Int)
      /\ c.next \in Nat /\ c.cur \in Nat /\ c.piece \in Nat /\ Len(c.inflight) \in Nat
  BY AtGet
<1>2. c.pc = "yield"
  BY DEF Pull
<1>3. /\ c.cur = c.next - Len(c.inflight) - 1 /\ c.run[c.cur].st = "ok" /\ c.piece \in RunPieces(c, c.cur)
      /\ \A i \in c.cur .. c.next - 1 : Complete(c.run[i], RunPieces(c, i))
  BY <1>1, <1>2 DEF Place
<1>4. c.cur < RunCount(c) /\ c.cur \in 0 .. c.next - 1 /\ c.cur \in c.cur .. c.next - 1
  <2>1. c.next <= RunCount(c) /\ RunCount(c) \in Nat
    BY <1>1, RunFacts DEF InOrder
  <2>2. QED  BY <1>1, <1>3, <2>1
<1>5. buf = PieceBytes(c.piece)
  <2>1. Kept(c.run[c.cur]) /\ Complete(c.run[c.cur], RunPieces(c, c.cur))
    BY <1>1, <1>3, <1>4 DEF Runs
  <2>2. c.piece \in DOMAIN c.run[c.cur].got
    BY <1>3, <2>1 DEF Complete
  <2>3. QED  BY <2>1, <2>2 DEF Kept
<1>6. c.piece >= FirstPiece(c) /\ c.piece <= LastPiece(c)
  BY <1>1, <1>3, <1>4, RunPiecesFacts
<1>7. cut = CutTo(c, c.piece, PieceBytes(c.piece))
  BY <1>5
<1> HIDE DEF cut, buf
<1>8. cut \in Seq(Int)
  BY <1>1, <1>6, <1>7, CutFacts
<1>9. c.out \o cut \in Seq(Int)
  BY <1>1, <1>8, ConcatProperties
<1>10. QED  BY <1>9 DEF cut, buf

LEMMA PullFair ==
    ASSUME Inv, FairBlame, NEW g \in Gets, Pull(g)
    PROVE  FairBlame'
<1> DEFINE c == call[g]
           all == c.out \o CutTo(c, c.piece, c.run[c.cur].got[c.piece])
           more == [c EXCEPT !.out = all]
           forth == [more EXCEPT !.piece = @ + 1]
           through == [more EXCEPT !.run[c.cur].got = NoPieces]
           e == Shift(through)
<1>1. /\ Shape(c, c.run) /\ Ranged(c) /\ InOrder(c) /\ Runs(c) /\ Place(c)
      /\ c.next \in Nat /\ c.cur \in Nat /\ Len(c.inflight) \in Nat
  BY AtGet
<1>2. /\ c.pc = "yield" /\ UNCHANGED lies
      /\ call' = [call EXCEPT ![g] = IF c.piece + 1 \in RunPieces(c, c.cur) THEN forth ELSE e]
  BY DEF Pull
<1>3. Flight(c)
  BY DEF FairBlame, Flying
<1> HIDE DEF c
<1>4. c.cur = c.next - Len(c.inflight) - 1 /\ c.run[c.cur].st = "ok"
  BY <1>1, <1>2 DEF Place
<1> HIDE DEF all
<1>5. CASE c.piece + 1 \in RunPieces(c, c.cur)
  <2>1. /\ forth.pc = "yield" /\ forth.from = c.from /\ forth.to = c.to /\ forth.next = c.next
        /\ forth.cur = c.cur /\ forth.run = c.run
    BY <1>1, <1>2 DEF Shape
  <2> HIDE DEF forth
  <2>2. Flight(forth)
    BY <1>2, <1>3, <2>1, SameRange DEF Flight
  <2>3. \A i, p, n, k : Owes(forth, i, p, n, k) => Owes(call[g], i, p, n, k)
    BY <2>1, SameOwes DEF c
  <2>4. QED  BY <1>2, <1>5, <2>2, <2>3, CallFlies, CallDebt DEF FairBlame
<1>6. CASE c.piece + 1 \notin RunPieces(c, c.cur)
  <2> DEFINE r == [c.run[c.cur] EXCEPT !.got = NoPieces]
             run == [c.run EXCEPT ![c.cur] = r]
             d == through
  <2>1. c.cur \in 0 .. c.next - 1 /\ c.run = [i \in 0 .. c.next - 1 |-> c.run[i]] /\ Kept(c.run[c.cur])
    <3>1. c.cur \in 0 .. c.next - 1
      BY <1>1, <1>4
    <3>2. QED  BY <1>1, <3>1 DEF Runs
  <2>2. r.st = "ok"
    BY <1>4, <2>1 DEF Kept, RunShape
  <2>3. d = [c EXCEPT !.out = all, !.run = run]
    BY <1>1, <2>1 DEF Shape
  <2> HIDE DEF r
  <2>4. \A i \in 0 .. c.next - 1 : run[i] = IF i = c.cur THEN r ELSE c.run[i]
    BY <2>1
  <2> HIDE DEF run
  <2>5. /\ d.from = c.from /\ d.to = c.to /\ d.next = c.next /\ d.inflight = c.inflight /\ d.run = run
    BY <1>1, <2>3 DEF Shape
  <2>6. Shape(d, d.run) /\ InOrder(d) /\ Ranged(d)
    <3>1. all \in Seq(Int)
      BY PullOut DEF c, all
    <3>2. Shape(d, d.run)
      BY <1>1, <2>3, <2>5, <3>1 DEF Shape
    <3> HIDE DEF d
    <3>3. InOrder(d) /\ Ranged(d)
      BY <1>1, <2>5, SameRange DEF InOrder, Ranged
    <3>4. QED  BY <3>2, <3>3
  <2> HIDE DEF d
  <2>7. \A i : RunPieces(d, i) = RunPieces(c, i)
    BY <2>5, SameRange
  <2>8. Abreast(d)
    <3> SUFFICES ASSUME NEW i \in 0 .. c.next - 1, run[i].st = "fetching"
                 PROVE  Running(run[i], RunPieces(c, i)) /\ i >= c.next - Len(c.inflight)
      BY <2>5, <2>7 DEF Abreast
    <3>1. i # c.cur /\ run[i] = c.run[i]
      BY <2>2, <2>4
    <3>2. Running(c.run[i], RunPieces(c, i)) /\ i \notin 0 .. c.cur - 1
      BY <1>2, <1>3, <3>1 DEF Flight
    <3>3. QED  BY <1>1, <1>4, <3>1, <3>2
  <2>9. Flight(Shift(d)) /\ \A i, p, n, k : Owes(Shift(d), i, p, n, k) => Owes(d, i, p, n, k)
    BY <2>6, <2>8, ShiftFlies
  <2>10. ASSUME NEW i, NEW p, NEW n, NEW k, Owes(d, i, p, n, k) PROVE Owes(c, i, p, n, k)
    <3>1. i \in 0 .. c.next - 1 /\ Due(run[i], RunPieces(c, i), p, n, k)
      BY <2>5, <2>7, <2>10 DEF Owes
    <3>2. run[i] = c.run[i]
      BY <2>2, <2>4, <3>1 DEF Due
    <3>3. QED  BY <3>1, <3>2 DEF Owes
  <2>11. call' = [call EXCEPT ![g] = Shift(d)]
    BY <1>2, <1>6 DEF d
  <2>12. \A i, p, n, k : Owes(Shift(d), i, p, n, k) => Owes(call[g], i, p, n, k)
    BY <2>9, <2>10 DEF c
  <2>13. QED  BY <1>2, <2>9, <2>11, <2>12, CallFlies, CallDebt DEF FairBlame
<1>7. QED  BY <1>5, <1>6

-----------------------------------------------------------------------------
(* The answers and the strikes that are due. *)

LEMMA RunFlies ==
    ASSUME Inv, Flying, NEW g \in Gets, NEW i \in 0 .. call[g].next - 1, call[g].run[i].st = "fetching",
           NEW new, SetRun(g, i, new), new.st = "fetching" => Running(new, RunPieces(call[g], i))
    PROVE  Flying'
<1> DEFINE c == call[g]
           run == [c.run EXCEPT ![i] = new]
           d == [c EXCEPT !.run = run]
<1>1. /\ Shape(c, c.run) /\ Runs(c) /\ Place(c) /\ c.next \in Nat /\ c.cur \in Nat /\ Len(c.inflight) \in Nat
      /\ call = [j \in Gets |-> call[j]]
  BY AtGet DEF Inv
<1>2. call' = [call EXCEPT ![g] = d]
  BY <1>1 DEF SetRun, Shape
<1>3. Flight(c) /\ c.run[i].st = "fetching" /\ (new.st = "fetching" => Running(new, RunPieces(c, i)))
  BY DEF Flying
<1>4. i \in 0 .. c.next - 1
  OBVIOUS
<1> HIDE DEF c
<1>5. \A j \in 0 .. c.next - 1 : run[j] = IF j = i THEN new ELSE c.run[j]
  BY <1>1 DEF Runs
<1> HIDE DEF run
<1>6. /\ d.pc = c.pc /\ d.from = c.from /\ d.to = c.to /\ d.next = c.next /\ d.cur = c.cur
      /\ d.inflight = c.inflight /\ d.run = run
  BY <1>1 DEF Shape
<1> HIDE DEF d
<1>7. \A j : RunPieces(d, j) = RunPieces(c, j)
  BY <1>6, SameRange
<1>8. ASSUME NEW j \in 0 .. c.next - 1, run[j].st = "fetching"
      PROVE  Running(run[j], RunPieces(c, j)) /\ j >= c.next - AHEAD
  BY <1>3, <1>5, <1>8 DEF Flight
<1>9. ASSUME c.pc \in {"await", "yield"}, NEW j \in 0 .. c.cur - 1 PROVE run[j].st # "fetching"
  <2>1. c.cur = c.next - Len(c.inflight) - 1
    BY <1>1, <1>9 DEF Place
  <2>2. j \in 0 .. c.next - 1
    BY <1>1, <2>1
  <2>3. c.run[j].st # "fetching"
    BY <1>3, <1>9 DEF Flight
  <2>4. QED  BY <1>3, <1>5, <2>2, <2>3
<1>10. Flight(d)
  BY <1>3, <1>6, <1>7, <1>8, <1>9 DEF Flight
<1>11. QED  BY <1>2, <1>10, CallFlies

LEMMA AtFetch ==
    ASSUME Inv, FairBlame, NEW g \in Gets, NEW i, Asking(g, i)
    PROVE  /\ i \in 0 .. call[g].next - 1 /\ i \in Nat /\ i < RunCount(call[g]) /\ Ranged(call[g])
           /\ call[g].run[i].st = "fetching" /\ Kept(call[g].run[i])
           /\ Running(call[g].run[i], RunPieces(call[g], i))
           /\ Asks(g, i) = call[g].run[i].left[1]
<1> DEFINE c == call[g]
<1>1. Ranged(c) /\ Runs(c) /\ InOrder(c) /\ c.next \in Nat
  BY AtGet
<1>2. i \in DOMAIN c.run /\ c.run[i].st = "fetching" /\ Kept(c.run[i])
  BY AtRun
<1>3. Flight(c)
  BY DEF FairBlame, Flying
<1> HIDE DEF c
<1>4. i \in 0 .. c.next - 1
  BY <1>1, <1>2 DEF Runs
<1>5. RunCount(c) \in Nat /\ c.next <= RunCount(c)
  BY <1>1, RunFacts DEF InOrder
<1>6. i \in Nat /\ i < RunCount(c)
  BY <1>1, <1>4, <1>5
<1>7. Running(c.run[i], RunPieces(c, i))
  BY <1>2, <1>3, <1>4 DEF Flight
<1>8. Head(c.run[i].left) = c.run[i].left[1]
  BY <1>7, RunningFacts
<1>9. QED  BY <1>1, <1>2, <1>4, <1>6, <1>7, <1>8 DEF c, Asks

(* A holder is through with a run, and struck for the pieces in S. *)
LEMMA AdvanceFair ==
    ASSUME Inv, FairBlame, NEW g \in Gets, NEW i, Asking(g, i), NEW r, r = call[g].run[i], NEW pieces,
           pieces = RunPieces(call[g], i),
           NEW got, DOMAIN r.got \subseteq DOMAIN got, r.left[1] \in Honest => pieces \subseteq DOMAIN got,
           SetRun(g, i, Advance(call[g], i, got)),
           NEW S, S \subseteq pieces \ DOMAIN r.got, Note(Asks(g, i), Cardinality(S)),
           r.left[1] \in ByPiece => S \subseteq r.asked
    PROVE  FairBlame'
<1> DEFINE new == Advance(call[g], i, got)
<1>1. /\ i \in 0 .. call[g].next - 1 /\ i \in Nat /\ Ranged(call[g]) /\ r.st = "fetching" /\ Running(r, pieces)
  BY AtFetch
<1>2. /\ new.st = "fetching" => Running(new, pieces)
      /\ \A p, e, k : Due(new, pieces, p, e, k) => Due(r, pieces, p, e, k) /\ e < Len(r.left)
  BY <1>1, AdvanceRuns
<1>3. IsFiniteSet(S) /\ S \subseteq Nat
  <2>1. IsFiniteSet(pieces) /\ pieces \subseteq Nat
    BY <1>1, PiecesFinite
  <2>2. QED  BY <2>1, FS_Subset
<1>4. ASSUME NEW p \in S
      PROVE  Due(r, pieces, p, Len(r.left), r.left[1]) /\ ~Due(new, pieces, p, Len(r.left), r.left[1])
  <2>1. Due(r, pieces, p, Len(r.left), r.left[1])
    BY <1>1, HeadDue
  <2>2. Len(r.left) \in Nat
    BY <1>1, RunningFacts
  <2>3. ~(Len(r.left) < Len(r.left))
    BY <2>2
  <2>4. QED  BY <1>2, <2>1, <2>3
<1>5. SetRun(g, i, new)
  OBVIOUS
<1> HIDE DEF new
<1>6. Flying'
  BY <1>1, <1>2, <1>5, RunFlies DEF FairBlame
<1>7. Debt'
  BY <1>1, <1>2, <1>3, <1>4, <1>5, AnswerDebt DEF FairBlame
<1>8. QED  BY <1>6, <1>7 DEF FairBlame

LEMMA NoneAndOne == Cardinality({}) = 0 /\ \A p : Cardinality({p}) = 1
BY FS_EmptySet, FS_Singleton

LEMMA RangeAnswerFair ==
    ASSUME Inv, FairBlame, NEW g \in Gets, NEW i, NEW spoiled, NEW short, RangeAnswer(g, i, spoiled, short)
    PROVE  FairBlame'
<1> DEFINE c == call[g]
           r == c.run[i]
           pieces == RunPieces(c, i)
           want == Missing(c, i)
           lo == Least(want)
           hi == Greatest(want)
           off == lo * PIECE
           whole == Sent(off, hi * PIECE + LenOf(hi) - off, spoiled)
           buf == IF short THEN Short(whole) ELSE whole
           right == {p \in want : Ok(p, PartOf(buf, off, p))}
           got == [p \in DOMAIN r.got \cup right |-> IF p \in right THEN PartOf(buf, off, p) ELSE r.got[p]]
<1>1. /\ Asking(g, i) /\ Asks(g, i) \notin ByPiece /\ Note(Asks(g, i), Cardinality(want \ right))
      /\ SetRun(g, i, Advance(c, i, got))
      /\ Asks(g, i) \in Honest => spoiled = {} /\ ~short
  BY DEF RangeAnswer
<1>2. /\ i \in Nat /\ i < RunCount(c) /\ Ranged(c) /\ Asks(g, i) = r.left[1]
  BY <1>1, AtFetch
<1>3. want = pieces \ DOMAIN r.got
  BY DEF Missing
<1>4. ASSUME r.left[1] \in Honest PROVE want \subseteq right
  <2>1. \A p \in want : Ok(p, PartOf(buf, off, p))
    BY <1>1, <1>2, <1>4, HonestRight
  <2>2. QED  BY <2>1
<1> HIDE DEF c, r, want, buf, off, pieces
<1>5. DOMAIN got = DOMAIN r.got \cup right
  OBVIOUS
<1> HIDE DEF got, right
<1>6. DOMAIN r.got \subseteq DOMAIN got /\ (r.left[1] \in Honest => pieces \subseteq DOMAIN got)
  BY <1>3, <1>4, <1>5
<1> DEFINE S == want \ right
<1>7. S \subseteq pieces \ DOMAIN r.got /\ (r.left[1] \in ByPiece => S \subseteq r.asked)
  BY <1>1, <1>2, <1>3
<1>8. Note(Asks(g, i), Cardinality(S)) /\ Asking(g, i) /\ SetRun(g, i, Advance(call[g], i, got))
  BY <1>1 DEF c
<1> HIDE DEF S
<1>9. QED  BY <1>6, <1>7, <1>8, AdvanceFair DEF c, r, pieces

LEMMA RangeFailsFair ==
    ASSUME Inv, FairBlame, NEW g \in Gets, NEW i, NEW slow \in BOOLEAN, RangeFails(g, i, slow)
    PROVE  FairBlame'
<1> DEFINE r == call[g].run[i]
           pieces == RunPieces(call[g], i)
           got == r.got
<1>1. /\ Asking(g, i) /\ Asks(g, i) \notin ByPiece /\ Asks(g, i) \notin Honest
      /\ Note(Asks(g, i), IF slow THEN 1 ELSE 0) /\ SetRun(g, i, Advance(call[g], i, got))
  BY DEF RangeFails
<1>2. Running(r, pieces) /\ Asks(g, i) = r.left[1]
  BY <1>1, AtFetch
<1>3. PICK p \in pieces : p \notin DOMAIN r.got
  BY <1>2 DEF Running
<1> DEFINE S == IF slow THEN {p} ELSE {}
<1>4. Cardinality(S) = IF slow THEN 1 ELSE 0
  <2>1. CASE slow
    BY <2>1, NoneAndOne
  <2>2. CASE ~slow
    BY <2>2, NoneAndOne
  <2>3. QED  BY <2>1, <2>2
<1>5. S \subseteq pieces \ DOMAIN r.got
  BY <1>3
<1> HIDE DEF S, pieces, r, got
<1>6. Note(Asks(g, i), Cardinality(S))
  BY <1>1, <1>4
<1>7. r.left[1] \notin Honest /\ r.left[1] \notin ByPiece
  BY <1>1, <1>2
<1>8. DOMAIN r.got \subseteq DOMAIN got
  BY DEF got
<1>9. QED  BY <1>1, <1>5, <1>6, <1>7, <1>8, AdvanceFair DEF r, pieces

LEMMA PieceAnswerFair ==
    ASSUME Inv, FairBlame, NEW g \in Gets, NEW i, NEW p, NEW answer, PieceAnswer(g, i, p, answer)
    PROVE  FairBlame'
<1> DEFINE c == call[g]
           r == c.run[i]
           pieces == RunPieces(c, i)
           buf == IF answer = "right" THEN PieceBytes(p) ELSE Sent(p * PIECE, LenOf(p), {p})
           good == answer \in {"right", "wrong"} /\ Ok(p, buf)
           got == [q \in DOMAIN r.got \cup (IF good THEN {p} ELSE {}) |-> IF q = p THEN buf ELSE r.got[q]]
           new == [r EXCEPT !.asked = @ \ {p}, !.got = got]
           strike == ~good /\ answer \in {"wrong", "slow"}
           S == IF strike THEN {p} ELSE {}
<1>1. /\ Asking(g, i) /\ p \in r.asked /\ (Asks(g, i) \in Honest => answer = "right")
      /\ Note(Asks(g, i), IF strike THEN 1 ELSE 0)
      /\ SetRun(g, i, IF r.asked = {p} THEN Advance(c, i, got) ELSE new)
  BY DEF PieceAnswer
<1>2. /\ i \in 0 .. c.next - 1 /\ i \in Nat /\ Ranged(c) /\ r.st = "fetching" /\ Kept(r) /\ Running(r, pieces)
      /\ Asks(g, i) = r.left[1]
  BY <1>1, AtFetch
<1>3. r.left[1] \in Honest => good
  BY <1>1, <1>2 DEF Ok
<1>4. /\ DOMAIN r.got \subseteq DOMAIN got /\ DOMAIN got \subseteq DOMAIN r.got \cup {p}
      /\ good => p \in DOMAIN got
  BY DEF got
<1>5. Cardinality(S) = IF strike THEN 1 ELSE 0
  <2> HIDE DEF strike
  <2>1. CASE strike
    BY <2>1, NoneAndOne
  <2>2. CASE ~strike
    BY <2>2, NoneAndOne
  <2>3. QED  BY <2>1, <2>2
<1>6. S \subseteq {p}
  OBVIOUS
<1> HIDE DEF S, got, strike, good, buf
<1>7. p \in pieces \ DOMAIN r.got /\ r.left[1] \in ByPiece
  BY <1>1, <1>2 DEF Running, Kept
<1>8. Note(Asks(g, i), Cardinality(S)) /\ S \subseteq pieces \ DOMAIN r.got /\ S \subseteq r.asked
  BY <1>1, <1>5, <1>6, <1>7
<1>9. CASE r.asked = {p}
  <2>1. r.left[1] \in Honest => pieces \subseteq DOMAIN got
    BY <1>2, <1>3, <1>4, <1>7, <1>9 DEF Running
  <2>2. SetRun(g, i, Advance(call[g], i, got))
    BY <1>1, <1>9
  <2> HIDE DEF c, r, pieces
  <2>3. QED  BY <1>1, <1>4, <1>8, <2>1, <2>2, AdvanceFair DEF c, r, pieces
<1>10. CASE r.asked # {p}
  <2>1. SetRun(g, i, new)
    BY <1>1, <1>10
  <2>2. /\ Running(new, pieces)
        /\ \A q, e, k : Due(new, pieces, q, e, k) => Due(r, pieces, q, e, k)
        /\ ~Due(new, pieces, p, Len(r.left), r.left[1])
    <3> HIDE DEF c, r, pieces
    <3>1. r.left[1] \in Honest => p \in DOMAIN got
      BY <1>3, <1>4
    <3>2. new.st = "fetching" /\ new.left = r.left /\ new.asked = r.asked \ {p} /\ new.got = got
      <4>1. RunShape(r, r.left, r.asked, r.got)
        BY <1>2 DEF Kept
      <4>2. QED  BY <1>2, <4>1 DEF RunShape
    <3> HIDE DEF new
    <3>3. QED  BY <1>1, <1>2, <1>4, <1>7, <1>10, <3>1, <3>2, FewerRuns
  <2>3. Due(r, pieces, p, Len(r.left), r.left[1])
    <3> HIDE DEF c, r, pieces
    <3>1. QED  BY <1>1, <1>2, <1>7, HeadDue
  <2>4. IsFiniteSet(S) /\ S \subseteq Nat
    <3>1. IsFiniteSet(pieces) /\ pieces \subseteq Nat
      BY <1>2, PiecesFinite
    <3> HIDE DEF pieces
    <3>2. QED  BY <1>8, <3>1, FS_Subset
  <2>5. \A q \in S : Due(r, pieces, q, Len(r.left), r.left[1]) /\ ~Due(new, pieces, q, Len(r.left), r.left[1])
    BY <1>6, <2>2, <2>3
  <2> HIDE DEF new
  <2>6. Flying'
    BY <1>2, <2>1, <2>2, RunFlies DEF FairBlame
  <2>7. Debt'
    BY <1>2, <1>8, <2>1, <2>2, <2>4, <2>5, AnswerDebt DEF FairBlame
  <2>8. QED  BY <2>6, <2>7 DEF FairBlame
<1>11. QED  BY <1>9, <1>10

LEMMA InitFair == Init => FairBlame
<1> SUFFICES ASSUME Init PROVE FairBlame
  OBVIOUS
<1>1. lies \in [Kinds -> Nat] /\ \A k \in Kinds : ~(lies[k] > 0)
  BY DEF Init
<1>2. ASSUME NEW g \in Gets PROVE call[g].pc = "idle" /\ call[g].next = 0
  BY DEF Init
<1>3. Flying
  BY <1>2 DEF Flying, Flight
<1>4. QED  BY <1>1, <1>3 DEF FairBlame, Debt

LEMMA NextFair == Inv /\ Blame /\ FairBlame /\ [Next]_vars => FairBlame'
<1> SUFFICES ASSUME Inv, Blame, FairBlame, [Next]_vars PROVE FairBlame'
  OBVIOUS
<1>1. CASE UNCHANGED vars
  BY <1>1 DEF FairBlame, Flying, Debt, vars
<1>2. ASSUME NEW g \in Gets, Leave(g) PROVE FairBlame'
  <2>1. call' = [call EXCEPT ![g] = [call[g] EXCEPT !.pc = "left"]] /\ UNCHANGED lies
    BY <1>2 DEF Leave, Inv
  <2>2. QED  BY <2>1, StopFair
<1>3. ASSUME NEW g \in Gets, NEW i \in DOMAIN call[g].run, Answer(g, i) PROVE FairBlame'
  BY <1>3, RangeAnswerFair, RangeFailsFair, PieceAnswerFair DEF Answer
<1>4. QED  BY <1>1, <1>2, <1>3, StartFair, AwaitFair, PullFair DEF Next, Work

(* A holder that was caught is asked for nothing new before somebody honest:   *)
(* its strikes never exceed the pieces of the runs in flight when it got its   *)
(* first, once for each time it is listed, however long the object is, however *)
(* many gets share `standing` and however their answers interleave; and an     *)
(* honest one has none (note, rank and pump of kappa-get.mjs).                 *)
THEOREM GetBlameIsFair == Spec => []BlameIsFair
<1>1. Inv /\ Blame /\ FairBlame => BlameIsFair
  <2> SUFFICES ASSUME Inv, Blame, FairBlame PROVE BlameIsFair
    OBVIOUS
  <2>1. HonestUnblamed /\ Debt
    BY DEF Blame, FairBlame
  <2>2. ASSUME HonestListed, NEW k \in Kinds PROVE lies[k] <= Most(k)
    <3>1. lies[k] \in Nat /\ Most(k) \in Nat
      BY <2>1, BoxFacts DEF Debt
    <3>2. CASE k \in Honest
      BY <2>1, <3>1, <3>2 DEF HonestUnblamed
    <3>3. CASE k \notin Honest /\ lies[k] > 0
      <4>1. lies[k] + Cardinality(Dues(call, k)) <= Most(k)
        BY <2>1, <2>2, <3>3 DEF Debt
      <4>2. Cardinality(Dues(call, k)) \in Nat
        BY DuesFit DEF FairBlame
      <4>3. QED  BY <3>1, <4>1, <4>2
    <3>4. CASE ~(lies[k] > 0)
      BY <3>1, <3>4
    <3>5. QED  BY <3>2, <3>3, <3>4
  <2>3. QED  BY <2>1, <2>2 DEF BlameIsFair, Most
<1>2. QED  BY InitInv, NextInv, InitBlame, NextBlame, InitFair, NextFair, <1>1, PTL DEF Spec
=============================================================================
