------------------------ MODULE TensorAssembleProofs ------------------------
(***************************************************************************)
(* Theorems about TensorAssemble: what a transfer gives out is the range     *)
(* asked for, in order, and all of it right when the transfer ends well.    *)
(***************************************************************************)
EXTENDS TensorAssemble, SequenceTheorems, WellFoundedInduction, TLAPS

-----------------------------------------------------------------------------
(* Induction over the naturals, for sets. *)

(* A set of naturals that is not empty has a least element. *)
LEMMA LeastNat ==
  ASSUME NEW T \in SUBSET Nat, T # {}
  PROVE  \E m \in T : \A k \in T : m <= k
<1> DEFINE R == {ss \in Nat \X Nat : ss[1] < ss[2]}
<1>1. R = OpToRel(<, Nat)
  BY Zenon DEF OpToRel
<1>2. IsWellFoundedOn(R, Nat)
  BY <1>1, NatLessThanWellFounded, Zenon
<1> HIDE DEF R
<1>3. PICK m \in T : \A y \in T : ~(<<y, m>> \in R)
  BY <1>2, WFMin
<1>4. ASSUME NEW y \in T PROVE m <= y
  <2>1. m \in Nat /\ y \in Nat /\ <<y, m>> \notin R
    BY <1>3
  <2>2. <<y, m>> \in Nat \X Nat /\ <<y, m>>[1] = y /\ <<y, m>>[2] = m
    BY <2>1
  <2>3. ~(y < m)
    BY <2>1, <2>2 DEF R
  <2>4. QED  BY <2>1, <2>3
<1>5. QED  BY <1>4

(* A set that holds 0 and, with each natural, the next one, holds them all. *)
LEMMA NatSetInduction ==
  ASSUME NEW T, 0 \in T, \A n \in Nat : n \in T => n + 1 \in T
  PROVE  Nat \subseteq T
<1> SUFFICES ASSUME ~(Nat \subseteq T) PROVE FALSE
  OBVIOUS
<1> DEFINE U == {n \in Nat : n \notin T}
<1>1. PICK m \in U : \A k \in U : m <= k
  BY LeastNat
<1>2. m # 0 /\ m - 1 \in Nat /\ m - 1 \notin U
  BY <1>1
<1>3. QED  BY <1>1, <1>2

-----------------------------------------------------------------------------
(* Where segments start. *)

Segs == 1 .. Len(Segments)

LEMMA SegmentFacts ==
  /\ Len(Segments) \in Nat
  /\ \A i \in Segs : Segments[i].len \in Nat
<1>1. Segments \in Seq(SegmentType)
  BY AssembleAssumption
<1>2. \A i \in Segs : Segments[i] \in SegmentType
  BY <1>1 DEF Segs
<1>3. QED  BY <1>1, <1>2 DEF SegmentType

(* A function as the definition of Base asks for. *)
Starts(f, n) == f = [i \in 1 .. n |-> IF i = 1 THEN 0 ELSE f[i - 1] + Segments[i - 1].len]

LEMMA StartsExist == \A n \in Nat : \E f : Starts(f, n)
<1> DEFINE T == {n \in Nat : \E f : Starts(f, n)}
<1>1. 0 \in T
  <2> DEFINE f == [i \in 1 .. 0 |-> 0]
  <2>1. f = [i \in 1 .. 0 |-> IF i = 1 THEN 0 ELSE f[i - 1] + Segments[i - 1].len]
    OBVIOUS
  <2>2. Starts(f, 0)
    BY <2>1 DEF Starts
  <2>3. QED  BY <2>2
<1>2. ASSUME NEW n \in Nat, n \in T PROVE n + 1 \in T
  <2>1. PICK f : Starts(f, n)
    BY <1>2
  <2> DEFINE g == [i \in 1 .. n + 1 |-> IF i = 1 THEN 0 ELSE f[i - 1] + Segments[i - 1].len]
  <2>2. ASSUME NEW i \in 1 .. n PROVE g[i] = f[i]
    <3>1. f = [j \in 1 .. n |-> IF j = 1 THEN 0 ELSE f[j - 1] + Segments[j - 1].len]
      BY <2>1 DEF Starts
    <3>2. f[i] = IF i = 1 THEN 0 ELSE f[i - 1] + Segments[i - 1].len
      BY <3>1
    <3>3. i \in 1 .. n + 1
      BY <1>2
    <3>4. QED  BY <3>2, <3>3
  <2>3. ASSUME NEW i \in 1 .. n + 1
        PROVE  g[i] = IF i = 1 THEN 0 ELSE g[i - 1] + Segments[i - 1].len
    <3>1. g[i] = IF i = 1 THEN 0 ELSE f[i - 1] + Segments[i - 1].len
      OBVIOUS
    <3>2. i # 1 => i - 1 \in 1 .. n
      BY <1>2
    <3> HIDE DEF g
    <3>3. QED  BY <2>2, <3>1, <3>2
  <2>4. g = [i \in 1 .. n + 1 |-> IF i = 1 THEN 0 ELSE g[i - 1] + Segments[i - 1].len]
    <3> DEFINE h == [i \in 1 .. n + 1 |-> IF i = 1 THEN 0 ELSE g[i - 1] + Segments[i - 1].len]
    <3>1. \A i \in 1 .. n + 1 : g[i] = h[i]
      BY <2>3
    <3>2. g = [i \in 1 .. n + 1 |-> g[i]] /\ h = [i \in 1 .. n + 1 |-> h[i]]
      OBVIOUS
    <3> HIDE DEF g, h
    <3>3. g = h
      BY <3>1, <3>2
    <3>4. QED  BY <3>3 DEF h
  <2> HIDE DEF g
  <2>5. Starts(g, n + 1)
    BY <2>4 DEF Starts
  <2>6. QED  BY <2>5, <1>2
<1>3. QED  BY <1>1, <1>2, NatSetInduction

LEMMA BaseIs ==
  Base = [i \in 1 .. Len(Segments) + 1 |-> IF i = 1 THEN 0 ELSE Base[i - 1] + Segments[i - 1].len]
<1>1. \E f : Starts(f, Len(Segments) + 1)
  BY SegmentFacts, StartsExist
<1>2. \E f : f = [i \in 1 .. Len(Segments) + 1 |-> IF i = 1 THEN 0 ELSE f[i - 1] + Segments[i - 1].len]
  BY <1>1 DEF Starts
<1>3. QED  BY <1>2, Zenon DEF Base

LEMMA BaseFacts ==
  /\ Base[1] = 0
  /\ \A i \in Segs : Base[i + 1] = Base[i] + Segments[i].len
<1>1. 1 \in 1 .. Len(Segments) + 1
  BY SegmentFacts
<1>2. Base[1] = 0
  BY <1>1, BaseIs
<1>3. ASSUME NEW i \in Segs PROVE Base[i + 1] = Base[i] + Segments[i].len
  <2>1. i + 1 \in 1 .. Len(Segments) + 1 /\ i + 1 # 1 /\ (i + 1) - 1 = i
    BY SegmentFacts DEF Segs
  <2>2. Base[i + 1] = Base[(i + 1) - 1] + Segments[(i + 1) - 1].len
    BY <2>1, BaseIs
  <2>3. QED  BY <2>1, <2>2
<1>4. QED  BY <1>2, <1>3

LEMMA BaseNat == \A i \in 1 .. Len(Segments) + 1 : Base[i] \in Nat
<1> DEFINE T == {n \in Nat : n + 1 \in 1 .. Len(Segments) + 1 => Base[n + 1] \in Nat}
<1>1. 0 \in T
  BY BaseFacts
<1>2. ASSUME NEW n \in Nat, n \in T PROVE n + 1 \in T
  <2> SUFFICES ASSUME (n + 1) + 1 \in 1 .. Len(Segments) + 1 PROVE Base[(n + 1) + 1] \in Nat
    OBVIOUS
  <2>1. n + 1 \in Segs /\ n + 1 \in 1 .. Len(Segments) + 1
    BY SegmentFacts DEF Segs
  <2>2. QED  BY <1>2, <2>1, BaseFacts, SegmentFacts
<1>3. Nat \subseteq T
  BY <1>1, <1>2, NatSetInduction
<1>4. ASSUME NEW i \in 1 .. Len(Segments) + 1 PROVE Base[i] \in Nat
  <2>1. i - 1 \in Nat /\ (i - 1) + 1 = i
    BY SegmentFacts
  <2>2. QED  BY <1>3, <2>1
<1>5. QED  BY <1>4

LEMMA FileSizeNat == FileSize \in Nat
BY BaseNat, SegmentFacts DEF FileSize


-----------------------------------------------------------------------------
(* The invariant. *)

(* How many bytes of the range from .. to lie before offset b of the file,  *)
(* and before segment i; a segment that the range meets.                     *)
Cut(from, to, b) == IF b <= from THEN 0 ELSE IF b <= to THEN b - from ELSE to + 1 - from
Place(from, to, i) == Cut(from, to, Base[i])
Meets(from, to, i) == Segments[i].len > 0 /\ Base[i] <= to /\ Base[i] + Segments[i].len - 1 >= from
Real(from, to) == from \in Nat /\ to \in Nat /\ from <= to /\ to < FileSize

(* The segment that unit u starts with; behind the last unit, segment end. *)
First(us, u, end) == IF u <= Len(us) THEN us[u][1] ELSE end
Last(run) == run[Len(run)]

(* Units hold the segments before `end` that the range meets, none twice and *)
(* none left out: the range goes on in each where it stopped in the one        *)
(* before.  Only small payloads share a unit.                                 *)
Chained(run, from, to) ==
    /\ run \in Seq(Segs) /\ run # <<>>
    /\ TypeOf(run[1]) # "g" => Len(run) = 1
    /\ \A k \in 1 .. Len(run) : Meets(from, to, run[k])
    /\ \A k \in 1 .. Len(run) - 1 : Place(from, to, run[k + 1]) = Place(from, to, run[k] + 1)
Linked(us, from, to, end) ==
    /\ us \in Seq(Seq(Segs))
    /\ \A u \in 1 .. Len(us) : Chained(us[u], from, to)
    /\ \A u \in 1 .. Len(us) : Place(from, to, First(us, u + 1, end)) = Place(from, to, Last(us[u]) + 1)
    /\ Place(from, to, First(us, 1, end)) = 0

(* The window: units front, front + 1, ... in order, up to the next one. *)
Window(us, nxt, waiting, front) ==
    /\ nxt \in 1 .. Len(us) + 1 /\ waiting \in Seq(Nat) /\ Len(waiting) <= WINDOW
    /\ front \in Nat \ {0} /\ nxt = front + Len(waiting)
    /\ \A k \in 1 .. Len(waiting) : waiting[k] = front + k - 1
Filled(us, nxt, waiting) == waiting = <<>> => nxt = Len(us) + 1

(* A unit's fetch holds the right bytes of each segment it is through with. *)
Held(bufs, run, n) == bufs \in Seq(Seq(Int)) /\ Len(bufs) = n /\ \A k \in 1 .. n : bufs[k] = Right(run[k])
FetchShape(f) == f = [st |-> f.st, item |-> f.item, good |-> f.good, tries |-> f.tries, bufs |-> f.bufs]
Fetched(f, run) ==
    /\ f.item \in 0 .. Len(run)
    /\ f.st \in {"none", "single", "whole"} => f.item = 0 /\ f.bufs = <<>>
    /\ f.st = "single" => Len(run) = 1
    /\ f.st = "next" => Held(f.bufs, run, f.item)
    /\ f.st = "try" => f.item >= 1 /\ Held(f.bufs, run, f.item - 1)
    /\ f.st = "ok" => Held(f.bufs, run, Len(run))
Fetches(us, nxt, keep, fs) ==
    /\ DOMAIN fs = 1 .. nxt - 1 /\ fs = [u \in 1 .. nxt - 1 |-> fs[u]]
    /\ \A u \in 1 .. nxt - 1 : FetchShape(fs[u])
    /\ \A u \in 1 .. nxt - 1 : u >= keep => Fetched(fs[u], us[u])

(* What is kept: the range's first bytes; and where a byte may be spoiled. *)
Sound(o, from, to) == o \in Seq(Int) /\ Len(o) <= to + 1 - from /\ \A k \in 1 .. Len(o) : o[k] = from + k - 1
BigAt(p) == \E i \in Segs : TypeOf(i) = "big" /\ p \in Base[i] .. Base[i] + Segments[i].len - 1
Loose(o, from, to, after) ==
    /\ o \in Seq(Int) /\ Len(o) <= to + 1 - from
    /\ \A k \in 1 .. Len(o) : o[k] = from + k - 1 \/ (o[k] = Spoiled /\ k > after /\ BigAt(from + k - 1))

GenShape(g) ==
    g = [pc |-> g.pc, cur |-> g.cur, item |-> g.item, left |-> g.left, at |-> g.at, clean |-> g.clean]
Working == {"await", "yield", "pieces", "big"}
Fresh == next = 1 /\ pending = <<>> /\ fetch = [u \in {} |-> NoFetch] /\ kept = <<>>

(* The generator at work on unit gen.cur. *)
AtWork(g, us, nxt, waiting, fs, o, from, to) ==
    /\ g.cur \in 1 .. Len(us) /\ Window(us, nxt, waiting, g.cur + 1)
    /\ Fetches(us, nxt, g.cur, fs)
    /\ g.pc \in {"await", "pieces"} =>
          Sound(o, from, to) /\ Len(o) = Place(from, to, us[g.cur][1]) /\ g.item = 1
    /\ g.pc = "await" => TypeOf(us[g.cur][1]) \notin {"big", "P"}
    /\ g.pc = "pieces" => TypeOf(us[g.cur][1]) = "P"
    /\ g.pc = "yield" =>
          /\ g.item \in 1 .. Len(us[g.cur]) /\ fs[g.cur].st = "ok" /\ Filled(us, nxt, waiting)
          /\ Sound(o, from, to) /\ Len(o) = Place(from, to, us[g.cur][g.item])
    /\ g.pc = "big" =>
          LET i == us[g.cur][1] IN
          /\ TypeOf(i) = "big" /\ g.at \in 0 .. Segments[i].len
          /\ Loose(o, from, to, Place(from, to, i)) /\ Len(o) = Cut(from, to, Base[i] + g.at)
          /\ g.clean => Sound(o, from, to)
AtShift(us, nxt, waiting, fs, o, from, to) ==
    /\ Window(us, nxt, waiting, nxt - Len(waiting)) /\ Filled(us, nxt, waiting)
    /\ Fetches(us, nxt, nxt - Len(waiting), fs)
    /\ Sound(o, from, to) /\ Len(o) = Place(from, to, First(us, nxt - Len(waiting), Len(Segments) + 1))

Inv ==
    /\ ask.range \in Ranges /\ GenShape(gen)
    /\ gen.pc \in {"idle", "refused", "units", "fill", "shift", "done", "failed"} \cup Working
    /\ gen.pc \notin {"idle", "refused"} => Real(Begin, To)
    /\ gen.pc \in {"idle", "refused", "units", "fill"} => Fresh
    /\ gen.pc = "idle" => units = <<>> /\ gen.item = 1
    /\ gen.pc = "units" => gen.item \in 1 .. Len(Segments) + 1 /\ Linked(units, Begin, To, gen.item)
    /\ gen.pc \in {"fill", "shift"} \cup Working => Linked(units, Begin, To, Len(Segments) + 1)
    /\ gen.pc = "shift" => AtShift(units, next, pending, fetch, kept, Begin, To)
    /\ gen.pc \in Working => AtWork(gen, units, next, pending, fetch, kept, Begin, To)
    /\ gen.pc = "done" => Sound(kept, Begin, To) /\ Len(kept) = To + 1 - Begin
    /\ gen.pc = "failed" => Loose(kept, Begin, To, 0)


-----------------------------------------------------------------------------
(* The places of segments in the range. *)

LEMMA CutSkips ==
  ASSUME NEW from \in Nat, NEW to \in Nat, NEW b \in Nat, NEW l \in Nat, from <= to,
         ~(l > 0 /\ b <= to /\ b + l - 1 >= from)
  PROVE  Cut(from, to, b + l) = Cut(from, to, b)
BY DEF Cut

LEMMA CutBounds ==
  ASSUME NEW from \in Nat, NEW to \in Nat, NEW b \in Nat, from <= to
  PROVE  /\ Cut(from, to, b) \in Nat /\ Cut(from, to, b) <= to + 1 - from
         /\ b > to => Cut(from, to, b) = to + 1 - from
         /\ b <= from => Cut(from, to, b) = 0
BY DEF Cut

(* One byte at offset b of the file. *)
LEMMA CutStep ==
  ASSUME NEW from \in Nat, NEW to \in Nat, NEW b \in Nat, from <= to
  PROVE  /\ from <= b /\ b <= to => Cut(from, to, b + 1) = Cut(from, to, b) + 1 /\ from + Cut(from, to, b) = b
         /\ ~(from <= b /\ b <= to) => Cut(from, to, b + 1) = Cut(from, to, b)
BY DEF Cut

LEMMA CutGrows ==
  ASSUME NEW from \in Nat, NEW to \in Nat, NEW b \in Nat, NEW c \in Nat, from <= to, b <= c
  PROVE  Cut(from, to, b) <= Cut(from, to, c)
BY DEF Cut

LEMMA SegPlace ==
  ASSUME NEW i \in Segs
  PROVE  /\ Base[i] \in Nat /\ Base[i + 1] \in Nat /\ Segments[i].len \in Nat
         /\ Base[i + 1] = Base[i] + Segments[i].len
         /\ i \in Nat /\ i + 1 \in 1 .. Len(Segments) + 1
<1>1. i \in 1 .. Len(Segments) + 1 /\ i + 1 \in 1 .. Len(Segments) + 1 /\ i \in Nat
  BY SegmentFacts DEF Segs
<1>2. QED  BY <1>1, SegmentFacts, BaseNat, BaseFacts

LEMMA SkippedPlace ==
  ASSUME NEW from, NEW to, Real(from, to), NEW i \in Segs, ~Meets(from, to, i)
  PROVE  Place(from, to, i + 1) = Place(from, to, i)
BY SegPlace, CutSkips DEF Real, Meets, Place

-----------------------------------------------------------------------------
(* Grouping. *)

LEMMA LinkedStart ==
  ASSUME NEW from, NEW to, Real(from, to)
  PROVE  Linked(<<>>, from, to, 1)
<1>1. Place(from, to, 1) = 0
  BY BaseFacts, CutBounds DEF Real, Place
<1>2. First(<<>>, 1, 1) = 1 /\ Len(<<>>) = 0
  BY DEF First
<1>3. QED  BY <1>1, <1>2 DEF Linked

LEMMA LinkedSkip ==
  ASSUME NEW from, NEW to, Real(from, to), NEW us, NEW i \in Segs, ~Meets(from, to, i),
         Linked(us, from, to, i)
  PROVE  Linked(us, from, to, i + 1)
<1>1. \A u \in Nat : Place(from, to, First(us, u, i + 1)) = Place(from, to, First(us, u, i))
  BY SkippedPlace DEF First
<1>2. us \in Seq(Seq(Segs)) /\ Len(us) \in Nat
  BY DEF Linked
<1>3. \A u \in 1 .. Len(us) : u + 1 \in Nat
  BY <1>2
<1>4. QED  BY <1>1, <1>2, <1>3 DEF Linked

LEMMA LinkedAppend ==
  ASSUME NEW from, NEW to, Real(from, to), NEW us, NEW i \in Segs, Meets(from, to, i),
         Linked(us, from, to, i)
  PROVE  Linked(Append(us, <<i>>), from, to, i + 1)
<1> DEFINE vs == Append(us, <<i>>)
           n == Len(us)
<1>1. /\ us \in Seq(Seq(Segs)) /\ n \in Nat /\ <<i>> \in Seq(Segs)
  BY DEF Linked
<1>2. /\ vs \in Seq(Seq(Segs)) /\ Len(vs) = n + 1 /\ vs[n + 1] = <<i>>
      /\ \A u \in 1 .. n : vs[u] = us[u]
  BY <1>1, AppendProperties
<1>3. Chained(<<i>>, from, to) /\ Last(<<i>>) = i
  <2>1. Len(<<i>>) = 1 /\ <<i>>[1] = i /\ <<i>> # <<>>
    OBVIOUS
  <2>2. QED  BY <1>1, <2>1 DEF Chained, Last
<1>4. \A u \in 1 .. n + 1 : u \in 1 .. n \/ u = n + 1
  BY <1>1
<1>5. \A u \in 1 .. n + 1 : First(vs, u, i + 1) = First(us, u, i)
  <2> SUFFICES ASSUME NEW u \in 1 .. n + 1 PROVE First(vs, u, i + 1) = First(us, u, i)
    OBVIOUS
  <2>1. CASE u \in 1 .. n
    <3>1. u <= n /\ u <= n + 1
      BY <2>1, <1>1
    <3>2. QED  BY <2>1, <3>1, <1>2 DEF First
  <2>2. CASE u = n + 1
    <3>1. ~(n + 1 <= n) /\ n + 1 <= n + 1 /\ <<i>>[1] = i
      BY <1>1
    <3>2. QED  BY <2>2, <3>1, <1>2 DEF First
  <2>3. QED  BY <1>4, <2>1, <2>2
<1>6. First(vs, (n + 1) + 1, i + 1) = i + 1
  BY <1>1, <1>2 DEF First
<1> HIDE DEF vs
<1>7. \A u \in 1 .. Len(vs) : Chained(vs[u], from, to)
  BY <1>2, <1>3, <1>4 DEF Linked
<1>8. ASSUME NEW u \in 1 .. n + 1
      PROVE  Place(from, to, First(vs, u + 1, i + 1)) = Place(from, to, Last(vs[u]) + 1)
  <2>1. CASE u \in 1 .. n
    <3>1. u + 1 \in 1 .. n + 1
      BY <2>1, <1>1
    <3>2. QED  BY <2>1, <3>1, <1>2, <1>5 DEF Linked
  <2>2. CASE u = n + 1
    BY <2>2, <1>2, <1>3, <1>6
  <2>3. QED  BY <1>4, <2>1, <2>2
<1>9. Place(from, to, First(vs, 1, i + 1)) = 0
  <2>1. 1 \in 1 .. n + 1
    BY <1>1
  <2>2. QED  BY <2>1, <1>5 DEF Linked
<1>10. Linked(vs, from, to, i + 1)
  BY <1>2, <1>7, <1>8, <1>9 DEF Linked
<1>11. QED  BY <1>10 DEF vs

LEMMA ChainedJoin ==
  ASSUME NEW from, NEW to, NEW run, NEW i \in Segs, Meets(from, to, i), Chained(run, from, to),
         Last(run) = i - 1, TypeOf(i - 1) = "g"
  PROVE  /\ Chained(Append(run, i), from, to) /\ Append(run, i) \in Seq(Segs)
         /\ Last(Append(run, i)) = i /\ Append(run, i)[1] = run[1]
<1> DEFINE more == Append(run, i)
           n == Len(run)
<1>1. run \in Seq(Segs) /\ n \in Nat /\ n >= 1
  BY DEF Chained
<1>2. /\ more \in Seq(Segs) /\ Len(more) = n + 1 /\ more[n + 1] = i
      /\ \A k \in 1 .. n : more[k] = run[k]
  BY <1>1, AppendProperties
<1>3. more # <<>> /\ Last(more) = i
  BY <1>1, <1>2 DEF Last
<1>4. more[1] = run[1]
  BY <1>1, <1>2
<1>5. TypeOf(run[1]) = "g"
  <2>1. CASE n = 1
    BY <2>1 DEF Last
  <2>2. CASE n # 1
    BY <2>2 DEF Chained
  <2>3. QED  BY <2>1, <2>2
<1> HIDE DEF more
<1>6. \A k \in 1 .. n + 1 : Meets(from, to, more[k])
  <2>1. \A k \in 1 .. n + 1 : k \in 1 .. n \/ k = n + 1
    BY <1>1
  <2>2. QED  BY <2>1, <1>2 DEF Chained
<1>7. ASSUME NEW k \in 1 .. n PROVE Place(from, to, more[k + 1]) = Place(from, to, more[k] + 1)
  <2>1. CASE k = n
    <3>1. more[k] = i - 1 /\ more[k + 1] = i /\ (i - 1) + 1 = i
      BY <2>1, <1>2, SegPlace DEF Last
    <3>2. QED  BY <3>1
  <2>2. CASE k # n
    <3>1. k \in 1 .. n - 1 /\ k + 1 \in 1 .. n
      BY <2>2, <1>1
    <3>2. QED  BY <3>1, <1>2 DEF Chained
  <2>3. QED  BY <2>1, <2>2
<1>8. (n + 1) - 1 = n
  BY <1>1
<1>9. Chained(more, from, to)
  BY <1>2, <1>3, <1>4, <1>5, <1>6, <1>7, <1>8 DEF Chained
<1>10. QED  BY <1>2, <1>3, <1>4, <1>9 DEF more

LEMMA LinkedJoin ==
  ASSUME NEW from, NEW to, Real(from, to), NEW us, NEW i \in Segs, Meets(from, to, i),
         Linked(us, from, to, i), us # <<>>, Last(us[Len(us)]) = i - 1, TypeOf(i - 1) = "g"
  PROVE  Linked([us EXCEPT ![Len(us)] = Append(us[Len(us)], i)], from, to, i + 1)
<1> DEFINE n == Len(us)
           more == Append(us[n], i)
           vs == [us EXCEPT ![n] = more]
<1>1. us \in Seq(Seq(Segs)) /\ n \in Nat /\ n >= 1 /\ n \in 1 .. n
  BY DEF Linked
<1>2. /\ Chained(more, from, to) /\ more \in Seq(Segs)
      /\ Last(more) = i /\ more[1] = us[n][1]
  BY <1>1, ChainedJoin DEF Linked
<1> HIDE DEF more
<1>3. /\ vs \in Seq(Seq(Segs)) /\ Len(vs) = n /\ vs[n] = more
      /\ \A u \in 1 .. n : u # n => vs[u] = us[u]
  BY <1>1, <1>2, ExceptSeq
<1> HIDE DEF vs
<1>4. \A u \in 1 .. n : Chained(vs[u], from, to)
  BY <1>2, <1>3 DEF Linked
<1>5. \A u \in 1 .. n : First(vs, u, i + 1) = First(us, u, i)
  <2> SUFFICES ASSUME NEW u \in 1 .. n PROVE First(vs, u, i + 1) = First(us, u, i)
    OBVIOUS
  <2>1. u <= n
    BY <1>1
  <2>2. CASE u = n
    BY <2>1, <2>2, <1>2, <1>3 DEF First
  <2>3. CASE u # n
    BY <2>1, <2>3, <1>3 DEF First
  <2>4. QED  BY <2>2, <2>3
<1>6. ASSUME NEW u \in 1 .. n
      PROVE  Place(from, to, First(vs, u + 1, i + 1)) = Place(from, to, Last(vs[u]) + 1)
  <2>1. CASE u = n
    <3>1. ~(n + 1 <= n)
      BY <1>1
    <3>2. First(vs, u + 1, i + 1) = i + 1
      BY <2>1, <3>1, <1>3 DEF First
    <3>3. QED  BY <2>1, <3>2, <1>2, <1>3
  <2>2. CASE u # n
    <3>1. u + 1 \in 1 .. n
      BY <2>2, <1>1
    <3>2. QED  BY <2>2, <3>1, <1>3, <1>5 DEF Linked
  <2>3. QED  BY <2>1, <2>2
<1>7. Place(from, to, First(vs, 1, i + 1)) = 0
  <2>1. 1 \in 1 .. n
    BY <1>1
  <2>2. QED  BY <2>1, <1>5 DEF Linked
<1>8. Linked(vs, from, to, i + 1)
  BY <1>3, <1>4, <1>6, <1>7 DEF Linked
<1>9. QED  BY <1>8 DEF vs, more


-----------------------------------------------------------------------------
(* Giving bytes out. *)

LEMMA RightIs ==
  ASSUME NEW i \in Segs
  PROVE  /\ Right(i) \in Seq(Int) /\ Len(Right(i)) = Segments[i].len
         /\ \A k \in 1 .. Segments[i].len : Right(i)[k] = Base[i] + k - 1
<1> DEFINE b == Base[i]
           l == Segments[i].len
<1>1. b \in Nat /\ l \in Nat
  BY SegPlace
<1>2. (b + l - 1) - b + 1 = l
  BY <1>1
<1>3. Right(i) = [k \in 1 .. l |-> b + k - 1]
  BY <1>2 DEF Right, Bytes
<1> HIDE DEF b, l
<1>4. /\ Right(i) \in Seq(Int) /\ Len(Right(i)) = l /\ \A k \in 1 .. l : Right(i)[k] = b + k - 1
  BY <1>1, <1>3
<1>5. QED  BY <1>4 DEF b, l

(* The part of segment i that the range covers. *)
Chunk(from, to, i) ==
    LET lo == IF from > Base[i] THEN from - Base[i] ELSE 0
        hi == IF to - Base[i] + 1 < Segments[i].len THEN to - Base[i] + 1 ELSE Segments[i].len
    IN  SubSeq(Right(i), lo + 1, hi)

LEMMA RangeInts ==
  ASSUME ask.range \in Ranges
  PROVE  /\ From \in Int /\ To \in Int /\ To < FileSize
         /\ Begin \in Nat /\ \A p \in Nat : From <= p <=> Begin <= p
         /\ FileSize > 0 => To \in Nat
         /\ FileSize = 0 => To = -1
<1>1. ask.range \in RangeType
  BY AssembleAssumption
<1>2. ask.range.a \in Nat /\ ask.range.b \in Nat /\ ask.range.type \in {"whole", "span", "from", "last"}
  BY <1>1 DEF RangeType
<1>3. FileSize \in Nat
  BY FileSizeNat
<1>4. /\ To \in Int /\ To < FileSize /\ (FileSize > 0 => To \in Nat) /\ (FileSize = 0 => To = -1)
  BY <1>2, <1>3 DEF To
<1>5. From \in Int
  BY <1>2, <1>3 DEF From
<1>6. Begin \in Nat /\ \A p \in Nat : From <= p <=> Begin <= p
  BY <1>5 DEF Begin
<1>7. QED  BY <1>4, <1>5, <1>6

LEMMA CutToIs ==
  ASSUME ask.range \in Ranges, NEW i \in Segs
  PROVE  CutTo(i, Right(i)) = Chunk(Begin, To, i)
<1>1. From \in Int /\ Base[i] \in Nat
  BY RangeInts, SegPlace
<1>2. (IF From > Base[i] THEN From - Base[i] ELSE 0) = (IF Begin > Base[i] THEN Begin - Base[i] ELSE 0)
  BY <1>1 DEF Begin
<1>3. QED  BY <1>2 DEF CutTo, Chunk

LEMMA ChunkIs ==
  ASSUME NEW from, NEW to, Real(from, to), NEW i \in Segs, Meets(from, to, i)
  PROVE  LET c == Chunk(from, to, i)
             p == Place(from, to, i)
         IN  /\ c \in Seq(Int) /\ p \in Nat /\ p + Len(c) = Place(from, to, i + 1)
             /\ Len(c) \in Nat
             /\ \A k \in 1 .. Len(c) : c[k] = from + (p + k) - 1
<1> DEFINE b == Base[i]
           l == Segments[i].len
           lo == IF from > b THEN from - b ELSE 0
           hi == IF to - b + 1 < l THEN to - b + 1 ELSE l
           c == Chunk(from, to, i)
           p == Place(from, to, i)
           q == Place(from, to, i + 1)
<1>1. /\ b \in Nat /\ l \in Nat /\ from \in Nat /\ to \in Nat /\ from <= to
      /\ l > 0 /\ b <= to /\ b + l - 1 >= from
  BY SegPlace DEF Real, Meets
<1>2. p = Cut(from, to, b) /\ q = Cut(from, to, b + l)
  BY SegPlace DEF Place
<1>3. c = SubSeq(Right(i), lo + 1, hi)
  BY DEF Chunk
<1>4. Right(i) \in Seq(Int) /\ Len(Right(i)) = l /\ \A k \in 1 .. l : Right(i)[k] = b + k - 1
  BY RightIs
<1> HIDE DEF b, l, c, p, q
<1>5. /\ lo \in Nat /\ hi \in Nat /\ lo <= hi /\ hi <= l
      /\ p \in Nat /\ p + (hi - lo) = q /\ from + p = b + lo
  BY <1>1, <1>2 DEF Cut
<1> HIDE DEF lo, hi
<1>6. \A j \in lo + 1 .. hi : Right(i)[j] \in Int
  BY <1>1, <1>4, <1>5
<1>7. /\ c \in Seq(Int) /\ Len(c) = IF lo + 1 <= hi THEN hi - (lo + 1) + 1 ELSE 0
      /\ \A k \in 1 .. hi - (lo + 1) + 1 : c[k] = Right(i)[(lo + 1) + k - 1]
  BY <1>3, <1>4, <1>5, <1>6, SubSeqProperties
<1>8. Len(c) = hi - lo /\ hi - (lo + 1) + 1 = hi - lo
  BY <1>5, <1>7
<1>9. ASSUME NEW k \in 1 .. hi - lo PROVE c[k] = from + (p + k) - 1
  <2>1. (lo + 1) + k - 1 = lo + k /\ lo + k \in 1 .. l
    BY <1>1, <1>5
  <2>2. c[k] = Right(i)[lo + k]
    BY <1>7, <1>8, <2>1
  <2>3. c[k] = b + (lo + k) - 1
    BY <2>1, <2>2, <1>4
  <2>4. QED  BY <1>1, <1>5, <2>3
<1>10. p + Len(c) = q /\ Len(c) \in Nat
  BY <1>5, <1>8
<1>11. QED  BY <1>5, <1>7, <1>8, <1>9, <1>10 DEF c, p, q

LEMMA Emits ==
  ASSUME NEW from, NEW to, Real(from, to), NEW i \in Segs, Meets(from, to, i), NEW o,
         Sound(o, from, to), Len(o) = Place(from, to, i)
  PROVE  /\ Sound(o \o Chunk(from, to, i), from, to)
         /\ Len(o \o Chunk(from, to, i)) = Place(from, to, i + 1)
<1> DEFINE c == Chunk(from, to, i)
           p == Place(from, to, i)
           q == Place(from, to, i + 1)
           w == o \o c
<1>1. /\ c \in Seq(Int) /\ p \in Nat /\ p + Len(c) = q /\ Len(c) \in Nat
      /\ \A k \in 1 .. Len(c) : c[k] = from + (p + k) - 1
  BY ChunkIs
<1>2. from \in Nat /\ to \in Nat /\ q <= to + 1 - from
  BY SegPlace, CutBounds DEF Real, Place
<1>3. o \in Seq(Int) /\ Len(o) = p /\ \A k \in 1 .. p : o[k] = from + k - 1
  BY DEF Sound
<1> HIDE DEF c, p, q
<1>4. /\ w \in Seq(Int) /\ Len(w) = Len(o) + Len(c)
      /\ \A k \in 1 .. Len(o) + Len(c) : w[k] = IF k <= Len(o) THEN o[k] ELSE c[k - Len(o)]
  BY <1>1, <1>3, ConcatProperties
<1> HIDE DEF w
<1>5. Len(w) = q
  BY <1>1, <1>3, <1>4
<1>6. ASSUME NEW k \in 1 .. q PROVE w[k] = from + k - 1
  <2>1. w[k] = IF k <= p THEN o[k] ELSE c[k - p]
    BY <1>1, <1>3, <1>4
  <2>2. CASE k <= p
    <3>1. k \in 1 .. p
      BY <2>2, <1>1
    <3>2. QED  BY <2>1, <2>2, <3>1, <1>3
  <2>3. CASE ~(k <= p)
    <3>1. k - p \in 1 .. Len(c) /\ p + (k - p) = k
      BY <2>3, <1>1
    <3>2. QED  BY <2>1, <2>3, <3>1, <1>1
  <2>4. QED  BY <2>2, <2>3
<1>7. QED  BY <1>2, <1>4, <1>5, <1>6 DEF Sound, w, c, q

LEMMA SoundIsLoose ==
  ASSUME NEW o, NEW from, NEW to, NEW n, Sound(o, from, to)
  PROVE  Loose(o, from, to, n)
BY DEF Sound, Loose

LEMMA LooserIsLoose ==
  ASSUME NEW o, NEW from, NEW to, NEW n \in Nat, Loose(o, from, to, n)
  PROVE  Loose(o, from, to, 0)
<1>1. o \in Seq(Int) /\ Len(o) \in Nat
  BY DEF Loose
<1>2. \A k \in 1 .. Len(o) : k > n => k > 0
  BY <1>1
<1>3. QED  BY <1>1, <1>2 DEF Loose

(* One more byte of a segment that is given out as it is read. *)
LEMMA BigGoesOn ==
  ASSUME NEW from, NEW to, Real(from, to), NEW i \in Segs, TypeOf(i) = "big", NEW at \in Nat,
         at < Segments[i].len, NEW o, Loose(o, from, to, Place(from, to, i)),
         Len(o) = Cut(from, to, Base[i] + at), NEW right \in BOOLEAN,
         from <= Base[i] + at, Base[i] + at <= to
  PROVE  LET w == Append(o, IF right THEN Base[i] + at ELSE Spoiled)
         IN  /\ Loose(w, from, to, Place(from, to, i))
             /\ Len(w) = Cut(from, to, Base[i] + (at + 1))
             /\ Sound(o, from, to) /\ right => Sound(w, from, to)
<1> DEFINE b == Base[i] + at
           x == IF right THEN b ELSE Spoiled
           w == Append(o, x)
           n == Len(o)
           p == Place(from, to, i)
<1>1. /\ from \in Nat /\ to \in Nat /\ from <= to /\ Base[i] \in Nat /\ b \in Nat
      /\ Segments[i].len \in Nat
  BY SegPlace DEF Real
<1>2. Base[i] + (at + 1) = b + 1
  BY <1>1
<1>3. Cut(from, to, b + 1) = n + 1 /\ from + n = b /\ n \in Nat
  <2>1. n = Cut(from, to, b) /\ from <= b /\ b <= to
    OBVIOUS
  <2> HIDE DEF b, n
  <2>2. Cut(from, to, b + 1) = Cut(from, to, b) + 1 /\ from + Cut(from, to, b) = b
    BY <1>1, <2>1, CutStep
  <2>3. Cut(from, to, b) \in Nat
    BY <1>1, CutBounds
  <2>4. QED  BY <2>1, <2>2, <2>3
<1>4. n + 1 <= to + 1 - from
  BY <1>1, <1>3
<1>5. p \in Nat /\ p <= n
  <2>1. p = Cut(from, to, Base[i]) /\ n = Cut(from, to, b) /\ Base[i] <= b
    BY <1>1 DEF Place
  <2> HIDE DEF b, n, p
  <2>2. Cut(from, to, Base[i]) \in Nat /\ Cut(from, to, Base[i]) <= Cut(from, to, b)
    BY <1>1, <2>1, CutBounds, CutGrows
  <2>3. QED  BY <2>1, <2>2
<1>6. BigAt(b)
  <2>1. b \in Base[i] .. Base[i] + Segments[i].len - 1
    BY <1>1
  <2>2. QED  BY <2>1 DEF BigAt
<1>7. x \in Int /\ o \in Seq(Int)
  BY <1>1 DEF Loose, Spoiled
<1> HIDE DEF b, x, p
<1>8. /\ w \in Seq(Int) /\ Len(w) = n + 1 /\ w[n + 1] = x /\ \A k \in 1 .. n : w[k] = o[k]
  BY <1>7, AppendProperties
<1> HIDE DEF w
<1>9. \A k \in 1 .. n + 1 : k \in 1 .. n \/ k = n + 1
  BY <1>3
<1>10. from + (n + 1) - 1 = b /\ n + 1 > p
  BY <1>1, <1>3, <1>5
<1>11. x = b \/ x = Spoiled
  BY DEF x
<1>12. Loose(o, from, to, p)
  BY DEF p
<1>13. ASSUME NEW k \in 1 .. n + 1
       PROVE  w[k] = from + k - 1 \/ (w[k] = Spoiled /\ k > p /\ BigAt(from + k - 1))
  <2>1. CASE k \in 1 .. n
    BY <2>1, <1>8, <1>12 DEF Loose
  <2>2. CASE k = n + 1
    BY <2>2, <1>6, <1>8, <1>10, <1>11
  <2>3. QED  BY <1>9, <2>1, <2>2
<1>14. Loose(w, from, to, p)
  BY <1>4, <1>8, <1>13 DEF Loose
<1>15. ASSUME Sound(o, from, to), right PROVE Sound(w, from, to)
  <2>1. x = b
    BY <1>15 DEF x
  <2>2. ASSUME NEW k \in 1 .. n + 1 PROVE w[k] = from + k - 1
    <3>1. CASE k \in 1 .. n
      BY <1>15, <3>1, <1>8 DEF Sound
    <3>2. CASE k = n + 1
      BY <2>1, <3>2, <1>8, <1>10
    <3>3. QED  BY <1>9, <3>1, <3>2
  <2>3. QED  BY <2>2, <1>4, <1>8 DEF Sound
<1>16. QED  BY <1>2, <1>3, <1>8, <1>14, <1>15 DEF w, x, b, p


-----------------------------------------------------------------------------
(* fill. *)

LEMMA NewFetched ==
  ASSUME NEW u \in 1 .. Len(units), NEW from, NEW to, Chained(units[u], from, to)
  PROVE  FetchShape(NewFetch(u)) /\ Fetched(NewFetch(u), units[u])
<1> DEFINE run == units[u]
<1>1. Len(run) \in Nat /\ (TypeOf(run[1]) # "g" => Len(run) = 1)
  BY DEF Chained
<1>2. Held(<<>>, run, 0)
  BY DEF Held
<1>3. \/ NewFetch(u) = NoFetch
      \/ NewFetch(u) = [NoFetch EXCEPT !.st = "single"] /\ TypeOf(run[1]) # "g"
      \/ NewFetch(u) = [NoFetch EXCEPT !.st = "next"]
      \/ NewFetch(u) = [NoFetch EXCEPT !.st = "whole"]
  BY DEF NewFetch, UnitType
<1> HIDE DEF run
<1>4. FetchShape(NewFetch(u)) /\ Fetched(NewFetch(u), run)
  BY <1>1, <1>2, <1>3 DEF NoFetch, FetchShape, Fetched
<1>5. QED  BY <1>4 DEF run

(* The units that fill adds: n, n + 1, ... behind those that wait. *)
Adds(more, n, d) == more \in Seq(Nat) /\ Len(more) = d /\ \A k \in 1 .. d : more[k] = n + k - 1

LEMMA Lengthened ==
  ASSUME NEW us, Len(us) \in Nat, NEW n, NEW waiting, NEW front, NEW last \in n .. Len(us) + 1,
         Window(us, n, waiting, front), Len(waiting) + (last - n) <= WINDOW,
         NEW more, Adds(more, n, last - n)
  PROVE  /\ Window(us, last, waiting \o more, front)
         /\ waiting \o more = <<>> => waiting = <<>> /\ last = n
<1> DEFINE d == last - n
           w == waiting \o more
           l == Len(waiting)
<1>1. /\ n \in Nat /\ n >= 1 /\ waiting \in Seq(Nat) /\ l \in Nat /\ front \in Nat \ {0} /\ n = front + l
      /\ \A k \in 1 .. l : waiting[k] = front + k - 1
  BY DEF Window
<1>2. d \in Nat /\ last \in 1 .. Len(us) + 1 /\ last = front + (l + d)
  BY <1>1
<1>3. l + d <= WINDOW
  OBVIOUS
<1>4. more \in Seq(Nat) /\ Len(more) = d /\ \A k \in 1 .. d : more[k] = n + k - 1
  BY DEF Adds
<1> HIDE DEF d, l
<1>5. /\ w \in Seq(Nat) /\ Len(w) = l + d
      /\ \A k \in 1 .. l + d : w[k] = IF k <= l THEN waiting[k] ELSE more[k - l]
  BY <1>1, <1>4, ConcatProperties DEF l
<1> HIDE DEF w
<1>6. ASSUME NEW k \in 1 .. l + d PROVE w[k] = front + k - 1
  <2>1. CASE k <= l
    <3>1. k \in 1 .. l
      BY <2>1, <1>1, <1>2
    <3>2. QED  BY <3>1, <2>1, <1>1, <1>5
  <2>2. CASE ~(k <= l)
    <3>1. k - l \in 1 .. d
      BY <2>2, <1>1, <1>2
    <3>2. w[k] = n + (k - l) - 1
      BY <3>1, <2>2, <1>4, <1>5
    <3>3. QED  BY <3>2, <1>1
  <2>3. QED  BY <2>1, <2>2
<1>7. Window(us, last, w, front)
  BY <1>1, <1>2, <1>3, <1>5, <1>6 DEF Window
<1>8. ASSUME w = <<>> PROVE waiting = <<>> /\ last = n
  <2>1. l = 0 /\ d = 0
    BY <1>8, <1>1, <1>2, <1>5
  <2>2. QED  BY <2>1, <1>1 DEF l, d
<1>9. QED  BY <1>7, <1>8 DEF w

LEMMA FillKeeps ==
  ASSUME NEW from, NEW to, units \in Seq(Seq(Segs)),
         \A u \in 1 .. Len(units) : Chained(units[u], from, to),
         NEW n, NEW waiting, NEW front, NEW keep,
         Window(units, n, waiting, front), Fetches(units, n, keep, fetch), Fill(n, waiting)
  PROVE  /\ Window(units, next', pending', front) /\ Filled(units, next', pending')
         /\ Fetches(units, next', keep, fetch')
         /\ \A u \in 1 .. n - 1 : u \in 1 .. next' - 1 /\ fetch'[u] = fetch[u]
<1> DEFINE room == Room(waiting)
           last == IF n + room <= Len(units) THEN n + room ELSE Len(units) + 1
           full == Len(units)
<1>1. /\ n \in 1 .. full + 1 /\ Len(waiting) \in Nat /\ Len(waiting) <= WINDOW /\ full \in Nat
      /\ WINDOW \in Nat \ {0}
  BY AssembleAssumption DEF Window
<1>2. room = WINDOW - Len(waiting) /\ room \in Nat
  BY <1>1 DEF Room
<1>3. /\ next' = last
      /\ fetch' = [u \in DOMAIN fetch \cup n .. last - 1 |->
                        IF u \in DOMAIN fetch THEN fetch[u] ELSE NewFetch(u)]
      /\ pending' = waiting \o [k \in 1 .. last - n |-> n + k - 1]
  BY DEF Fill
<1>4. /\ last \in n .. full + 1 /\ last \in Nat /\ last - n <= room
      /\ last = n => room = 0 \/ n = full + 1
  <2> HIDE DEF room, full
  <2>1. last = IF n + room <= full THEN n + room ELSE full + 1
    BY DEF full
  <2> HIDE DEF last
  <2>2. QED  BY <1>1, <1>2, <2>1
<1> HIDE DEF room, last
<1>5. Len(waiting) + (last - n) <= WINDOW
  BY <1>1, <1>2, <1>4
<1>6. /\ Window(units, last, pending', front)
      /\ pending' = <<>> => waiting = <<>> /\ last = n
  <2> DEFINE more == [k \in 1 .. last - n |-> n + k - 1]
  <2>1. pending' = waiting \o more /\ more = [k \in 1 .. last - n |-> n + k - 1]
    BY <1>3
  <2> HIDE DEF more
  <2>2. /\ Window(units, last, waiting \o more, front)
        /\ waiting \o more = <<>> => waiting = <<>> /\ last = n
    <3>1. Adds(more, n, last - n)
      <4> DEFINE d == last - n
      <4>1. d \in Nat /\ n \in Nat /\ n >= 1 /\ more = [k \in 1 .. d |-> n + k - 1]
        BY <1>1, <1>4, <2>1
      <4> HIDE DEF d
      <4>2. Adds(more, n, d)
        BY <4>1 DEF Adds
      <4>3. QED  BY <4>2 DEF d
    <3>2. Len(units) \in Nat /\ last \in n .. Len(units) + 1
      BY <1>1, <1>4
    <3>3. QED  BY <1>5, <3>1, <3>2, Lengthened
  <2>3. QED  BY <2>1, <2>2
<1>7. Filled(units, last, pending')
  <2> SUFFICES ASSUME pending' = <<>> PROVE last = full + 1
    BY DEF Filled
  <2>1. waiting = <<>> /\ last = n
    BY <1>6
  <2>2. Len(waiting) = 0
    BY <2>1
  <2>3. QED  BY <2>1, <2>2, <1>1, <1>2, <1>4
<1>8. /\ DOMAIN fetch = 1 .. n - 1
      /\ DOMAIN fetch \cup n .. last - 1 = 1 .. last - 1
      /\ \A u \in 1 .. n - 1 : u \in 1 .. last - 1
      /\ \A u \in 1 .. last - 1 : u \in 1 .. n - 1 \/ u \in n .. full
  <2>1. DOMAIN fetch = 1 .. n - 1
    BY DEF Fetches
  <2>2. (1 .. n - 1) \cup (n .. last - 1) = 1 .. last - 1
    BY <1>1, <1>4
  <2>3. \A u \in 1 .. n - 1 : u \in 1 .. last - 1
    BY <1>1, <1>4
  <2>4. \A u \in 1 .. last - 1 : u \in 1 .. n - 1 \/ u \in n .. full
    BY <1>1, <1>4
  <2>5. QED  BY <2>1, <2>2, <2>3, <2>4
<1>9. fetch' = [u \in 1 .. last - 1 |-> IF u \in 1 .. n - 1 THEN fetch[u] ELSE NewFetch(u)]
  BY <1>3, <1>8
<1>10. \A u \in 1 .. n - 1 : fetch'[u] = fetch[u]
  BY <1>8, <1>9
<1>11. ASSUME NEW u \in 1 .. last - 1
       PROVE  FetchShape(fetch'[u]) /\ (u >= keep => Fetched(fetch'[u], units[u]))
  <2>1. CASE u \in 1 .. n - 1
    BY <2>1, <1>10 DEF Fetches
  <2>2. CASE u \notin 1 .. n - 1
    <3>1. fetch'[u] = NewFetch(u)
      BY <2>2, <1>9
    <3>2. u \in 1 .. full
      BY <2>2, <1>8, <1>1
    <3>3. QED  BY <3>1, <3>2, NewFetched
  <2>3. QED  BY <2>1, <2>2
<1>12. DOMAIN fetch' = 1 .. last - 1 /\ fetch' = [u \in 1 .. last - 1 |-> fetch'[u]]
  BY <1>9
<1>13. Fetches(units, last, keep, fetch')
  BY <1>11, <1>12 DEF Fetches
<1>14. QED  BY <1>3, <1>6, <1>7, <1>8, <1>10, <1>13


-----------------------------------------------------------------------------
(* The steps of a unit's fetch. *)

LEMMA SameRange == ask' = ask => Begin' = Begin /\ To' = To
BY DEF Begin, From, To

(* A step that only changes one unit's fetch, which is still under way. *)
LEMMA FetchStep ==
  ASSUME Inv, UNCHANGED <<ask, units, next, pending, gen, kept>>, NEW u \in DOMAIN fetch, NEW f,
         fetch' = [fetch EXCEPT ![u] = f], fetch[u].st # "ok",
         FetchShape(fetch[u]) =>
            /\ FetchShape(f)
            /\ Chained(units[u], Begin, To) /\ Fetched(fetch[u], units[u]) => Fetched(f, units[u])
  PROVE  Inv'
<1> DEFINE from == Begin
           to == To
<1>1. from' = from /\ to' = to
  BY SameRange
<1>2. ~Fresh
  BY DEF Fresh
<1>3. gen.pc \notin {"idle", "refused", "units", "fill"}
  BY <1>2 DEF Inv
<1>4. ASSUME NEW keep, Fetches(units, next, keep, fetch), Linked(units, from, to, Len(Segments) + 1),
             next \in 1 .. Len(units) + 1
      PROVE  Fetches(units, next, keep, fetch')
  <2>1. /\ DOMAIN fetch = 1 .. next - 1 /\ u \in 1 .. next - 1
        /\ fetch' = [v \in 1 .. next - 1 |-> IF v = u THEN f ELSE fetch[v]]
    BY <1>4 DEF Fetches
  <2>2. /\ DOMAIN fetch' = 1 .. next - 1 /\ fetch' = [v \in 1 .. next - 1 |-> fetch'[v]]
        /\ fetch'[u] = f /\ \A v \in 1 .. next - 1 : v # u => fetch'[v] = fetch[v]
    BY <2>1
  <2>3. Chained(units[u], from, to)
    <3>1. Len(units) \in Nat
      BY <1>4 DEF Linked
    <3>2. u \in 1 .. Len(units)
      BY <1>4, <2>1, <3>1
    <3>3. QED  BY <1>4, <3>2 DEF Linked
  <2>4. ASSUME NEW v \in 1 .. next - 1
        PROVE  FetchShape(fetch'[v]) /\ (v >= keep => Fetched(fetch'[v], units[v]))
    <3>1. CASE v = u
      BY <3>1, <1>4, <2>1, <2>2, <2>3 DEF Fetches
    <3>2. CASE v # u
      BY <3>2, <1>4, <2>2 DEF Fetches
    <3>3. QED  BY <3>1, <3>2
  <2>5. QED  BY <2>2, <2>4 DEF Fetches
<1>5. ASSUME AtShift(units, next, pending, fetch, kept, from, to),
             Linked(units, from, to, Len(Segments) + 1)
      PROVE  AtShift(units, next, pending, fetch', kept, from, to)
  <2>1. next \in 1 .. Len(units) + 1
    BY <1>5 DEF AtShift, Window
  <2>2. Fetches(units, next, next - Len(pending), fetch')
    BY <1>4, <1>5, <2>1 DEF AtShift
  <2>3. QED  BY <1>5, <2>2 DEF AtShift
<1>6. ASSUME AtWork(gen, units, next, pending, fetch, kept, from, to),
             Linked(units, from, to, Len(Segments) + 1)
      PROVE  AtWork(gen, units, next, pending, fetch', kept, from, to)
  <2>1. next \in 1 .. Len(units) + 1
    BY <1>6 DEF AtWork, Window
  <2>2. Fetches(units, next, gen.cur, fetch')
    BY <1>4, <1>6, <2>1 DEF AtWork
  <2>3. gen.pc = "yield" => fetch'[gen.cur].st = "ok"
    <3> SUFFICES ASSUME gen.pc = "yield" PROVE fetch'[gen.cur].st = "ok"
      OBVIOUS
    <3>1. fetch[gen.cur].st = "ok"
      BY <1>6 DEF AtWork
    <3>2. fetch'[gen.cur] = fetch[gen.cur]
      BY <3>1
    <3>3. QED  BY <3>1, <3>2
  <2>4. QED  BY <1>6, <2>2, <2>3 DEF AtWork
<1> HIDE DEF from, to
<1>7. QED  BY <1>1, <1>3, <1>5, <1>6 DEF Inv, from, to

LEMMA HeldMore ==
  ASSUME NEW bufs, NEW run \in Seq(Segs), NEW n \in Nat, n + 1 <= Len(run), Held(bufs, run, n)
  PROVE  Held(Append(bufs, Right(run[n + 1])), run, n + 1)
<1> DEFINE x == Right(run[n + 1])
           w == Append(bufs, x)
<1>1. run[n + 1] \in Segs
  OBVIOUS
<1>2. x \in Seq(Int)
  BY <1>1, RightIs
<1>3. bufs \in Seq(Seq(Int)) /\ Len(bufs) = n /\ \A k \in 1 .. n : bufs[k] = Right(run[k])
  BY DEF Held
<1> HIDE DEF x
<1>4. /\ w \in Seq(Seq(Int)) /\ Len(w) = n + 1 /\ w[n + 1] = x /\ \A k \in 1 .. n : w[k] = bufs[k]
  BY <1>2, <1>3, AppendProperties
<1> HIDE DEF w
<1>5. \A k \in 1 .. n + 1 : k \in 1 .. n \/ k = n + 1
  OBVIOUS
<1>6. Held(w, run, n + 1)
  BY <1>3, <1>4, <1>5 DEF Held, x
<1>7. QED  BY <1>6 DEF w, x

LEMMA ContinueKeeps ==
  ASSUME NEW u, NEW f, NEW from, NEW to, FetchShape(f), f.st = "next"
  PROVE  /\ FetchShape(Continue(u, f))
         /\ Chained(units[u], from, to) /\ Fetched(f, units[u]) => Fetched(Continue(u, f), units[u])
<1> DEFINE n == f.item + 1
           run == units[u]
           i == run[n]
           g == Continue(u, f)
<1>1. \/ n > Len(run) /\ g = [f EXCEPT !.st = "ok", !.tries = <<>>]
      \/ ~(n > Len(run)) /\ g = [f EXCEPT !.st = "next", !.item = n, !.bufs = Append(@, Right(i))]
      \/ ~(n > Len(run)) /\ g = [f EXCEPT !.st = "try", !.item = n, !.tries = Fallback(i)]
  BY DEF Continue
<1>2. f = [st |-> f.st, item |-> f.item, good |-> f.good, tries |-> f.tries, bufs |-> f.bufs]
  BY DEF FetchShape
<1> HIDE DEF n, i, g, run
<1>3. \/ n > Len(run) /\ g = [st |-> "ok", item |-> f.item, good |-> f.good, tries |-> <<>>, bufs |-> f.bufs]
      \/ ~(n > Len(run)) /\ g = [st |-> "next", item |-> n, good |-> f.good, tries |-> f.tries,
                                 bufs |-> Append(f.bufs, Right(i))]
      \/ ~(n > Len(run)) /\ g = [st |-> "try", item |-> n, good |-> f.good, tries |-> Fallback(i), bufs |-> f.bufs]
  BY <1>1, <1>2
<1>4. FetchShape(g)
  BY <1>3 DEF FetchShape
<1>5. ASSUME Chained(run, from, to), Fetched(f, run) PROVE Fetched(g, run)
  <2>1. run \in Seq(Segs) /\ Len(run) \in Nat /\ f.item \in 0 .. Len(run) /\ Held(f.bufs, run, f.item)
    BY <1>5 DEF Chained, Fetched
  <2>2. CASE n > Len(run)
    <3>1. f.item = Len(run)
      BY <2>1, <2>2 DEF n
    <3>2. g.st = "ok" /\ g.item = f.item /\ g.bufs = f.bufs
      BY <1>3, <2>2
    <3>3. QED  BY <2>1, <3>1, <3>2 DEF Fetched
  <2>3. CASE ~(n > Len(run))
    <3>1. f.item \in Nat /\ n \in 0 .. Len(run) /\ n >= 1 /\ n - 1 = f.item /\ f.item + 1 <= Len(run)
      BY <2>1, <2>3 DEF n
    <3>2. Held(Append(f.bufs, Right(i)), run, n)
      BY <2>1, <3>1, HeldMore DEF n, i
    <3>3. \/ g.st = "next" /\ g.item = n /\ g.bufs = Append(f.bufs, Right(i))
          \/ g.st = "try" /\ g.item = n /\ g.bufs = f.bufs
      BY <1>3, <2>3
    <3>4. QED  BY <2>1, <3>1, <3>2, <3>3 DEF Fetched
  <2>4. QED  BY <2>2, <2>3
<1>6. QED  BY <1>4, <1>5 DEF g, run

LEMMA NextItemKeeps == ASSUME Inv, NEW u, NextItem(u) PROVE Inv'
<1>1. u \in DOMAIN fetch /\ fetch[u].st = "next"
  BY DEF NextItem, Reading
<1>2. fetch' = [fetch EXCEPT ![u] = Continue(u, fetch[u])]
  BY DEF NextItem, Resolve
<1>3. QED  BY <1>1, <1>2, ContinueKeeps, FetchStep DEF NextItem


LEMMA RejectKeeps ==
  ASSUME Inv, NEW u \in DOMAIN fetch, fetch[u].st # "ok", Reject(u),
         UNCHANGED <<ask, units, next, pending, gen, kept>>
  PROVE  Inv'
<1> DEFINE f == [fetch[u] EXCEPT !.st = "failed"]
<1>1. fetch' = [fetch EXCEPT ![u] = f]
  BY DEF Reject
<1>2. FetchShape(fetch[u]) => FetchShape(f) /\ f.st = "failed" /\ f.item = fetch[u].item
  BY DEF FetchShape
<1> HIDE DEF f
<1>3. FetchShape(fetch[u]) => (Fetched(fetch[u], units[u]) => Fetched(f, units[u]))
  BY <1>2 DEF Fetched
<1>4. QED  BY <1>1, <1>2, <1>3, FetchStep

LEMMA NoneLeftKeeps == ASSUME Inv, NEW u, NoneLeft(u) PROVE Inv'
BY RejectKeeps DEF NoneLeft, Reading

LEMMA SingleKeeps == ASSUME Inv, NEW u, NEW right \in BOOLEAN, Single(u, right) PROVE Inv'
<1> DEFINE i == units[u][1]
           f == [fetch[u] EXCEPT !.st = "ok", !.bufs = <<Right(i)>>]
<1>1. u \in DOMAIN fetch /\ fetch[u].st = "single"
  BY DEF Single, Reading
<1>2. UNCHANGED <<ask, units, next, pending, gen, kept>>
  BY DEF Single
<1>3. CASE ~right
  <2>1. Reject(u)
    BY <1>3 DEF Single
  <2>2. QED  BY <1>1, <1>2, <2>1, RejectKeeps
<1>4. CASE right
  <2>1. fetch' = [fetch EXCEPT ![u] = f]
    BY <1>4 DEF Single, Resolve
  <2>0. f = [fetch[u] EXCEPT !.st = "ok", !.bufs = <<Right(i)>>]
    OBVIOUS
  <2> HIDE DEF f
  <2>2. FetchShape(fetch[u]) =>
          FetchShape(f) /\ f.st = "ok" /\ f.item = fetch[u].item /\ f.bufs = <<Right(i)>>
    <3> SUFFICES ASSUME FetchShape(fetch[u])
                 PROVE  FetchShape(f) /\ f.st = "ok" /\ f.item = fetch[u].item /\ f.bufs = <<Right(i)>>
      OBVIOUS
    <3>1. fetch[u] = [st |-> fetch[u].st, item |-> fetch[u].item, good |-> fetch[u].good,
                     tries |-> fetch[u].tries, bufs |-> fetch[u].bufs]
      BY DEF FetchShape
    <3>2. f = [st |-> "ok", item |-> fetch[u].item, good |-> fetch[u].good,
              tries |-> fetch[u].tries, bufs |-> <<Right(i)>>]
      BY <2>0, <3>1
    <3>3. QED  BY <3>2 DEF FetchShape
  <2>3. ASSUME FetchShape(fetch[u]), Chained(units[u], Begin, To), Fetched(fetch[u], units[u])
        PROVE  Fetched(f, units[u])
    <3>1. Len(units[u]) = 1 /\ fetch[u].item = 0 /\ i \in Segs
      BY <1>1, <2>3 DEF Fetched, Chained
    <3>2. Right(i) \in Seq(Int)
      BY <3>1, RightIs
    <3>3. Held(<<Right(i)>>, units[u], 1)
      <4> HIDE DEF i
      <4>1. <<Right(i)>> \in Seq(Seq(Int)) /\ Len(<<Right(i)>>) = 1 /\ <<Right(i)>>[1] = Right(i)
        BY <3>2
      <4>2. \A k \in 1 .. 1 : k = 1
        OBVIOUS
      <4>3. QED  BY <4>1, <4>2 DEF Held, i
    <3>4. QED  BY <2>2, <2>3, <3>1, <3>3 DEF Fetched
  <2>4. QED  BY <1>1, <1>2, <2>1, <2>2, <2>3, FetchStep
<1>5. QED  BY <1>3, <1>4

LEMMA WholeKeeps == ASSUME Inv, NEW u, NEW good, NEW slow, Whole(u, good, slow) PROVE Inv'
<1> DEFINE f == [fetch[u] EXCEPT !.st = "next", !.good = good]
<1>1. u \in DOMAIN fetch /\ fetch[u].st = "whole"
  BY DEF Whole, Reading
<1>2. UNCHANGED <<ask, units, next, pending, gen, kept>> /\ fetch' = [fetch EXCEPT ![u] = f]
  BY DEF Whole, Resolve
<1>0. f = [fetch[u] EXCEPT !.st = "next", !.good = good]
  OBVIOUS
<1> HIDE DEF f
<1>3. FetchShape(fetch[u]) =>
        FetchShape(f) /\ f.st = "next" /\ f.item = fetch[u].item /\ f.bufs = fetch[u].bufs
  <2> SUFFICES ASSUME FetchShape(fetch[u])
               PROVE  FetchShape(f) /\ f.st = "next" /\ f.item = fetch[u].item /\ f.bufs = fetch[u].bufs
    OBVIOUS
  <2>1. fetch[u] = [st |-> fetch[u].st, item |-> fetch[u].item, good |-> fetch[u].good,
                   tries |-> fetch[u].tries, bufs |-> fetch[u].bufs]
    BY DEF FetchShape
  <2>2. f = [st |-> "next", item |-> fetch[u].item, good |-> good,
            tries |-> fetch[u].tries, bufs |-> fetch[u].bufs]
    BY <1>0, <2>1
  <2>3. QED  BY <2>2 DEF FetchShape
<1>4. ASSUME FetchShape(fetch[u]), Fetched(fetch[u], units[u]) PROVE Fetched(f, units[u])
  <2>1. fetch[u].item = 0 /\ fetch[u].bufs = <<>> /\ 0 \in 0 .. Len(units[u])
    BY <1>1, <1>4 DEF Fetched
  <2>2. Held(<<>>, units[u], 0)
    BY DEF Held
  <2>3. QED  BY <1>3, <1>4, <2>1, <2>2 DEF Fetched
<1>5. QED  BY <1>1, <1>2, <1>3, <1>4, FetchStep

LEMMA TryKeeps == ASSUME Inv, NEW u, NEW answer, Try(u, answer) PROVE Inv'
<1> DEFINE i == units[u][fetch[u].item]
           buf == Read(i, answer = "right")
           f == [fetch[u] EXCEPT !.st = "next", !.tries = <<>>, !.bufs = Append(@, buf)]
           g == [fetch[u] EXCEPT !.tries = Rest(@)]
<1>1. u \in DOMAIN fetch /\ fetch[u].st = "try"
  BY DEF Try, Reading
<1>2. UNCHANGED <<ask, units, next, pending, gen, kept>>
  BY DEF Try
<1>3. CASE answer \in {"right", "wrong"} /\ Checks(i, buf)
  <2>1. fetch' = [fetch EXCEPT ![u] = f] /\ buf = Right(i)
    BY <1>3 DEF Try, Resolve, Checks
  <2>0. f = [fetch[u] EXCEPT !.st = "next", !.tries = <<>>, !.bufs = Append(fetch[u].bufs, Right(i))]
    BY <2>1
  <2> HIDE DEF buf, f
  <2>2. FetchShape(fetch[u]) =>
          FetchShape(f) /\ f.st = "next" /\ f.item = fetch[u].item /\ f.bufs = Append(fetch[u].bufs, Right(i))
    <3> SUFFICES ASSUME FetchShape(fetch[u])
                 PROVE  FetchShape(f) /\ f.st = "next" /\ f.item = fetch[u].item /\ f.bufs = Append(fetch[u].bufs, Right(i))
      OBVIOUS
    <3>1. fetch[u] = [st |-> fetch[u].st, item |-> fetch[u].item, good |-> fetch[u].good,
                     tries |-> fetch[u].tries, bufs |-> fetch[u].bufs]
      BY DEF FetchShape
    <3>2. f = [st |-> "next", item |-> fetch[u].item, good |-> fetch[u].good,
              tries |-> <<>>, bufs |-> Append(fetch[u].bufs, Right(i))]
      BY <2>0, <3>1
    <3>3. QED  BY <3>2 DEF FetchShape
  <2>3. ASSUME FetchShape(fetch[u]), Chained(units[u], Begin, To), Fetched(fetch[u], units[u])
        PROVE  Fetched(f, units[u])
    <3> DEFINE n == fetch[u].item
               run == units[u]
    <3>1. /\ run \in Seq(Segs) /\ Len(run) \in Nat /\ n \in 0 .. Len(run) /\ n >= 1
          /\ Held(fetch[u].bufs, run, n - 1)
      BY <1>1, <2>3 DEF Chained, Fetched
    <3>2. n - 1 \in Nat /\ (n - 1) + 1 = n /\ n <= Len(run)
      BY <3>1
    <3>3. Held(Append(fetch[u].bufs, Right(run[n])), run, n)
      <4> HIDE DEF n, run
      <4>1. Held(Append(fetch[u].bufs, Right(run[(n - 1) + 1])), run, (n - 1) + 1)
        BY <3>1, <3>2, HeldMore
      <4>2. QED  BY <3>2, <4>1
    <3>4. QED  BY <2>2, <2>3, <3>1, <3>3 DEF Fetched
  <2>4. QED  BY <1>1, <1>2, <2>1, <2>2, <2>3, FetchStep
<1>4. CASE ~(answer \in {"right", "wrong"} /\ Checks(i, buf))
  <2>1. fetch' = [fetch EXCEPT ![u] = g]
    BY <1>4 DEF Try, Resolve
  <2>2. FetchShape(fetch[u]) =>
          FetchShape(g) /\ g.st = fetch[u].st /\ g.item = fetch[u].item /\ g.bufs = fetch[u].bufs
    BY DEF FetchShape
  <2> HIDE DEF g
  <2>3. ASSUME FetchShape(fetch[u]), Fetched(fetch[u], units[u]) PROVE Fetched(g, units[u])
    BY <2>2, <2>3 DEF Fetched
  <2>4. QED  BY <1>1, <1>2, <2>1, <2>2, <2>3, FetchStep
<1>5. QED  BY <1>3, <1>4

LEMMA FetchingKeeps == ASSUME Inv, NEW u \in DOMAIN fetch, Fetching(u) PROVE Inv'
BY SingleKeeps, WholeKeeps, NextItemKeeps, NoneLeftKeeps, TryKeeps DEF Fetching


-----------------------------------------------------------------------------
(* The steps of the generator. *)

(* The fields of the generator's record after an update. *)
SetsPc(h, g, pc) == h = [g EXCEPT !.pc = pc]
SetsItem(h, g, n) == h = [g EXCEPT !.item = n]

LEMMA GenPc ==
  ASSUME NEW g, NEW h, NEW pc, GenShape(g), SetsPc(h, g, pc)
  PROVE  GenShape(h) /\ h.pc = pc /\ h.cur = g.cur /\ h.item = g.item /\ h.at = g.at /\ h.clean = g.clean
<1>1. g = [pc |-> g.pc, cur |-> g.cur, item |-> g.item, left |-> g.left, at |-> g.at, clean |-> g.clean]
  BY DEF GenShape
<1>2. h = [pc |-> pc, cur |-> g.cur, item |-> g.item, left |-> g.left, at |-> g.at, clean |-> g.clean]
  BY <1>1 DEF SetsPc
<1>3. QED  BY <1>2 DEF GenShape

LEMMA GenItem ==
  ASSUME NEW g, NEW h, NEW n, GenShape(g), SetsItem(h, g, n)
  PROVE  GenShape(h) /\ h.pc = g.pc /\ h.cur = g.cur /\ h.item = n
<1>1. g = [pc |-> g.pc, cur |-> g.cur, item |-> g.item, left |-> g.left, at |-> g.at, clean |-> g.clean]
  BY DEF GenShape
<1>2. h = [pc |-> g.pc, cur |-> g.cur, item |-> n, left |-> g.left, at |-> g.at, clean |-> g.clean]
  BY <1>1 DEF SetsItem
<1>3. QED  BY <1>2 DEF GenShape

LEMMA InitInv == Init => Inv
<1> SUFFICES ASSUME Init PROVE Inv
  OBVIOUS
<1>1. ask.range \in Ranges
  BY DEF Init
<1>2. GenShape(gen) /\ gen.pc = "idle" /\ gen.item = 1
  BY DEF Init, GenShape
<1>3. Fresh
  BY DEF Init, Fresh
<1>4. units = <<>>
  BY DEF Init
<1>5. QED  BY <1>1, <1>2, <1>3, <1>4 DEF Inv, Working

LEMMA StartKeeps == ASSUME Inv, FileSize > 0, Start PROVE Inv'
<1>1. UNCHANGED <<ask, units, next, pending, fetch, kept>> /\ gen.pc = "idle"
  BY DEF Start, Live
<1>2. Begin' = Begin /\ To' = To /\ Fresh' /\ units' = <<>> /\ gen.item = 1 /\ GenShape(gen)
  BY <1>1, SameRange DEF Inv, Fresh
<1>3. CASE From > To \/ From >= FileSize
  <2>1. SetsPc(gen', gen, "refused")
    BY <1>3 DEF Start, SetsPc
  <2>2. GenShape(gen') /\ gen'.pc = "refused"
    BY <1>2, <2>1, GenPc
  <2>3. QED  BY <1>1, <1>2, <2>2 DEF Inv, Working
<1>4. CASE ~(From > To \/ From >= FileSize)
  <2>1. SetsPc(gen', gen, "units")
    BY <1>4 DEF Start, SetsPc
  <2>2. GenShape(gen') /\ gen'.pc = "units" /\ gen'.item = 1
    BY <1>2, <2>1, GenPc
  <2>3. From \in Int /\ Begin \in Nat /\ To \in Nat /\ To < FileSize /\ (From <= To <=> Begin <= To)
    BY RangeInts DEF Inv
  <2>4. Real(Begin, To)
    BY <1>4, <2>3 DEF Real
  <2>5. Linked(<<>>, Begin, To, 1)
    BY <2>4, LinkedStart
  <2>6. 1 \in 1 .. Len(Segments) + 1
    BY SegmentFacts
  <2>7. QED  BY <1>1, <1>2, <2>2, <2>4, <2>5, <2>6 DEF Inv, Working
<1>5. QED  BY <1>3, <1>4

LEMMA GroupedLinked ==
  ASSUME NEW i \in Segs, ask.range \in Ranges, Real(Begin, To), Linked(units, Begin, To, i)
  PROVE  Linked(Grouped(units, i), Begin, To, i + 1)
<1> DEFINE run == IF units = <<>> THEN <<>> ELSE units[Len(units)]
<1>1. Covered(i) <=> Meets(Begin, To, i)
  <2>1. CASE Segments[i].len > 0
    <3>1. Base[i] + Segments[i].len - 1 \in Nat
      BY <2>1, SegPlace
    <3> DEFINE e == Base[i] + Segments[i].len - 1
    <3>2. From \in Int /\ Begin \in Nat /\ (From <= e <=> Begin <= e) /\ e \in Nat
      BY <3>1, RangeInts
    <3>3. (e >= From) <=> (e >= Begin)
      <4> HIDE DEF e
      <4>1. QED  BY <3>2
    <3>4. QED  BY <3>3 DEF Covered, Meets
  <2>2. CASE ~(Segments[i].len > 0)
    BY <2>2 DEF Covered, Meets
  <2>3. QED  BY <2>1, <2>2
<1>2. CASE ~Covered(i)
  <2>1. Grouped(units, i) = units
    BY <1>2 DEF Grouped
  <2>2. QED  BY <1>1, <1>2, <2>1, LinkedSkip
<1>3. CASE Covered(i) /\ Joins(run, i)
  <2>1. Grouped(units, i) = [units EXCEPT ![Len(units)] = Append(units[Len(units)], i)]
    BY <1>3 DEF Grouped
  <2>2. run # <<>> /\ run[Len(run)] = i - 1 /\ TypeOf(i - 1) = "g"
    BY <1>3 DEF Joins
  <2>3. units # <<>> /\ Last(units[Len(units)]) = i - 1
    BY <2>2 DEF Last
  <2>4. Linked([units EXCEPT ![Len(units)] = Append(units[Len(units)], i)], Begin, To, i + 1)
    BY <1>1, <1>3, <2>2, <2>3, LinkedJoin
  <2>5. QED  BY <2>1, <2>4, Zenon
<1>4. CASE Covered(i) /\ ~Joins(run, i)
  <2>1. Grouped(units, i) = Append(units, <<i>>)
    BY <1>4 DEF Grouped
  <2>2. QED  BY <1>1, <1>4, <2>1, LinkedAppend
<1>5. QED  BY <1>2, <1>3, <1>4

LEMMA GroupKeeps == ASSUME Inv, Group PROVE Inv'
<1>1. UNCHANGED <<ask, next, pending, fetch, kept>> /\ gen.pc = "units"
  BY DEF Group, Live
<1>2. /\ Begin' = Begin /\ To' = To /\ Fresh' /\ GenShape(gen) /\ Real(Begin, To) /\ ask.range \in Ranges
      /\ gen.item \in 1 .. Len(Segments) + 1 /\ Linked(units, Begin, To, gen.item)
  BY <1>1, SameRange DEF Inv, Fresh
<1>3. CASE gen.item > Len(Segments)
  <2> DEFINE h == [gen EXCEPT !.pc = "fill", !.item = 1]
  <2>1. gen' = h /\ units' = units
    BY <1>3 DEF Group
  <2>2. GenShape(gen') /\ gen'.pc = "fill"
    <3>1. gen = [pc |-> gen.pc, cur |-> gen.cur, item |-> gen.item, left |-> gen.left,
                 at |-> gen.at, clean |-> gen.clean]
      BY <1>2 DEF GenShape
    <3>2. gen' = [pc |-> "fill", cur |-> gen.cur, item |-> 1, left |-> gen.left,
                  at |-> gen.at, clean |-> gen.clean]
      BY <2>1, <3>1
    <3>3. QED  BY <3>2 DEF GenShape
  <2>3. gen.item = Len(Segments) + 1
    BY <1>2, <1>3, SegmentFacts
  <2> HIDE DEF h
  <2>4. QED  BY <1>1, <1>2, <2>1, <2>2, <2>3 DEF Inv, Working
<1>4. CASE ~(gen.item > Len(Segments))
  <2>1. SetsItem(gen', gen, gen.item + 1) /\ units' = Grouped(units, gen.item)
    BY <1>4 DEF Group, SetsItem
  <2>2. GenShape(gen') /\ gen'.pc = "units" /\ gen'.item = gen.item + 1
    BY <1>1, <1>2, <2>1, GenItem
  <2>3. gen.item \in Segs /\ gen.item + 1 \in 1 .. Len(Segments) + 1
    BY <1>2, <1>4, SegmentFacts DEF Segs
  <2>4. Linked(units', Begin, To, gen.item + 1)
    BY <1>2, <2>1, <2>3, GroupedLinked
  <2>5. QED  BY <1>1, <1>2, <2>2, <2>3, <2>4 DEF Inv, Working
<1>5. QED  BY <1>3, <1>4

LEMMA FirstFillKeeps == ASSUME Inv, FirstFill PROVE Inv'
<1>1. UNCHANGED <<ask, units, kept>> /\ gen.pc = "fill" /\ Fill(1, <<>>) /\ SetsPc(gen', gen, "shift")
  BY DEF FirstFill, Live, SetsPc
<1>2. /\ Begin' = Begin /\ To' = To /\ Fresh /\ GenShape(gen) /\ Real(Begin, To) /\ ask.range \in Ranges
      /\ Linked(units, Begin, To, Len(Segments) + 1)
  BY <1>1, SameRange DEF Inv
<1>3. GenShape(gen') /\ gen'.pc = "shift"
  BY <1>1, <1>2, GenPc
<1>4. units \in Seq(Seq(Segs)) /\ Len(units) \in Nat /\ \A u \in 1 .. Len(units) : Chained(units[u], Begin, To)
  BY <1>2 DEF Linked
<1>5. Window(units, 1, <<>>, 1)
  BY <1>4, AssembleAssumption DEF Window
<1>6. Fetches(units, 1, 1, fetch)
  <2>1. 1 .. 1 - 1 = {} /\ fetch = [u \in {} |-> NoFetch]
    BY <1>2 DEF Fresh
  <2>2. DOMAIN fetch = {} /\ fetch = [u \in {} |-> fetch[u]]
    BY <2>1
  <2>3. QED  BY <2>1, <2>2 DEF Fetches
<1>7. /\ Window(units, next', pending', 1) /\ Filled(units, next', pending')
      /\ Fetches(units, next', 1, fetch')
  BY <1>1, <1>4, <1>5, <1>6, FillKeeps
<1>8. next' - Len(pending') = 1
  BY <1>7 DEF Window
<1>9. Sound(kept, Begin, To) /\ Len(kept) = 0
  <2>1. kept = <<>> /\ Begin \in Nat /\ To \in Nat /\ Begin <= To
    BY <1>2 DEF Fresh, Real
  <2>2. QED  BY <2>1 DEF Sound
<1>10. AtShift(units, next', pending', fetch', kept, Begin, To)
  BY <1>2, <1>7, <1>8, <1>9 DEF AtShift, Linked
<1>11. QED  BY <1>1, <1>2, <1>3, <1>10 DEF Inv, Working


(* The fetches of units that are through need not be kept. *)
LEMMA FetchesLess ==
  ASSUME NEW us, NEW n \in Int, NEW k \in Int, NEW m \in Int, k <= m, NEW fs, Fetches(us, n, k, fs)
  PROVE  Fetches(us, n, m, fs)
<1>1. \A u \in 1 .. n - 1 : u >= m => u >= k
  OBVIOUS
<1>2. QED  BY <1>1 DEF Fetches

(* The last segment of unit cur is kept: on with the next unit. *)
LEMMA UnitDone ==
  ASSUME NEW from, NEW to, NEW cur, NEW us, NEW n, NEW waiting, NEW fs, NEW o,
         cur \in 1 .. Len(us), Linked(us, from, to, Len(Segments) + 1),
         Window(us, n, waiting, cur + 1), Filled(us, n, waiting),
         Fetches(us, n, cur + 1, fs), Sound(o, from, to), Len(o) = Place(from, to, Last(us[cur]) + 1)
  PROVE  AtShift(us, n, waiting, fs, o, from, to)
<1>1. n - Len(waiting) = cur + 1
  <2>1. Len(waiting) \in Nat /\ n = (cur + 1) + Len(waiting) /\ cur + 1 \in Nat
    BY DEF Window
  <2>2. QED  BY <2>1
<1>2. Len(o) = Place(from, to, First(us, cur + 1, Len(Segments) + 1))
  BY DEF Linked
<1>3. QED  BY <1>1, <1>2 DEF AtShift

LEMMA ShiftKeeps == ASSUME Inv, Shift PROVE Inv'
<1> DEFINE front == next - Len(pending)
<1>1. UNCHANGED <<ask, units, next, fetch, kept>> /\ gen.pc = "shift" /\ gen' = Take(pending)
  BY DEF Shift, Live
<1>2. /\ Begin' = Begin /\ To' = To /\ Real(Begin, To) /\ ask.range \in Ranges
      /\ Linked(units, Begin, To, Len(Segments) + 1)
      /\ AtShift(units, next, pending, fetch, kept, Begin, To)
  BY <1>1, SameRange DEF Inv
<1>3. /\ Window(units, next, pending, front) /\ Fetches(units, next, front, fetch)
      /\ Filled(units, next, pending)
      /\ Sound(kept, Begin, To) /\ Len(kept) = Place(Begin, To, First(units, front, Len(Segments) + 1))
  BY <1>2 DEF AtShift
<1>4. /\ units \in Seq(Seq(Segs)) /\ Len(units) \in Nat /\ pending \in Seq(Nat) /\ Len(pending) \in Nat
      /\ next \in 1 .. Len(units) + 1 /\ front \in Nat \ {0} /\ next = front + Len(pending)
      /\ \A k \in 1 .. Len(pending) : pending[k] = front + k - 1
      /\ Len(pending) <= WINDOW
  BY <1>2, <1>3 DEF Linked, Window
<1> HIDE DEF front
<1>5. CASE pending = <<>>
  <2>1. GenShape(gen') /\ gen'.pc = "done"
    BY <1>1, <1>5 DEF Take, GenShape
  <2>2. front = Len(units) + 1
    <3>1. Len(pending) = 0
      BY <1>5
    <3>2. QED  BY <1>3, <1>4, <1>5, <3>1 DEF Filled
  <2>3. First(units, front, Len(Segments) + 1) = Len(Segments) + 1
    BY <1>4, <2>2 DEF First
  <2>4. Len(kept) = To + 1 - Begin
    <3>1. Len(kept) = Cut(Begin, To, FileSize)
      BY <1>3, <2>3 DEF Place, FileSize
    <3>2. Begin \in Nat /\ To \in Nat /\ Begin <= To /\ FileSize > To /\ FileSize \in Nat
      BY <1>2, FileSizeNat DEF Real
    <3>3. QED  BY <3>1, <3>2, CutBounds
  <2>5. QED  BY <1>1, <1>2, <1>3, <2>1, <2>4 DEF Inv, Working
<1>6. CASE pending # <<>>
  <2> DEFINE u == Head(pending)
             i == units[u][1]
             rest == Tail(pending)
  <2>1. Len(pending) >= 1 /\ u = front
    BY <1>4, <1>6
  <2>2. /\ front \in 1 .. Len(units) /\ front \in 1 .. next - 1
    BY <1>4, <2>1
  <2>3. Window(units, next, rest, front + 1)
    <3>1. /\ rest \in Seq(Nat) /\ Len(rest) = Len(pending) - 1
          /\ \A k \in 1 .. Len(rest) : rest[k] = pending[k + 1]
      BY <1>4, <1>6, HeadTailProperties
    <3> HIDE DEF rest
    <3>2. ASSUME NEW k \in 1 .. Len(rest) PROVE rest[k] = (front + 1) + k - 1
      <4>1. k + 1 \in 1 .. Len(pending)
        BY <1>4, <3>1
      <4>2. pending[k + 1] = front + (k + 1) - 1
        BY <1>4, <4>1
      <4>3. QED  BY <1>4, <3>1, <4>2
    <3>3. Len(rest) <= WINDOW /\ front + 1 \in Nat \ {0} /\ next = (front + 1) + Len(rest)
      BY <1>4, <3>1, AssembleAssumption
    <3>4. QED  BY <1>4, <3>1, <3>2, <3>3 DEF Window
  <2>4. pending' = rest
    BY <1>6 DEF Shift
  <2>5. /\ GenShape(gen') /\ gen'.cur = u /\ gen'.item = 1 /\ gen'.at = 0 /\ gen'.clean = TRUE
        /\ gen'.pc = IF TypeOf(i) = "P" THEN "pieces" ELSE IF TypeOf(i) = "big" THEN "big" ELSE "await"
    <3> DEFINE l == IF UnitType(u) = "big" THEN Candidates(units[u][1]) ELSE <<>>
               pc == CASE UnitType(u) = "P" -> "pieces" [] UnitType(u) = "big" -> "big" [] OTHER -> "await"
    <3>1. gen' = [pc |-> pc, cur |-> u, item |-> 1, left |-> l, at |-> 0, clean |-> TRUE]
      BY <1>1, <1>6 DEF Take
    <3>2. pc = IF TypeOf(i) = "P" THEN "pieces" ELSE IF TypeOf(i) = "big" THEN "big" ELSE "await"
      BY DEF UnitType
    <3> HIDE DEF l, pc, u, i
    <3>3. QED  BY <3>1, <3>2 DEF GenShape
  <2>6. i = First(units, front, Len(Segments) + 1)
    BY <1>4, <2>1, <2>2 DEF First
  <2>7. i \in Segs
    BY <1>2, <2>1, <2>2 DEF Linked, Chained
  <2>8. /\ Len(kept) = Place(Begin, To, i) /\ 0 \in 0 .. Segments[i].len
        /\ Place(Begin, To, i) = Cut(Begin, To, Base[i] + 0)
    BY <1>3, <2>6, <2>7, SegPlace DEF Place
  <2>9. Loose(kept, Begin, To, Place(Begin, To, i))
    BY <1>3, SoundIsLoose
  <2> HIDE DEF u, i, rest
  <2>10. i = units[front][1] /\ gen'.cur = front
    BY <2>1, <2>5 DEF i
  <2>11. AtWork(gen', units, next, rest, fetch, kept, Begin, To)
    <3>1. CASE TypeOf(i) = "P"
      <4>1. gen'.pc = "pieces"
        BY <2>5, <3>1
      <4>2. QED  BY <1>3, <2>2, <2>3, <2>5, <2>8, <2>10, <3>1, <4>1 DEF AtWork
    <3>2. CASE TypeOf(i) = "big"
      <4>1. gen'.pc = "big"
        BY <2>5, <3>2
      <4>2. QED  BY <1>3, <2>2, <2>3, <2>5, <2>8, <2>9, <2>10, <3>2, <4>1 DEF AtWork
    <3>3. CASE TypeOf(i) \notin {"P", "big"}
      <4>1. gen'.pc = "await"
        BY <2>5, <3>3
      <4>2. QED  BY <1>3, <2>2, <2>3, <2>5, <2>8, <2>10, <3>3, <4>1 DEF AtWork
    <3>4. QED  BY <3>1, <3>2, <3>3
  <2>12. gen'.pc \in {"pieces", "big", "await"}
    BY <2>5
  <2>13. QED  BY <1>1, <1>2, <2>4, <2>5, <2>11, <2>12 DEF Inv, Working
<1>7. QED  BY <1>5, <1>6

LEMMA AwaitKeeps == ASSUME Inv, Await PROVE Inv'
<1> DEFINE cur == gen.cur
<1>1. UNCHANGED <<ask, units, kept>> /\ gen.pc = "await"
  BY DEF Await, Live
<1>2. /\ Begin' = Begin /\ To' = To /\ Real(Begin, To) /\ ask.range \in Ranges /\ GenShape(gen)
      /\ Linked(units, Begin, To, Len(Segments) + 1)
      /\ AtWork(gen, units, next, pending, fetch, kept, Begin, To)
  BY <1>1, SameRange DEF Inv, Working
<1>3. /\ cur \in 1 .. Len(units) /\ Window(units, next, pending, cur + 1)
      /\ Fetches(units, next, cur, fetch)
      /\ Sound(kept, Begin, To) /\ Len(kept) = Place(Begin, To, units[cur][1]) /\ gen.item = 1
  BY <1>1, <1>2 DEF AtWork
<1>4. CASE fetch[cur].st = "ok"
  <2>1. Fill(next, pending) /\ SetsPc(gen', gen, "yield")
    BY <1>4 DEF Await, SetsPc
  <2>2. GenShape(gen') /\ gen'.pc = "yield" /\ gen'.cur = cur /\ gen'.item = 1
    BY <1>2, <1>3, <2>1, GenPc
  <2>3. units \in Seq(Seq(Segs)) /\ \A u \in 1 .. Len(units) : Chained(units[u], Begin, To)
    BY <1>2 DEF Linked
  <2>4. /\ Window(units, next', pending', cur + 1) /\ Filled(units, next', pending')
        /\ Fetches(units, next', cur, fetch')
        /\ \A u \in 1 .. next - 1 : u \in 1 .. next' - 1 /\ fetch'[u] = fetch[u]
    BY <1>3, <2>1, <2>3, FillKeeps
  <2>5. cur \in 1 .. next - 1
    BY <1>3 DEF Window
  <2>6. fetch'[cur].st = "ok"
    BY <1>4, <2>4, <2>5
  <2>7. 1 \in 1 .. Len(units[cur])
    BY <1>3, <2>3 DEF Chained
  <2>8. AtWork(gen', units, next', pending', fetch', kept, Begin, To)
    BY <1>3, <2>2, <2>4, <2>6, <2>7 DEF AtWork
  <2>9. QED  BY <1>1, <1>2, <2>2, <2>8 DEF Inv, Working
<1>5. CASE fetch[cur].st # "ok"
  <2>1. SetsPc(gen', gen, "failed")
    BY <1>5 DEF Await, SetsPc
  <2>2. GenShape(gen') /\ gen'.pc = "failed"
    BY <1>2, <2>1, GenPc
  <2>3. Loose(kept, Begin, To, 0)
    BY <1>3, SoundIsLoose
  <2>4. QED  BY <1>1, <1>2, <2>2, <2>3 DEF Inv, Working
<1>6. QED  BY <1>4, <1>5


LEMMA YieldKeeps == ASSUME Inv, Yield PROVE Inv' /\ \E c \in Seq(Int) : Release(c)
<1> DEFINE cur == gen.cur
           run == units[cur]
           n == gen.item
           i == run[n]
<1>1. UNCHANGED <<ask, units, next, pending>> /\ gen.pc = "yield"
  BY DEF Yield, Live
<1>2. /\ Begin' = Begin /\ To' = To /\ Real(Begin, To) /\ ask.range \in Ranges /\ GenShape(gen)
      /\ Linked(units, Begin, To, Len(Segments) + 1)
      /\ AtWork(gen, units, next, pending, fetch, kept, Begin, To)
  BY <1>1, SameRange DEF Inv, Working
<1>3. /\ cur \in 1 .. Len(units) /\ Window(units, next, pending, cur + 1)
      /\ Fetches(units, next, cur, fetch) /\ Filled(units, next, pending)
      /\ n \in 1 .. Len(run) /\ fetch[cur].st = "ok"
      /\ Sound(kept, Begin, To) /\ Len(kept) = Place(Begin, To, i)
  BY <1>1, <1>2 DEF AtWork
<1>4. Len(units) \in Nat /\ Chained(run, Begin, To)
  BY <1>2, <1>3 DEF Linked
<1>5. cur \in 1 .. next - 1 /\ next \in Int /\ cur \in Int
  <2>1. cur \in Nat /\ cur >= 1 /\ Len(pending) \in Nat /\ next = (cur + 1) + Len(pending)
    BY <1>3, <1>4 DEF Window
  <2> HIDE DEF cur
  <2>2. QED  BY <2>1
<1>6. /\ run \in Seq(Segs) /\ Len(run) \in Nat /\ i \in Segs /\ Meets(Begin, To, i)
      /\ n \in Nat
  BY <1>3, <1>4 DEF Chained
<1>7. fetch[cur].bufs[n] = Right(i) /\ FetchShape(fetch[cur])
  <2>1. Fetched(fetch[cur], run) /\ FetchShape(fetch[cur])
    BY <1>3, <1>5 DEF Fetches
  <2>2. QED  BY <1>3, <2>1 DEF Fetched, Held
<1>8. kept' = kept \o Chunk(Begin, To, i)
  BY <1>2, <1>6, <1>7, CutToIs DEF Yield, Release
<1>0. \E c \in Seq(Int) : Release(c)
  <2>1. Chunk(Begin, To, i) \in Seq(Int) /\ CutTo(i, fetch[cur].bufs[n]) = Chunk(Begin, To, i)
    BY <1>2, <1>6, <1>7, CutToIs, ChunkIs
  <2>2. Release(CutTo(i, fetch[cur].bufs[n]))
    BY DEF Yield
  <2>3. QED  BY <2>1, <2>2
<1>9. Sound(kept', Begin, To) /\ Len(kept') = Place(Begin, To, i + 1)
  BY <1>2, <1>3, <1>6, <1>8, Emits
<1>10. CASE n < Len(run)
  <2>1. SetsItem(gen', gen, n + 1) /\ fetch' = fetch
    BY <1>10 DEF Yield, SetsItem
  <2>2. GenShape(gen') /\ gen'.pc = "yield" /\ gen'.cur = cur /\ gen'.item = n + 1
    BY <1>1, <1>2, <2>1, GenItem
  <2>3. n + 1 \in 1 .. Len(run) /\ n \in 1 .. Len(run) - 1
    BY <1>6, <1>10, <1>3
  <2>4. Len(kept') = Place(Begin, To, run[n + 1])
    BY <1>4, <1>9, <2>3 DEF Chained
  <2>5. AtWork(gen', units, next, pending, fetch, kept', Begin, To)
    BY <1>3, <1>9, <2>2, <2>3, <2>4 DEF AtWork
  <2>6. Inv'
    BY <1>1, <1>2, <2>1, <2>2, <2>5 DEF Inv, Working
  <2>7. QED  BY <1>0, <2>6
<1>11. CASE ~(n < Len(run))
  <2> DEFINE f == [fetch[cur] EXCEPT !.bufs = <<>>]
  <2>1. SetsPc(gen', gen, "shift") /\ fetch' = [fetch EXCEPT ![cur] = f]
    BY <1>11 DEF Yield, SetsPc
  <2>2. GenShape(gen') /\ gen'.pc = "shift"
    BY <1>2, <2>1, GenPc
  <2>3. FetchShape(f)
    BY <1>7 DEF FetchShape
  <2> HIDE DEF f
  <2>4. n = Len(run) /\ i = Last(run)
    BY <1>3, <1>6, <1>11 DEF Last
  <2>5. Fetches(units, next, cur + 1, fetch')
    <3>1. DOMAIN fetch = 1 .. next - 1 /\ fetch' = [u \in 1 .. next - 1 |-> IF u = cur THEN f ELSE fetch[u]]
      BY <1>3, <2>1 DEF Fetches
    <3>2. DOMAIN fetch' = 1 .. next - 1 /\ fetch' = [u \in 1 .. next - 1 |-> fetch'[u]]
      BY <3>1
    <3>3. ASSUME NEW u \in 1 .. next - 1
          PROVE  FetchShape(fetch'[u]) /\ (u >= cur + 1 => Fetched(fetch'[u], units[u]))
      <4>1. CASE u = cur
        BY <1>5, <2>3, <3>1, <4>1
      <4>2. CASE u # cur
        <5>1. u >= cur + 1 => u >= cur
          BY <1>5
        <5>2. QED  BY <1>3, <3>1, <4>2, <5>1 DEF Fetches
      <4>3. QED  BY <4>1, <4>2
    <3>4. QED  BY <3>2, <3>3 DEF Fetches
  <2>6. AtShift(units, next, pending, fetch', kept', Begin, To)
    BY <1>2, <1>3, <1>9, <2>4, <2>5, UnitDone
  <2>7. Inv'
    BY <1>1, <1>2, <2>2, <2>6 DEF Inv, Working
  <2>8. QED  BY <1>0, <2>7
<1>12. QED  BY <1>0, <1>10, <1>11

(* fill, when the last segment of the unit is kept. *)
LEMMA FillAfter ==
  ASSUME NEW from, NEW to, NEW cur, NEW o, cur \in 1 .. Len(units),
         Linked(units, from, to, Len(Segments) + 1), Window(units, next, pending, cur + 1),
         Fetches(units, next, cur, fetch), Fill(next, pending),
         Sound(o, from, to), Len(o) = Place(from, to, Last(units[cur]) + 1)
  PROVE  AtShift(units, next', pending', fetch', o, from, to)
<1>1. /\ units \in Seq(Seq(Segs)) /\ Len(units) \in Nat
      /\ \A u \in 1 .. Len(units) : Chained(units[u], from, to)
  BY DEF Linked
<1>2. /\ Window(units, next', pending', cur + 1) /\ Filled(units, next', pending')
      /\ Fetches(units, next', cur, fetch')
  BY <1>1, FillKeeps
<1>3. next' \in Int /\ cur \in Int /\ cur + 1 \in Int /\ cur <= cur + 1
  BY <1>1, <1>2 DEF Window
<1>4. Fetches(units, next', cur + 1, fetch')
  BY <1>2, <1>3, FetchesLess
<1>5. QED  BY <1>2, <1>4, UnitDone

(* A unit that is no group is one segment. *)
LEMMA OneSegment ==
  ASSUME NEW from, NEW to, NEW run, Chained(run, from, to), TypeOf(run[1]) # "g"
  PROVE  Last(run) = run[1] /\ run[1] \in Segs /\ Meets(from, to, run[1])
<1>1. run \in Seq(Segs) /\ Len(run) = 1 /\ 1 \in 1 .. Len(run)
  BY DEF Chained
<1>2. QED  BY <1>1 DEF Chained, Last

LEMMA PiecesKeeps ==
  ASSUME Inv, Pieces
  PROVE  Inv' /\ (UNCHANGED <<out, kept>> \/ \E c \in Seq(Int) : Release(c))
<1> DEFINE cur == gen.cur
           i == units[cur][1]
<1>1. UNCHANGED <<ask, units>> /\ gen.pc = "pieces"
  BY DEF Pieces, Live
<1>2. /\ Begin' = Begin /\ To' = To /\ Real(Begin, To) /\ ask.range \in Ranges /\ GenShape(gen)
      /\ Linked(units, Begin, To, Len(Segments) + 1)
      /\ AtWork(gen, units, next, pending, fetch, kept, Begin, To)
  BY <1>1, SameRange DEF Inv, Working
<1>3. /\ cur \in 1 .. Len(units) /\ Window(units, next, pending, cur + 1)
      /\ Fetches(units, next, cur, fetch) /\ TypeOf(i) = "P"
      /\ Sound(kept, Begin, To) /\ Len(kept) = Place(Begin, To, i)
  BY <1>1, <1>2 DEF AtWork
<1>4. Last(units[cur]) = i /\ i \in Segs /\ Meets(Begin, To, i)
  BY <1>2, <1>3, OneSegment DEF Linked
<1>5. CASE Fill(next, pending) /\ Release(CutTo(i, Right(i))) /\ gen' = [gen EXCEPT !.pc = "shift"]
  <2>1. SetsPc(gen', gen, "shift")
    BY <1>5 DEF SetsPc
  <2>2. GenShape(gen') /\ gen'.pc = "shift"
    BY <1>2, <2>1, GenPc
  <2>3. kept' = kept \o Chunk(Begin, To, i)
    BY <1>2, <1>4, <1>5, CutToIs DEF Release
  <2>0. \E c \in Seq(Int) : Release(c)
    BY <1>2, <1>4, <1>5, CutToIs, ChunkIs
  <2>4. Sound(kept', Begin, To) /\ Len(kept') = Place(Begin, To, i + 1)
    BY <1>2, <1>3, <1>4, <2>3, Emits
  <2>5. AtShift(units, next', pending', fetch', kept', Begin, To)
    BY <1>2, <1>3, <1>4, <1>5, <2>4, FillAfter
  <2>6. QED  BY <1>1, <1>2, <2>0, <2>2, <2>5 DEF Inv, Working
<1>6. CASE UNCHANGED <<out, kept>> /\ gen' = [gen EXCEPT !.pc = "failed"]
  <2>1. SetsPc(gen', gen, "failed")
    BY <1>6 DEF SetsPc
  <2>2. GenShape(gen') /\ gen'.pc = "failed"
    BY <1>2, <2>1, GenPc
  <2>3. Loose(kept', Begin, To, 0)
    BY <1>3, <1>6, SoundIsLoose
  <2>4. QED  BY <1>1, <1>2, <1>6, <2>2, <2>3 DEF Inv, Working
<1>7. QED  BY <1>5, <1>6 DEF Pieces

(* What holds while a large segment is given out. *)
LEMMA AtBig ==
  ASSUME Inv, gen.pc = "big", ask' = ask
  PROVE  LET cur == gen.cur
             i == units[cur][1]
         IN  /\ Begin' = Begin /\ To' = To /\ Real(Begin, To) /\ ask.range \in Ranges /\ GenShape(gen)
             /\ Linked(units, Begin, To, Len(Segments) + 1)
             /\ cur \in 1 .. Len(units) /\ Window(units, next, pending, cur + 1)
             /\ Fetches(units, next, cur, fetch)
             /\ TypeOf(i) = "big" /\ gen.at \in 0 .. Segments[i].len
             /\ Loose(kept, Begin, To, Place(Begin, To, i)) /\ Len(kept) = Cut(Begin, To, Base[i] + gen.at)
             /\ gen.clean => Sound(kept, Begin, To)
             /\ Last(units[cur]) = i /\ i \in Segs /\ Meets(Begin, To, i)
             /\ gen.at \in Nat
<1>1. /\ Begin' = Begin /\ To' = To /\ Real(Begin, To) /\ ask.range \in Ranges /\ GenShape(gen)
      /\ Linked(units, Begin, To, Len(Segments) + 1)
      /\ AtWork(gen, units, next, pending, fetch, kept, Begin, To)
  BY SameRange DEF Inv, Working
<1>2. gen.cur \in 1 .. Len(units) /\ TypeOf(units[gen.cur][1]) = "big"
  BY <1>1 DEF AtWork
<1>3. LET i == units[gen.cur][1] IN Last(units[gen.cur]) = i /\ i \in Segs /\ Meets(Begin, To, i)
  BY <1>1, <1>2, OneSegment DEF Linked
<1>4. gen.at \in Nat
  BY <1>1, <1>3, SegPlace DEF AtWork
<1>5. QED  BY <1>1, <1>2, <1>3, <1>4 DEF AtWork


LEMMA BigChunkKeeps ==
  ASSUME Inv, NEW right \in BOOLEAN, BigChunk(right)
  PROVE  Inv' /\ \E c \in Seq(Int) : Release(c)
<1> DEFINE cur == gen.cur
           i == units[cur][1]
           at == gen.at
           pos == Base[i] + at
<1>1. UNCHANGED <<ask, units, next, pending, fetch>> /\ gen.pc = "big" /\ at < Segments[i].len
  BY DEF BigChunk, Live
<1>2. /\ Begin' = Begin /\ To' = To /\ Real(Begin, To) /\ ask.range \in Ranges /\ GenShape(gen)
      /\ Linked(units, Begin, To, Len(Segments) + 1)
      /\ cur \in 1 .. Len(units) /\ Window(units, next, pending, cur + 1)
      /\ Fetches(units, next, cur, fetch)
      /\ TypeOf(i) = "big" /\ at \in 0 .. Segments[i].len
      /\ Loose(kept, Begin, To, Place(Begin, To, i)) /\ Len(kept) = Cut(Begin, To, Base[i] + at)
      /\ gen.clean => Sound(kept, Begin, To)
      /\ i \in Segs /\ at \in Nat
  BY <1>1, AtBig
<1>3. /\ gen' = [gen EXCEPT !.at = at + 1, !.clean = gen.clean /\ right]
      /\ kept' = IF Begin <= pos /\ pos <= To THEN Append(kept, IF right THEN pos ELSE Spoiled) ELSE kept
      /\ \E c \in Seq(Int) : Release(c)
  <2>1. gen' = [gen EXCEPT !.at = at + 1, !.clean = gen.clean /\ right]
    BY DEF BigChunk
  <2>2. Release(IF From <= pos /\ pos <= To THEN <<IF right THEN pos ELSE Spoiled>> ELSE <<>>)
    BY DEF BigChunk
  <2>3. pos \in Nat /\ kept \in Seq(Int)
    <3>1. Base[i] \in Nat /\ at \in Nat
      BY <1>2, SegPlace
    <3> HIDE DEF at, i
    <3>2. QED  BY <1>2, <3>1 DEF Loose
  <2>4. From <= pos <=> Begin <= pos
    BY <1>2, <2>3, RangeInts
  <2> DEFINE e == IF right THEN pos ELSE Spoiled
  <2>5. e \in Int
    BY <2>3 DEF Spoiled
  <2> HIDE DEF pos, e
  <2>6. kept \o <<e>> = Append(kept, e) /\ kept \o <<>> = kept /\ <<e>> \in Seq(Int) /\ <<>> \in Seq(Int)
    BY <2>3, <2>5
  <2>7. kept' = IF Begin <= pos /\ pos <= To THEN Append(kept, e) ELSE kept
    BY <2>2, <2>4, <2>6 DEF Release, e
  <2>8. \E c \in Seq(Int) : Release(c)
    BY <2>2, <2>6 DEF e
  <2>9. QED  BY <2>1, <2>7, <2>8 DEF e
<1>4. /\ GenShape(gen') /\ gen'.pc = "big" /\ gen'.cur = cur /\ gen'.at = at + 1
      /\ gen'.clean <=> (gen.clean /\ right)
  <2> DEFINE clean == gen.clean /\ right
  <2>1. gen = [pc |-> gen.pc, cur |-> cur, item |-> gen.item, left |-> gen.left, at |-> at, clean |-> gen.clean]
    BY <1>2 DEF GenShape
  <2>2. gen' = [gen EXCEPT !.at = at + 1, !.clean = clean]
    BY <1>3
  <2> HIDE DEF clean
  <2>3. gen' = [pc |-> gen.pc, cur |-> cur, item |-> gen.item, left |-> gen.left, at |-> at + 1, clean |-> clean]
    BY <2>1, <2>2
  <2>4. gen'.clean = clean /\ GenShape(gen') /\ gen'.pc = "big" /\ gen'.cur = cur /\ gen'.at = at + 1
    BY <1>1, <2>3 DEF GenShape
  <2>5. QED  BY <2>4 DEF clean
<1>5. at + 1 \in 0 .. Segments[i].len
  <2>1. at \in Nat /\ at < Segments[i].len
    BY <1>1, <1>2
  <2>2. Segments[i].len \in Nat
    BY <1>2, SegPlace
  <2> HIDE DEF at, i
  <2>3. QED  BY <2>1, <2>2
<1>6. /\ Loose(kept', Begin, To, Place(Begin, To, i)) /\ Len(kept') = Cut(Begin, To, Base[i] + (at + 1))
      /\ gen.clean /\ right => Sound(kept', Begin, To)
  <2>1. CASE Begin <= pos /\ pos <= To
    <3> DEFINE w == Append(kept, IF right THEN Base[i] + at ELSE Spoiled)
    <3>1. kept' = w
      BY <1>3, <2>1
    <3>2. /\ Loose(w, Begin, To, Place(Begin, To, i)) /\ Len(w) = Cut(Begin, To, Base[i] + (at + 1))
          /\ Sound(kept, Begin, To) /\ right => Sound(w, Begin, To)
      <4> HIDE DEF at, i
      <4>1. QED  BY <1>1, <1>2, <2>1, BigGoesOn DEF pos
    <3>3. QED  BY <1>2, <3>1, <3>2
  <2>2. CASE ~(Begin <= pos /\ pos <= To)
    <3>1. kept' = kept
      BY <1>3, <2>2
    <3>2. Cut(Begin, To, Base[i] + (at + 1)) = Cut(Begin, To, pos)
      <4>1. /\ Begin \in Nat /\ To \in Nat /\ Begin <= To /\ Base[i] \in Nat /\ pos \in Nat
            /\ Base[i] + (at + 1) = pos + 1
        <5>1. Begin \in Nat /\ To \in Nat /\ Begin <= To /\ Base[i] \in Nat /\ at \in Nat
          BY <1>2, SegPlace DEF Real
        <5> HIDE DEF i, at
        <5>2. QED  BY <5>1
      <4> HIDE DEF pos, i, at
      <4>2. QED  BY <2>2, <4>1, CutStep
    <3>3. QED  BY <1>2, <3>1, <3>2
  <2>3. QED  BY <2>1, <2>2
<1> HIDE DEF at, pos, cur, i
<1>7. i = units[cur][1]
  BY DEF i
<1>8. AtWork(gen', units, next, pending, fetch, kept', Begin, To)
  BY <1>2, <1>4, <1>5, <1>6, <1>7 DEF AtWork
<1>9. QED  BY <1>1, <1>2, <1>3, <1>4, <1>8 DEF Inv, Working

(* What a source gave of the segment is dropped, and nothing before it is    *)
(* spoiled.                                                                    *)
LEMMA GivenIs ==
  ASSUME ask.range \in Ranges, Real(Begin, To), NEW i \in Segs, NEW at \in Nat, Meets(Begin, To, i)
  PROVE  /\ Cut(Begin, To, Base[i] + at) - Given(i, at) = Place(Begin, To, i)
         /\ Given(i, at) \in Nat
<1> DEFINE b == Base[i]
           lo == IF From > b THEN From ELSE b
<1>1. From \in Int /\ b \in Nat /\ Begin \in Nat /\ To \in Nat /\ Begin <= To /\ b <= To
  BY RangeInts, SegPlace DEF Real, Meets
<1>2. lo = IF Begin > b THEN Begin ELSE b
  BY <1>1 DEF Begin
<1>3. Given(i, at) = IF lo <= (IF To < b + at - 1 THEN To ELSE b + at - 1)
                     THEN (IF To < b + at - 1 THEN To ELSE b + at - 1) - lo + 1 ELSE 0
  BY DEF Given
<1> HIDE DEF b, lo
<1>4. Cut(Begin, To, b + at) - Given(i, at) = Cut(Begin, To, b) /\ Given(i, at) \in Nat
  BY <1>1, <1>2, <1>3 DEF Cut
<1>5. QED  BY <1>4 DEF b, Place

LEMMA BigBreakKeeps ==
  ASSUME Inv, BigBreak
  PROVE  Inv' /\ out' = out /\ \E n \in 0 .. Len(kept) : kept' = SubSeq(kept, 1, n)
<1> DEFINE cur == gen.cur
           i == units[cur][1]
           p == Place(Begin, To, i)
<1>1. UNCHANGED <<ask, units, next, pending, fetch, out>> /\ gen.pc = "big"
  BY DEF BigBreak, Live
<1>2. /\ Begin' = Begin /\ To' = To /\ Real(Begin, To) /\ ask.range \in Ranges /\ GenShape(gen)
      /\ Linked(units, Begin, To, Len(Segments) + 1)
      /\ cur \in 1 .. Len(units) /\ Window(units, next, pending, cur + 1)
      /\ Fetches(units, next, cur, fetch)
      /\ TypeOf(i) = "big" /\ gen.at \in 0 .. Segments[i].len
      /\ Loose(kept, Begin, To, p) /\ Len(kept) = Cut(Begin, To, Base[i] + gen.at)
      /\ i \in Segs /\ Meets(Begin, To, i) /\ gen.at \in Nat
  BY <1>1, AtBig
<1>3. gen' = [gen EXCEPT !.left = Tail(gen.left), !.at = 0, !.clean = TRUE]
  BY DEF BigBreak
<1>4. GenShape(gen') /\ gen'.pc = "big" /\ gen'.cur = cur /\ gen'.at = 0 /\ gen'.clean = TRUE
  <2>1. gen = [pc |-> gen.pc, cur |-> cur, item |-> gen.item, left |-> gen.left, at |-> gen.at, clean |-> gen.clean]
    BY <1>2 DEF GenShape
  <2>2. gen' = [pc |-> gen.pc, cur |-> cur, item |-> gen.item, left |-> Tail(gen.left), at |-> 0, clean |-> TRUE]
    BY <1>3, <2>1
  <2>3. QED  BY <1>1, <2>2 DEF GenShape
<1>5. kept' = SubSeq(kept, 1, p) /\ p \in 0 .. Len(kept) /\ kept \in Seq(Int) /\ Len(kept) \in Nat
  <2>1. kept' = SubSeq(kept, 1, Len(kept) - Given(i, gen.at))
    BY DEF BigBreak
  <2>2. Len(kept) - Given(i, gen.at) = p /\ Given(i, gen.at) \in Nat
    BY <1>2, GivenIs
  <2>3. kept \in Seq(Int) /\ Len(kept) \in Nat /\ p \in Nat
    <3>1. kept \in Seq(Int) /\ Len(kept) \in Nat
      BY <1>2 DEF Loose
    <3>2. p \in Nat
      BY <1>2, SegPlace, CutBounds DEF Place, Real
    <3>3. QED  BY <3>1, <3>2
  <2> HIDE DEF p, i
  <2>4. p \in 0 .. Len(kept)
    BY <2>2, <2>3
  <2>5. QED  BY <2>1, <2>2, <2>3, <2>4
<1> HIDE DEF p
<1>6. /\ kept' \in Seq(Int) /\ Len(kept') = p /\ \A k \in 1 .. p : kept'[k] = kept[k]
  BY <1>5
<1>7. Sound(kept', Begin, To)
  <2>1. \A k \in 1 .. p : k \in 1 .. Len(kept) /\ ~(k > p)
    BY <1>5
  <2>2. p <= To + 1 - Begin
    BY <1>2, <1>5 DEF Loose, Real
  <2> HIDE DEF i
  <2>3. QED  BY <1>2, <1>6, <2>1, <2>2 DEF Loose, Sound
<1>8. /\ Loose(kept', Begin, To, p) /\ Len(kept') = Cut(Begin, To, Base[i] + 0) /\ 0 \in 0 .. Segments[i].len
  <2>1. Base[i] + 0 = Base[i] /\ Segments[i].len \in Nat
    BY <1>2, SegPlace
  <2>2. Len(kept') = Cut(Begin, To, Base[i] + 0)
    BY <1>6, <2>1 DEF p, Place
  <2>3. Loose(kept', Begin, To, p)
    BY <1>5, <1>7, SoundIsLoose
  <2>4. QED  BY <2>1, <2>2, <2>3
<1> HIDE DEF cur, i
<1>9. i = units[cur][1] /\ p = Place(Begin, To, i)
  BY DEF i, p
<1>10. AtWork(gen', units, next, pending, fetch, kept', Begin, To)
  BY <1>1, <1>2, <1>4, <1>7, <1>8, <1>9 DEF AtWork
<1>11. Inv'
  BY <1>1, <1>2, <1>4, <1>10 DEF Inv, Working
<1>12. QED  BY <1>1, <1>5, <1>11

LEMMA BigEndKeeps == ASSUME Inv, BigEnd PROVE Inv'
<1> DEFINE cur == gen.cur
           i == units[cur][1]
<1>1. UNCHANGED <<ask, units, kept>> /\ gen.pc = "big" /\ (gen.left = <<>> \/ gen.at = Segments[i].len)
  BY DEF BigEnd, Live
<1>2. /\ Begin' = Begin /\ To' = To /\ Real(Begin, To) /\ ask.range \in Ranges /\ GenShape(gen)
      /\ Linked(units, Begin, To, Len(Segments) + 1)
      /\ cur \in 1 .. Len(units) /\ Window(units, next, pending, cur + 1)
      /\ Fetches(units, next, cur, fetch)
      /\ TypeOf(i) = "big"
      /\ Loose(kept, Begin, To, Place(Begin, To, i)) /\ Len(kept) = Cut(Begin, To, Base[i] + gen.at)
      /\ gen.clean => Sound(kept, Begin, To)
      /\ Last(units[cur]) = i /\ i \in Segs
  BY <1>1, AtBig
<1>3. CASE gen.left # <<>> /\ gen.clean
  <2>1. Fill(next, pending) /\ SetsPc(gen', gen, "shift")
    BY <1>3 DEF BigEnd, SetsPc
  <2>2. GenShape(gen') /\ gen'.pc = "shift"
    BY <1>2, <2>1, GenPc
  <2>3. Len(kept) = Place(Begin, To, i + 1)
    <3>1. gen.at = Segments[i].len
      BY <1>1, <1>3
    <3>2. QED  BY <1>2, <3>1, SegPlace DEF Place
  <2>4. AtShift(units, next', pending', fetch', kept, Begin, To)
    BY <1>2, <1>3, <2>1, <2>3, FillAfter
  <2>5. QED  BY <1>1, <1>2, <2>2, <2>4 DEF Inv, Working
<1>4. CASE ~(gen.left # <<>> /\ gen.clean)
  <2>1. SetsPc(gen', gen, "failed")
    BY <1>4 DEF BigEnd, SetsPc
  <2>2. GenShape(gen') /\ gen'.pc = "failed"
    BY <1>2, <2>1, GenPc
  <2>3. Place(Begin, To, i) \in Nat
    BY <1>2, SegPlace, CutBounds DEF Place, Real
  <2>4. Loose(kept, Begin, To, 0)
    BY <1>2, <2>3, LooserIsLoose
  <2>5. QED  BY <1>1, <1>2, <2>2, <2>4 DEF Inv, Working
<1>5. QED  BY <1>3, <1>4

LEMMA StutterKeeps == Inv /\ UNCHANGED vars => Inv'
<1> SUFFICES ASSUME Inv, UNCHANGED vars PROVE Inv'
  OBVIOUS
<1>1. UNCHANGED <<ask, units, next, pending, fetch, gen, kept>> /\ Begin' = Begin /\ To' = To
  BY SameRange DEF vars
<1>2. Fresh' = Fresh
  BY <1>1 DEF Fresh
<1>3. QED  BY <1>1, <1>2 DEF Inv

(* The bytes of sources that broke off are extra. *)
Spare ==
    /\ out \in Seq(Int) /\ kept \in Seq(Int)
    /\ Len(out) >= Len(kept) /\ (Len(out) = Len(kept) => out = kept)

LEMMA SpareKeeps ==
  ASSUME Spare,
         \/ UNCHANGED <<out, kept>>
         \/ \E c \in Seq(Int) : Release(c)
         \/ out' = out /\ \E n \in 0 .. Len(kept) : kept' = SubSeq(kept, 1, n)
  PROVE  Spare'
<1>1. CASE UNCHANGED <<out, kept>>
  BY <1>1 DEF Spare
<1>2. ASSUME NEW c \in Seq(Int), Release(c) PROVE Spare'
  <2>1. /\ out' = out \o c /\ kept' = kept \o c /\ out \in Seq(Int) /\ kept \in Seq(Int)
    BY <1>2 DEF Release, Spare
  <2>2. /\ out' \in Seq(Int) /\ kept' \in Seq(Int)
        /\ Len(out') = Len(out) + Len(c) /\ Len(kept') = Len(kept) + Len(c)
    BY <2>1
  <2>3. Len(out) \in Nat /\ Len(kept) \in Nat /\ Len(c) \in Nat
    BY <2>1
  <2>4. Len(out') >= Len(kept') /\ (Len(out') = Len(kept') => Len(out) = Len(kept))
    BY <2>2, <2>3 DEF Spare
  <2>5. Len(out) = Len(kept) => out = kept
    BY DEF Spare
  <2>6. QED  BY <2>1, <2>2, <2>4, <2>5 DEF Spare
<1>3. ASSUME out' = out, NEW n \in 0 .. Len(kept), kept' = SubSeq(kept, 1, n) PROVE Spare'
  <2>1. out \in Seq(Int) /\ kept \in Seq(Int) /\ Len(kept) \in Nat /\ Len(out) \in Nat
    BY DEF Spare
  <2>2. kept' \in Seq(Int) /\ Len(kept') = n /\ \A k \in 1 .. n : kept'[k] = kept[k]
    BY <1>3, <2>1
  <2>3. CASE n = Len(kept)
    <3>1. kept' = kept
      BY <2>1, <2>2, <2>3, SeqEqual
    <3>2. QED  BY <1>3, <3>1 DEF Spare
  <2>4. CASE n # Len(kept)
    BY <1>3, <2>1, <2>2, <2>4 DEF Spare
  <2>5. QED  BY <2>3, <2>4
<1>4. QED  BY <1>1, <1>2, <1>3

LEMMA NextInv ==
  ASSUME Inv, Spare, FileSize > 0, [Next]_vars
  PROVE  Inv' /\ Spare'
<1>1. CASE UNCHANGED vars
  BY <1>1, StutterKeeps, SpareKeeps DEF vars
<1>2. ASSUME NEW u \in DOMAIN fetch, Fetching(u) PROVE Inv' /\ UNCHANGED <<out, kept>>
  <2>1. UNCHANGED <<out, kept>>
    BY <1>2 DEF Fetching, Single, Whole, NextItem, NoneLeft, Try
  <2>2. QED  BY <1>2, <2>1, FetchingKeeps
<1>3. CASE Start \/ Group \/ FirstFill \/ Shift \/ Await \/ BigEnd
  <2>1. UNCHANGED <<out, kept>>
    BY <1>3 DEF Start, Group, FirstFill, Shift, Await, BigEnd
  <2>2. Inv'
    BY <1>3, StartKeeps, GroupKeeps, FirstFillKeeps, ShiftKeeps, AwaitKeeps, BigEndKeeps
  <2>3. QED  BY <2>1, <2>2, SpareKeeps
<1>4. CASE Yield \/ Pieces \/ \E right \in BOOLEAN : BigChunk(right)
  BY <1>4, YieldKeeps, PiecesKeeps, BigChunkKeeps, SpareKeeps
<1>5. CASE BigBreak
  BY <1>5, BigBreakKeeps, SpareKeeps
<1>6. QED  BY <1>1, <1>2, <1>3, <1>4, <1>5, SpareKeeps DEF Next, Generating

(* A file without content: nothing is read and nothing is given out. *)
Nothing ==
    /\ ask.range \in Ranges /\ FileSize = 0 /\ units = <<>> /\ Fresh /\ out = <<>>
    /\ gen.pc \in {"idle", "refused", "units", "fill", "shift", "done"}
    /\ gen.pc = "units" => gen.item \in Nat \ {0}
    /\ gen.pc = "idle" => gen.item = 1
    /\ GenShape(gen)

LEMMA NothingKeeps ==
  ASSUME Nothing, [Next]_vars
  PROVE  Nothing'
<1>1. CASE UNCHANGED vars
  <2>1. FileSize' = FileSize
    OBVIOUS
  <2>2. QED  BY <1>1, <2>1 DEF vars, Nothing, Fresh, GenShape
<1>2. /\ ask.range \in Ranges /\ FileSize = 0 /\ units = <<>> /\ Fresh /\ GenShape(gen)
      /\ fetch = [u \in {} |-> NoFetch] /\ next = 1 /\ pending = <<>> /\ out = <<>> /\ kept = <<>>
  BY DEF Nothing, Fresh
<1>3. DOMAIN fetch = {}
  BY <1>2
<1>4. CASE Start
  <2>1. \/ SetsPc(gen', gen, "refused")
        \/ SetsPc(gen', gen, "units")
    BY <1>4 DEF Start, SetsPc
  <2>2. GenShape(gen') /\ gen'.pc \in {"refused", "units"} /\ gen'.item = gen.item
    BY <1>2, <2>1, GenPc
  <2>3. gen.item = 1 /\ UNCHANGED <<ask, units, next, pending, fetch, out, kept>>
    BY <1>4 DEF Start, Live, Nothing
  <2>4. QED  BY <1>2, <2>2, <2>3 DEF Nothing, Fresh
<1>5. CASE Group
  <2>1. gen.pc = "units" /\ gen.item \in Nat \ {0} /\ UNCHANGED <<ask, next, pending, fetch, out, kept>>
    BY <1>5 DEF Group, Live, Nothing
  <2>2. CASE gen.item > Len(Segments)
    <3>1. gen' = [gen EXCEPT !.pc = "fill", !.item = 1] /\ units' = units
      BY <1>5, <2>2 DEF Group
    <3>2. GenShape(gen') /\ gen'.pc = "fill"
      BY <1>2, <3>1 DEF GenShape
    <3>3. QED  BY <1>2, <2>1, <3>1, <3>2 DEF Nothing, Fresh
  <2>3. CASE ~(gen.item > Len(Segments))
    <3>1. SetsItem(gen', gen, gen.item + 1) /\ units' = Grouped(units, gen.item)
      BY <1>5, <2>3 DEF Group, SetsItem
    <3>2. GenShape(gen') /\ gen'.pc = "units" /\ gen'.item = gen.item + 1
      BY <1>2, <2>1, <3>1, GenItem
    <3>3. gen.item \in Segs
      BY <2>1, <2>3, SegmentFacts DEF Segs
    <3>4. ~Covered(gen.item)
      <4>1. To = -1 /\ Base[gen.item] \in Nat
        BY <1>2, <3>3, RangeInts, SegPlace
      <4>2. ~(Base[gen.item] <= To)
        BY <4>1
      <4>3. QED  BY <4>2 DEF Covered
    <3>5. units' = <<>>
      BY <1>2, <3>1, <3>4 DEF Grouped
    <3>6. gen'.item \in Nat \ {0}
      BY <2>1, <3>2
    <3>7. QED  BY <1>2, <2>1, <3>2, <3>5, <3>6 DEF Nothing, Fresh
  <2>4. QED  BY <2>2, <2>3
<1>6. CASE FirstFill
  <2>1. UNCHANGED <<ask, units, out, kept>> /\ Fill(1, <<>>) /\ SetsPc(gen', gen, "shift")
    BY <1>6 DEF FirstFill, SetsPc
  <2>2. GenShape(gen') /\ gen'.pc = "shift"
    BY <1>2, <2>1, GenPc
  <2>3. next' = 1 /\ pending' = <<>> /\ fetch' = [u \in {} |-> NoFetch]
    <3>1. Room(<<>>) = WINDOW /\ WINDOW \in Nat \ {0} /\ Len(units) = 0
      BY <1>2, AssembleAssumption DEF Room
    <3>2. (IF 1 + Room(<<>>) <= Len(units) THEN 1 + Room(<<>>) ELSE Len(units) + 1) = 1
      BY <3>1
    <3>3. /\ next' = 1
          /\ fetch' = [u \in DOMAIN fetch \cup 1 .. 1 - 1 |-> IF u \in DOMAIN fetch THEN fetch[u] ELSE NewFetch(u)]
          /\ pending' = <<>> \o [k \in 1 .. 1 - 1 |-> 1 + k - 1]
      BY <2>1, <3>2 DEF Fill
    <3>4. 1 .. 1 - 1 = {} /\ DOMAIN fetch \cup 1 .. 1 - 1 = {}
      BY <1>3
    <3>5. fetch' = [u \in {} |-> NoFetch]
      BY <3>3, <3>4
    <3>6. pending' = <<>>
      BY <3>3
    <3>7. QED  BY <3>3, <3>5, <3>6
  <2>4. QED  BY <1>2, <2>1, <2>2, <2>3 DEF Nothing, Fresh
<1>7. CASE Shift
  <2>1. gen' = Take(pending) /\ pending' = <<>> /\ UNCHANGED <<ask, units, next, fetch, out, kept>>
    BY <1>2, <1>7 DEF Shift
  <2>2. GenShape(gen') /\ gen'.pc = "done"
    BY <1>2, <2>1 DEF Take, GenShape
  <2>3. QED  BY <1>2, <2>1, <2>2 DEF Nothing, Fresh
<1>8. ~(Await \/ Yield \/ Pieces \/ BigBreak \/ BigEnd \/ \E right \in BOOLEAN : BigChunk(right))
  BY DEF Await, Yield, Pieces, BigBreak, BigEnd, BigChunk, Live, Nothing
<1>9. QED  BY <1>1, <1>3, <1>4, <1>5, <1>6, <1>7, <1>8 DEF Next, Generating

(* The inductive invariant. *)
Inductive == Nothing \/ (FileSize > 0 /\ Inv /\ Spare)

LEMMA InductiveHolds == Spec => []Inductive
<1>1. Init => Inductive
  <2> SUFFICES ASSUME Init PROVE Inductive
    OBVIOUS
  <2>1. Inv /\ gen.pc = "idle" /\ out = <<>> /\ kept = <<>>
    BY InitInv DEF Init
  <2>2. Spare
    BY <2>1 DEF Spare
  <2>3. CASE FileSize = 0
    BY <2>1, <2>3 DEF Inductive, Nothing, Inv
  <2>4. CASE FileSize # 0
    BY <2>1, <2>2, <2>4, FileSizeNat DEF Inductive
  <2>5. QED  BY <2>3, <2>4
<1>2. Inductive /\ [Next]_vars => Inductive'
  <2>1. FileSize' = FileSize
    OBVIOUS
  <2>2. QED  BY <2>1, NextInv, NothingKeeps DEF Inductive
<1>3. QED  BY <1>1, <1>2, PTL DEF Spec

-----------------------------------------------------------------------------
LEMMA AskedIs ==
  ASSUME Begin \in Int, To \in Int
  PROVE  /\ Asked \in Seq(Int) /\ Len(Asked) \in Nat
         /\ Begin <= To + 1 => Len(Asked) = To + 1 - Begin
         /\ \A k \in 1 .. Len(Asked) : Asked[k] = Begin + k - 1
<1> DEFINE from == Begin
           n == To - Begin + 1
<1>1. n \in Int /\ from \in Int /\ Asked = [k \in 1 .. n |-> from + k - 1]
  BY DEF Asked, Bytes
<1>2. n = To + 1 - Begin /\ (Begin <= To + 1 => n >= 0)
  OBVIOUS
<1> HIDE DEF n, from
<1>3. CASE n >= 0
  BY <1>1, <1>2, <1>3 DEF from
<1>4. CASE ~(n >= 0)
  <2>1. 1 .. n = 1 .. 0
    BY <1>1, <1>4
  <2>2. Asked = [k \in 1 .. 0 |-> from + k - 1]
    BY <1>1, <2>1
  <2>3. Asked = <<>>
    BY <2>2
  <2>4. QED  BY <1>2, <1>4, <2>3
<1>5. QED  BY <1>3, <1>4

(* The invariant, as the properties state it. *)
LEMMA OutIs ==
  ASSUME Inv
  PROVE  /\ Begin \in Int /\ To \in Int
         /\ kept \in Seq(Int) /\ Len(kept) \in Nat /\ DOMAIN kept = 1 .. Len(kept)
         /\ kept = <<>> \/ (Real(Begin, To) /\ Loose(kept, Begin, To, 0))
<1>1. Begin \in Int /\ To \in Int
  BY RangeInts DEF Inv
<1>2. kept = <<>> \/ (Real(Begin, To) /\ Loose(kept, Begin, To, 0))
  <2>1. CASE gen.pc \in {"idle", "refused", "units", "fill"}
    BY <2>1 DEF Inv, Fresh
  <2>2. CASE gen.pc \in {"shift", "done"}
    BY <2>2, SoundIsLoose DEF Inv, AtShift
  <2>3. CASE gen.pc = "failed"
    BY <2>3 DEF Inv
  <2>4. CASE gen.pc \in {"await", "yield", "pieces"}
    BY <2>4, SoundIsLoose DEF Inv, Working, AtWork
  <2>5. CASE gen.pc = "big"
    <3>1. Real(Begin, To) /\ Linked(units, Begin, To, Len(Segments) + 1)
          /\ AtWork(gen, units, next, pending, fetch, kept, Begin, To)
      BY <2>5 DEF Inv, Working
    <3> DEFINE i == units[gen.cur][1]
    <3>2. /\ gen.cur \in 1 .. Len(units) /\ TypeOf(i) = "big" /\ Loose(kept, Begin, To, Place(Begin, To, i))
      BY <2>5, <3>1 DEF AtWork
    <3>3. i \in Segs
      BY <3>1, <3>2, OneSegment DEF Linked
    <3>4. Place(Begin, To, i) \in Nat
      BY <3>1, <3>3, SegPlace, CutBounds DEF Place, Real
    <3>5. QED  BY <3>1, <3>2, <3>4, LooserIsLoose
  <2>6. QED  BY <2>1, <2>2, <2>3, <2>4, <2>5 DEF Inv, Working
<1>3. kept \in Seq(Int)
  <2>1. <<>> \in Seq(Int)
    OBVIOUS
  <2>2. QED  BY <1>2, <2>1 DEF Loose
<1>4. QED  BY <1>1, <1>2, <1>3

(* What is kept of a response, from the invariant. *)
LEMMA KeptIs ==
  ASSUME Inductive
  PROVE  /\ Begin \in Nat /\ To \in Int /\ Spare
         /\ kept \in Seq(Int) /\ Len(kept) \in Nat /\ DOMAIN kept = 1 .. Len(kept)
         /\ kept = <<>> \/ (Real(Begin, To) /\ Loose(kept, Begin, To, 0))
<1>1. ask.range \in Ranges
  BY DEF Inductive, Nothing, Inv
<1>2. CASE Nothing
  BY <1>1, <1>2, RangeInts DEF Nothing, Fresh, Spare
<1>3. CASE Inv /\ Spare
  BY <1>1, <1>3, RangeInts, OutIs
<1>4. QED  BY <1>2, <1>3 DEF Inductive

(* Bytes leave in order (assemble of tensor-assemble.mjs), for every layout,   *)
(* range, set of holders and window, with breaks of every source: byte k of    *)
(* the response stands at place k of the range once the bytes of sources that  *)
(* broke off inside a streamed segment are taken away, and a response without  *)
(* such bytes is in order as it stands.                                        *)
THEOREM AssembleInOrder == Spec => []KeptInOrder
<1>1. Inductive => KeptInOrder
  <2> SUFFICES ASSUME Inductive PROVE KeptInOrder
    OBVIOUS
  <2>1. /\ Begin \in Int /\ To \in Int /\ Len(kept) \in Nat /\ DOMAIN kept = 1 .. Len(kept)
        /\ kept = <<>> \/ (Real(Begin, To) /\ Loose(kept, Begin, To, 0))
        /\ Len(out) >= Len(kept) /\ (Len(out) = Len(kept) => out = kept)
    BY KeptIs DEF Spare
  <2>2. /\ Len(Asked) \in Nat /\ (Begin <= To + 1 => Len(Asked) = To + 1 - Begin)
        /\ \A k \in 1 .. Len(Asked) : Asked[k] = Begin + k - 1
    BY <2>1, AskedIs
  <2>3. CASE kept = <<>>
    <3>1. Len(kept) = 0 /\ DOMAIN kept = {}
      BY <2>3
    <3>2. QED  BY <2>1, <2>2, <3>1 DEF KeptInOrder
  <2>4. CASE Real(Begin, To) /\ Loose(kept, Begin, To, 0)
    <3>1. Len(Asked) = To + 1 - Begin /\ Len(kept) <= Len(Asked)
      BY <2>1, <2>2, <2>4 DEF Real, Loose
    <3>2. ASSUME NEW k \in 1 .. Len(kept) PROVE kept[k] \in {Asked[k], Spoiled}
      <4>1. k \in 1 .. Len(Asked)
        BY <2>1, <2>2, <3>1
      <4>2. QED  BY <2>2, <2>4, <4>1 DEF Loose
    <3>3. QED  BY <2>1, <3>1, <3>2 DEF KeptInOrder
  <2>5. QED  BY <2>1, <2>3, <2>4
<1>2. QED  BY InductiveHolds, <1>1, PTL

(* A response that ends well is the range asked for, or longer than the range  *)
(* because a source broke off inside a streamed segment; and a wrong byte      *)
(* stays out only of a segment that is streamed because it is large and has no *)
(* pieces.  For every layout, range and window (assemble of                    *)
(* tensor-assemble.mjs).                                                       *)
THEOREM AssembleCompleteIsRight == Spec => []CompleteIsRight
<1>1. Inductive => CompleteIsRight
  <2> SUFFICES ASSUME Inductive PROVE CompleteIsRight
    OBVIOUS
  <2>1. /\ Begin \in Int /\ To \in Int /\ kept \in Seq(Int) /\ Len(kept) \in Nat /\ DOMAIN kept = 1 .. Len(kept)
        /\ kept = <<>> \/ (Real(Begin, To) /\ Loose(kept, Begin, To, 0))
        /\ Len(out) >= Len(kept) /\ (Len(out) = Len(kept) => out = kept) /\ Len(out) \in Nat
    BY KeptIs DEF Spare
  <2>2. /\ Asked \in Seq(Int) /\ Len(Asked) \in Nat /\ (Begin <= To + 1 => Len(Asked) = To + 1 - Begin)
        /\ \A k \in 1 .. Len(Asked) : Asked[k] = Begin + k - 1
    BY <2>1, AskedIs
  <2>3. ASSUME gen.pc = "done" PROVE kept = Asked
    <3>1. CASE Nothing
      <4>1. kept = <<>> /\ To = -1 /\ Begin \in Nat
        BY <3>1, RangeInts DEF Nothing, Fresh
      <4>2. To - Begin + 1 \in Int /\ ~(To - Begin + 1 >= 1)
        BY <4>1
      <4>3. 1 .. To - Begin + 1 = {}
        BY <4>2
      <4>4. Asked = [k \in {} |-> Begin + k - 1]
        BY <4>3 DEF Asked, Bytes
      <4>5. QED  BY <4>1, <4>4
    <3>2. CASE Inv
      <4>1. Sound(kept, Begin, To) /\ Len(kept) = To + 1 - Begin /\ Real(Begin, To)
        BY <2>3, <3>2 DEF Inv
      <4>2. Len(kept) = Len(Asked)
        BY <2>2, <4>1 DEF Real
      <4>3. \A k \in 1 .. Len(kept) : kept[k] = Asked[k]
        BY <2>2, <4>1, <4>2 DEF Sound
      <4>4. QED  BY <2>1, <2>2, <4>2, <4>3, SeqEqual
    <3>3. QED  BY <3>1, <3>2 DEF Inductive
  <2>4. ASSUME NEW k \in 1 .. Len(kept), kept[k] = Spoiled
        PROVE  \E i \in DOMAIN Segments :
                  TypeOf(i) = "big" /\ Begin + k - 1 \in Base[i] .. Base[i] + Segments[i].len - 1
    <3>1. Real(Begin, To) /\ Loose(kept, Begin, To, 0)
      <4>1. kept # <<>>
        BY <2>4
      <4>2. QED  BY <2>1, <4>1
    <3>2. Begin + k - 1 # Spoiled
      BY <2>1, <3>1 DEF Real, Spoiled
    <3>3. BigAt(Begin + k - 1)
      BY <2>4, <3>1, <3>2 DEF Loose
    <3>4. DOMAIN Segments = Segs
      BY AssembleAssumption DEF Segs
    <3>5. QED  BY <3>3, <3>4 DEF BigAt
  <2>5. gen.pc = "done" => out = Asked \/ Len(out) > Len(Asked)
    BY <2>1, <2>2, <2>3
  <2>6. QED  BY <2>1, <2>3, <2>4, <2>5 DEF CompleteIsRight
<1>2. QED  BY InductiveHolds, <1>1, PTL
=============================================================================
