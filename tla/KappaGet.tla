------------------------------ MODULE KappaGet ------------------------------
(***************************************************************************)
(* get(kappa) of deploy/kappa-get.mjs: a byte range of an object, read in   *)
(* runs of neighbouring pieces from holders nobody trusts, several runs at  *)
(* once, each piece checked against its hash and released in order; and     *)
(* `standing`, the record of holders that all gets of a process share.      *)
(*                                                                         *)
(* A byte is written as its own offset in the object, and Spoiled is any    *)
(* other byte: a buffer is right when it equals the offsets it stands for.  *)
(***************************************************************************)
EXTENDS Filtering, FiniteSets

CONSTANTS
    Gets,       \* calls of get on the object
    Spans,      \* the ranges <<from, to>> they may ask for
    Kinds,      \* holders
    Listed,     \* the holders as the caller lists them, one perhaps several times
    ByPiece,    \* those that serve pieces by hash (IPFS); the others serve ranges
    Honest,     \* those that answer every read in time, with the right bytes
    Size,       \* bytes of the object
    PIECE,
    Per,        \* pieces of one run: RUN / PIECE
    AHEAD       \* runs in flight at once

ASSUME GetAssumption ==
    /\ IsFiniteSet(Gets)
    /\ Listed \in Seq(Kinds) /\ ByPiece \subseteq Kinds /\ Honest \subseteq Kinds
    /\ Size \in Nat \ {0} /\ PIECE \in Nat \ {0} /\ Per \in Nat \ {0} /\ AHEAD \in Nat \ {0}
    /\ \A s \in Spans : s[1] \in 0 .. Size - 1 /\ s[2] \in s[1] .. Size - 1

VARIABLES
    lies,       \* standing: strikes of each holder
    call        \* the gets

vars == <<lies, call>>

Spoiled == -1

-----------------------------------------------------------------------------
(* Pieces and runs. *)

LenOf(p) == IF PIECE < Size - p * PIECE THEN PIECE ELSE Size - p * PIECE
Bytes(from, to) == [i \in 1 .. to - from + 1 |-> from + i - 1]
PieceBytes(p) == Bytes(p * PIECE, p * PIECE + LenOf(p) - 1)

(* variant for mutation: only the length of a piece is compared *)
OkLength(p, buf) == Len(buf) = LenOf(p)
Ok(p, buf) == buf = PieceBytes(p)

FirstPiece(c) == c.from \div PIECE
LastPiece(c) == c.to \div PIECE
(* Runs are numbered from 0; run i covers these pieces. *)
RunCount(c) == (LastPiece(c) - FirstPiece(c)) \div Per + 1
RunPieces(c, i) ==
    LET a == FirstPiece(c) + i * Per
    IN  {p \in a .. a + Per - 1 : p <= LastPiece(c)}

Least(S) == CHOOSE x \in S : \A y \in S : x <= y
Greatest(S) == CHOOSE x \in S : \A y \in S : x >= y

-----------------------------------------------------------------------------
(* Standing. *)

Demoted(k) == lies[k] > 0
Note(k, n) == lies' = [lies EXCEPT ![k] = @ + n]

(* variant for mutation: the order of the list is kept *)
RankListed == Listed
(* Holders without a strike first. *)
Rank == Filter(Listed, {k \in Kinds : ~Demoted(k)}) \o Filter(Listed, {k \in Kinds : Demoted(k)})

-----------------------------------------------------------------------------
(* One run: `left` is the holders still to ask, the one being asked first;   *)
(* `asked` the pieces awaited from a holder that serves single pieces; `got` *)
(* the accepted pieces.                                                      *)
NoPieces == [p \in {} |-> <<>>]
Missing(c, i) == RunPieces(c, i) \ DOMAIN c.run[i].got
Asked(pieces, left) == IF left # <<>> /\ Head(left) \in ByPiece THEN pieces ELSE {}

Begin(c, i) ==
    [st |-> IF Rank = <<>> THEN "failed" ELSE "fetching",
     left |-> Rank, asked |-> Asked(RunPieces(c, i), Rank), got |-> NoPieces]

(* A holder is through: on to the next, unless nothing is missing or nobody is left. *)
(* variant for mutation: the run is given up when the first holder fails *)
AdvanceOnce(c, i, got) ==
    IF RunPieces(c, i) \subseteq DOMAIN got
    THEN [st |-> "ok", left |-> <<>>, asked |-> {}, got |-> got]
    ELSE [st |-> "failed", left |-> <<>>, asked |-> {}, got |-> NoPieces]
Advance(c, i, got) ==
    LET missing == RunPieces(c, i) \ DOMAIN got
        rest == Tail(c.run[i].left)
    IN  IF missing = {} THEN [st |-> "ok", left |-> <<>>, asked |-> {}, got |-> got]
        ELSE IF rest = <<>> THEN [st |-> "failed", left |-> <<>>, asked |-> {}, got |-> NoPieces]
        ELSE [st |-> "fetching", left |-> rest, asked |-> Asked(missing, rest), got |-> got]

Asking(g, i) ==
    /\ i \in DOMAIN call[g].run /\ call[g].run[i].st = "fetching"
Asks(g, i) == Head(call[g].run[i].left)
SetRun(g, i, r) == call' = [call EXCEPT ![g].run[i] = r]

(* pump: start runs while fewer than AHEAD are in flight. *)
Pump(c) ==
    LET room == AHEAD - Len(c.inflight)
        last == IF c.next + room < RunCount(c) THEN c.next + room ELSE RunCount(c)
        fresh == c.next .. last - 1
    IN  [c EXCEPT !.next = last,
                  !.inflight = @ \o [k \in 1 .. last - c.next |-> c.next + k - 1],
                  !.run = [i \in DOMAIN @ \cup fresh |-> IF i \in fresh THEN Begin(c, i) ELSE @[i]]]

(* inflight.shift(): the next run to wait for, or the end. *)
Shift(c) ==
    IF c.inflight = <<>> THEN [c EXCEPT !.pc = "done"]
    ELSE [c EXCEPT !.pc = "await", !.cur = Head(c.inflight), !.inflight = Tail(@)]

Init ==
    /\ lies = [k \in Kinds |-> 0]
    /\ call \in [Gets -> {[pc |-> "idle", from |-> s[1], to |-> s[2], next |-> 0,
                           inflight |-> <<>>, cur |-> 0, piece |-> 0,
                           run |-> NoPieces, out |-> <<>>] : s \in Spans}]

(* The first read of the generator. *)
Start(g) ==
    /\ call[g].pc = "idle"
    /\ call' = [call EXCEPT ![g] = Shift(Pump(call[g]))]
    /\ UNCHANGED lies

-----------------------------------------------------------------------------
(* Answers of holders. *)

(* What a range holder may send for len bytes at off: some pieces spoiled, or *)
(* a byte short.  The transfer may also fail.                                 *)
Sent(off, len, spoiled) ==
    [i \in 1 .. len |-> IF (off + i - 1) \div PIECE \in spoiled THEN Spoiled ELSE off + i - 1]
Short(buf) == SubSeq(buf, 1, Len(buf) - 1)

(* The bytes of piece p in a buffer that starts at off (subarray clips). *)
PartOf(buf, off, p) ==
    SubSeq(buf, p * PIECE - off + 1,
           LET end == p * PIECE - off + LenOf(p) IN IF end < Len(buf) THEN end ELSE Len(buf))

RangeAnswer(g, i, spoiled, short) ==
    LET c == call[g]
        want == Missing(c, i)
        lo == Least(want)
        hi == Greatest(want)
        off == lo * PIECE
        whole == Sent(off, hi * PIECE + LenOf(hi) - off, spoiled)
        buf == IF short THEN Short(whole) ELSE whole
        right == {p \in want : Ok(p, PartOf(buf, off, p))}
        got == [p \in DOMAIN c.run[i].got \cup right |->
                  IF p \in right THEN PartOf(buf, off, p) ELSE c.run[i].got[p]]
    IN  /\ Asking(g, i) /\ Asks(g, i) \notin ByPiece
        /\ spoiled \subseteq want
        /\ Asks(g, i) \in Honest => spoiled = {} /\ ~short
        /\ Note(Asks(g, i), Cardinality(want \ right))
        /\ SetRun(g, i, Advance(c, i, got))

(* The read fails; one that misses its deadline is a strike. *)
RangeFails(g, i, slow) ==
    /\ Asking(g, i) /\ Asks(g, i) \notin ByPiece \cup Honest
    /\ Note(Asks(g, i), IF slow THEN 1 ELSE 0)
    /\ SetRun(g, i, Advance(call[g], i, call[g].run[i].got))

(* One of the pieces asked of a piece holder: right, other bytes, not held   *)
(* (null) or failed, or too late.  Promise.all waits for the last of them.   *)
PieceAnswer(g, i, p, answer) ==
    LET r == call[g].run[i]
        buf == IF answer = "right" THEN PieceBytes(p) ELSE Sent(p * PIECE, LenOf(p), {p})
        good == answer \in {"right", "wrong"} /\ Ok(p, buf)
        got == [q \in DOMAIN r.got \cup (IF good THEN {p} ELSE {}) |-> IF q = p THEN buf ELSE r.got[q]]
    IN  /\ Asking(g, i) /\ p \in r.asked
        /\ Asks(g, i) \in Honest => answer = "right"
        /\ Note(Asks(g, i), IF ~good /\ answer \in {"wrong", "slow"} THEN 1 ELSE 0)
        /\ SetRun(g, i, IF r.asked = {p} THEN Advance(call[g], i, got)
                        ELSE [r EXCEPT !.asked = @ \ {p}, !.got = got])

-----------------------------------------------------------------------------
(* The generator. *)

(* The awaited run is there: refill the window, then yield its pieces.  A run *)
(* no holder could complete ends the generator with an error.                 *)
Await(g) ==
    LET c == call[g] IN
    /\ c.pc = "await" /\ c.run[c.cur].st \in {"ok", "failed"}
    /\ call' = [call EXCEPT ![g] =
                  IF c.run[c.cur].st = "failed" THEN [c EXCEPT !.pc = "failed"]
                  ELSE [Pump(c) EXCEPT !.pc = "yield", !.piece = Least(RunPieces(c, c.cur))]]
    /\ UNCHANGED lies

(* The bytes of a piece that the range covers. *)
CutTo(c, p, buf) ==
    LET start == p * PIECE
        lo == IF c.from > start THEN c.from ELSE start
        hi == IF c.to < start + Len(buf) - 1 THEN c.to ELSE start + Len(buf) - 1
    IN  SubSeq(buf, lo - start + 1, hi - start + 1)

(* The consumer takes a piece and asks for the next. *)
Pull(g) ==
    LET c == call[g]
        more == [c EXCEPT !.out = @ \o CutTo(c, c.piece, c.run[c.cur].got[c.piece])]
    IN  /\ c.pc = "yield"
        /\ call' = [call EXCEPT ![g] =
                      IF c.piece + 1 \in RunPieces(c, c.cur) THEN [more EXCEPT !.piece = @ + 1]
                      ELSE Shift([more EXCEPT !.run[c.cur].got = NoPieces])]
        /\ UNCHANGED lies

(* The consumer stops reading: runs in flight go on, nobody takes them. *)
Leave(g) ==
    /\ call[g].pc = "yield"
    /\ call' = [call EXCEPT ![g].pc = "left"]
    /\ UNCHANGED lies

Answer(g, i) ==
    \/ \E spoiled \in SUBSET RunPieces(call[g], i), short \in BOOLEAN : RangeAnswer(g, i, spoiled, short)
    \/ \E slow \in BOOLEAN : RangeFails(g, i, slow)
    \/ \E p \in RunPieces(call[g], i), answer \in {"right", "wrong", "none", "slow"} :
          PieceAnswer(g, i, p, answer)

Work(g) ==
    \/ Start(g) \/ Await(g) \/ Pull(g)
    \/ \E i \in DOMAIN call[g].run : Answer(g, i)

Next == \E g \in Gets : Work(g) \/ Leave(g)

Spec == Init /\ [][Next]_vars

(* Every read ends, by its deadline at the latest, and a consumer that has   *)
(* not left reads on: a get takes finitely many steps, so it is enough that  *)
(* it goes on while it can.                                                  *)
FairSpec == Spec /\ \A g \in Gets : WF_vars(Work(g))

-----------------------------------------------------------------------------
(* What a consumer has been given is the start of the range it asked for,  *)
(* byte for byte and in order, whatever holders sent and in whatever order *)
(* the runs came in; a get that ends without an error has given all of it. *)
ReleasedRight ==
    \A g \in Gets :
        LET c == call[g]
            asked == Bytes(c.from, c.to)
        IN  /\ Len(c.out) <= Len(asked) /\ c.out = SubSeq(asked, 1, Len(c.out))
            /\ c.pc = "done" => c.out = asked

(* "An honest holder never sends a wrong byte": one that answers right and in *)
(* time never gets a strike, also for a range that spans pieces which others  *)
(* had delivered.                                                             *)
HonestUnblamed == \A k \in Honest : lies[k] = 0

(* The list names somebody honest; where it names k. *)
HonestListed == \E n \in DOMAIN Listed : Listed[n] \in Honest
Places(k) == {n \in DOMAIN Listed : Listed[n] = k}

(* "A liar costs a few pieces, not a fetch per piece": while somebody honest  *)
(* is listed, a holder's strikes stay within the runs that were in flight     *)
(* when it got its first, one for each piece and each time it is listed,      *)
(* however long the object is; and an honest one has none (note and rank of   *)
(* kappa-get.mjs).                                                            *)
BlameIsFair ==
    /\ HonestUnblamed
    /\ HonestListed => \A k \in Kinds : lies[k] <= Cardinality(Gets) * AHEAD * Per * Cardinality(Places(k))

(* With one honest holder listed, every get whose consumer stays is served *)
(* to the end.                                                             *)
Delivered ==
    HonestListed => \A g \in Gets : <>(call[g].pc \in {"done", "left"})
=============================================================================
