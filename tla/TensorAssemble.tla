--------------------------- MODULE TensorAssemble ---------------------------
(***************************************************************************)
(* assemble of deploy/tensor-assemble.mjs, as the blob route of             *)
(* deploy/tensor-mirror.mjs uses it: a file rebuilt from its layout, each   *)
(* segment read from any of its holders and checked, a window of reads in   *)
(* flight, the bytes given to one client in order.                          *)
(*                                                                         *)
(* A byte is written as its own offset in the file and Spoiled is any other *)
(* byte.  get(kappa) is taken at its word (KappaGet: ReleasedRight): it     *)
(* gives the bytes of its range in order or ends with an error.             *)
(***************************************************************************)
EXTENDS Integers, Sequences, FiniteSets

CONSTANTS
    Segments,    \* layout.segments, see SegmentType
    Hosts,       \* hosts that payloads are read from
    Origin,      \* the host of ctx.origin
    Gateways,    \* ctx.ipfs, a sequence of hosts
    Ranges,      \* Range headers a client may send, see RangeType
    PIECE,
    MAX_BUFFER,
    GROUP,
    GAP,
    WINDOW

(* A place a payload can be read: its own object at a url, or `off` in a file *)
(* of a repository on the origin.                                             *)
SourceType == [url : BOOLEAN, host : Hosts, file : STRING, off : Nat]
SegmentType ==
    [kind : {"l", "v", "t"}, len : Nat, pieced : BOOLEAN, own : Seq(SourceType), alts : Seq(SourceType)]
RangeType == [type : {"whole", "span", "from", "last"}, a : Nat, b : Nat]

ASSUME AssembleAssumption ==
    /\ Segments \in Seq(SegmentType) /\ Origin \in Hosts /\ Gateways \in Seq(Hosts)
    /\ Ranges \subseteq RangeType /\ GROUP \in Nat /\ GAP \in Nat
    /\ PIECE \in Nat \ {0} /\ MAX_BUFFER \in Nat /\ WINDOW \in Nat \ {0}

VARIABLES
    ask,        \* the client's Range, and whether other holders are to be tried first
    units,      \* runs of segments, each read as one
    demoted,    \* hosts with a strike in `standing`
    next,       \* the next unit to take into the window
    pending,    \* units in the window, the first to be given out first
    fetch,      \* fetchUnit's promise of each unit that was taken
    gen,        \* the generator: [pc, cur, item, left, at, clean]
    out,        \* bytes written to the response
    kept,       \* history: out without the bytes of sources that broke off
    crashed     \* a promise was rejected that nobody had awaited or caught

vars == <<ask, units, demoted, next, pending, fetch, gen, out, kept, crashed>>

Spoiled == -1
Bytes(from, to) == [i \in 1 .. to - from + 1 |-> from + i - 1]

-----------------------------------------------------------------------------
(* The blob route's reading of a Range header. *)

(* Where segment i starts in the file. *)
Base[i \in 1 .. Len(Segments) + 1] == IF i = 1 THEN 0 ELSE Base[i - 1] + Segments[i - 1].len
FileSize == Base[Len(Segments) + 1]

From == CASE ask.range.type \in {"span", "from"} -> ask.range.a
          [] ask.range.type = "last" -> FileSize - ask.range.a
          [] OTHER -> 0
To == IF ask.range.type = "span" /\ ask.range.b < FileSize THEN ask.range.b ELSE FileSize - 1

-----------------------------------------------------------------------------
(* 1. Units in file order. *)

Covered(i) ==
    /\ Segments[i].len > 0
    /\ Base[i] <= To /\ Base[i] + Segments[i].len - 1 >= From

TypeOf(i) ==
    CASE Segments[i].kind \in {"l", "v"} -> Segments[i].kind
      [] Segments[i].kind = "t" /\ Segments[i].pieced /\ Segments[i].len > PIECE ->
           IF Segments[i].len > MAX_BUFFER THEN "P" ELSE "p"
      [] OTHER -> IF Segments[i].len > MAX_BUFFER THEN "big" ELSE "g"

(* The places to read a segment, best first. *)
Candidates(i) ==
    LET all == Segments[i].own \o Segments[i].alts
    IN  IF ask.others /\ all # <<>> THEN Append(Tail(all), Head(all)) ELSE all
FirstSource(i) == IF Candidates(i) = <<>> THEN <<>> ELSE <<Head(Candidates(i))>>
(* out.push(out.shift()) of an empty list: an undefined place, which throws  *)
(* where it is read and is as good as none before.                           *)
Undefined(i) == ask.others /\ Segments[i].own \o Segments[i].alts = <<>>

(* Segment i joins the read of the segments `run`, which lie right before it *)
(* in the file: it follows them in the same file of the origin, after a      *)
(* small gap at most, and the read stays small enough.                       *)
Joins(run, i) ==
    /\ run # <<>> /\ run[Len(run)] = i - 1 /\ TypeOf(i) = "g" /\ TypeOf(i - 1) = "g"
    /\ FirstSource(i) # <<>> /\ FirstSource(i - 1) # <<>>
    /\ LET first == FirstSource(run[1])[1]
           prev == FirstSource(i - 1)[1]
           this == FirstSource(i)[1]
           end == prev.off + Segments[i - 1].len
       IN  /\ ~prev.url /\ ~this.url /\ prev.file = this.file
           /\ this.off >= end /\ this.off - end <= GAP
           /\ this.off + Segments[i].len - first.off <= GROUP

(* The units with segment i added. *)
Grouped(us, i) ==
    LET run == IF us = <<>> THEN <<>> ELSE us[Len(us)]
    IN  IF ~Covered(i) THEN us
        ELSE IF Joins(run, i) THEN [us EXCEPT ![Len(us)] = Append(@, i)]
        ELSE Append(us, <<i>>)
UnitType(u) == TypeOf(units[u][1])

(* variant for mutation: a segment is given out from its first byte *)
CutToHead(i, buf) ==
    SubSeq(buf, 1, IF To - Base[i] + 1 < Segments[i].len THEN To - Base[i] + 1 ELSE Segments[i].len)
(* The bytes of segment i that the range covers. *)
CutTo(i, buf) ==
    LET a == Base[i]
        lo == IF From > a THEN From - a ELSE 0
        hi == IF To - a + 1 < Segments[i].len THEN To - a + 1 ELSE Segments[i].len
    IN  SubSeq(buf, lo + 1, hi)

Right(i) == Bytes(Base[i], Base[i] + Segments[i].len - 1)
Wrong(i) == [k \in 1 .. Segments[i].len |-> Spoiled]
Read(i, right) == IF right THEN Right(i) ELSE Wrong(i)

Checks(i, buf) == buf = Right(i)

-----------------------------------------------------------------------------
(* 2. fetchUnit.  `item` is the segment of the unit being worked on, `good`  *)
(* the segments whose part of the grouped read is right, `tries` the places  *)
(* left to try for the current one, `bufs` the checked buffers.              *)

NoFetch == [st |-> "none", item |-> 0, good |-> {}, tries |-> <<>>, bufs |-> <<>>]
Reading(u, st) == u \in DOMAIN fetch /\ fetch[u].st = st

(* A holder is a host; reads without a url go to the origin. *)
HostOf(s) == IF s.url THEN s.host ELSE Origin

(* fallback: every holder but the file that was just read; the gateways come *)
(* first when the origin has a strike, and last.                             *)
Gate == [g \in 1 .. Len(Gateways) |-> [url |-> TRUE, host |-> Gateways[g], file |-> "", off |-> 0]]
Fallback(i) ==
    LET skip == FirstSource(i)
        ipfs == IF Segments[i].len <= PIECE THEN Gate ELSE <<>>
        others == SelectSeq(Candidates(i),
                            LAMBDA s : ~(skip # <<>> /\ ~s.url /\ s.file = skip[1].file))
    IN  (IF Origin \in demoted THEN ipfs ELSE <<>>) \o
        (IF Undefined(i) THEN <<>> ELSE others \o ipfs)

(* The unit's next segment: its part of the grouped read, or the fallback. *)
Continue(u, f) ==
    LET n == f.item + 1
        i == units[u][n]
    IN  IF n > Len(units[u]) THEN [f EXCEPT !.st = "ok", !.tries = <<>>]
        ELSE IF i \in f.good THEN [f EXCEPT !.st = "next", !.item = n, !.bufs = Append(@, Right(i))]
        ELSE [f EXCEPT !.st = "try", !.item = n, !.tries = Fallback(i)]

(* A promise is rejected.  Only the one the generator awaits has a handler; *)
(* any other is an unhandled rejection, which ends the process.             *)
Awaited(u) == gen.pc = "await" /\ gen.cur = u
Reject(u) ==
    /\ fetch' = [fetch EXCEPT ![u].st = "failed"]
    /\ crashed' = (crashed \/ ~Awaited(u))
Resolve(u, f) == fetch' = [fetch EXCEPT ![u] = f] /\ UNCHANGED crashed

NewFetch(u) ==
    LET src == FirstSource(units[u][1])
    IN  IF UnitType(u) \in {"big", "P"} THEN NoFetch
        ELSE IF UnitType(u) # "g" THEN [NoFetch EXCEPT !.st = "single"]
        ELSE IF src = <<>> \/ (HostOf(src[1]) \in demoted /\ Gateways # <<>>)
             THEN [NoFetch EXCEPT !.st = "next"]
             ELSE [NoFetch EXCEPT !.st = "whole"]

(* A literal, a view or a pieced payload: its bytes, checked, or an error.  *)
Single(u, right) ==
    LET i == units[u][1] IN
    /\ Reading(u, "single") /\ ~crashed
    /\ right => ~(UnitType(u) = "p" /\ Undefined(i))
    /\ IF right THEN Resolve(u, [fetch[u] EXCEPT !.st = "ok", !.bufs = <<Right(i)>>]) ELSE Reject(u)
    /\ UNCHANGED <<ask, units, demoted, next, pending, gen, out, kept>>

(* The grouped read: each segment's part is right or not, or there is no     *)
(* buffer at all; one that misses its deadline is a strike.                  *)
Whole(u, good, slow) ==
    /\ Reading(u, "whole") /\ ~crashed
    /\ Resolve(u, [fetch[u] EXCEPT !.st = "next", !.good = good])
    /\ demoted' = IF slow /\ good = {} THEN demoted \cup {HostOf(FirstSource(units[u][1])[1])} ELSE demoted
    /\ UNCHANGED <<ask, units, next, pending, gen, out, kept>>

NextItem(u) ==
    /\ Reading(u, "next") /\ ~crashed
    /\ Resolve(u, Continue(u, fetch[u]))
    /\ UNCHANGED <<ask, units, demoted, next, pending, gen, out, kept>>

(* variant for mutation: a place that failed goes to the back of the line *)
RestLater(tries) == Append(Tail(tries), Head(tries))
(* The places left after the first one failed. *)
Rest(tries) == Tail(tries)

(* One place tried for a segment: right, other bytes (a strike), slow (a    *)
(* strike), or an error.  Without a place left the unit is rejected.        *)
Try(u, answer) ==
    LET i == units[u][fetch[u].item]
        s == Head(fetch[u].tries)
        buf == Read(i, answer = "right")
    IN  /\ Reading(u, "try") /\ fetch[u].tries # <<>> /\ ~crashed
        /\ IF answer \in {"right", "wrong"} /\ Checks(i, buf)
           THEN /\ Resolve(u, [fetch[u] EXCEPT !.st = "next", !.tries = <<>>, !.bufs = Append(@, buf)])
                /\ UNCHANGED demoted
           ELSE /\ Resolve(u, [fetch[u] EXCEPT !.tries = Rest(@)])
                /\ demoted' = IF answer \in {"wrong", "slow"} THEN demoted \cup {HostOf(s)} ELSE demoted
        /\ UNCHANGED <<ask, units, next, pending, gen, out, kept>>

NoneLeft(u) ==
    /\ Reading(u, "try") /\ fetch[u].tries = <<>> /\ ~crashed
    /\ Reject(u)
    /\ UNCHANGED <<ask, units, demoted, next, pending, gen, out, kept>>

-----------------------------------------------------------------------------
(* 3. In order, with a window of reads in flight. *)

Room(waiting) == WINDOW - Len(waiting)

(* fill: units taken while there is room; the fetch of each starts. *)
Fill(n, waiting) ==
    LET room == Room(waiting)
        last == IF n + room <= Len(units) THEN n + room ELSE Len(units) + 1
    IN  /\ next' = last
        /\ fetch' = [u \in DOMAIN fetch \cup n .. last - 1 |->
                        IF u \in DOMAIN fetch THEN fetch[u] ELSE NewFetch(u)]
        /\ pending' = waiting \o [k \in 1 .. last - n |-> n + k - 1]

(* pending.shift(): what the generator does with the unit that comes next. *)
Take(waiting) ==
    IF waiting = <<>> THEN [pc |-> "done", cur |-> 0, item |-> 1, left |-> <<>>, at |-> 0, clean |-> TRUE]
    ELSE LET u == Head(waiting) IN
         [pc |-> CASE UnitType(u) = "P" -> "pieces" [] UnitType(u) = "big" -> "big" [] OTHER -> "await",
          cur |-> u, item |-> 1,
          left |-> IF UnitType(u) = "big" THEN Candidates(units[u][1]) ELSE <<>>,
          at |-> 0, clean |-> TRUE]

Init ==
    /\ ask \in [range : Ranges, others : BOOLEAN]
    /\ units = <<>> /\ demoted = {} /\ next = 1 /\ pending = <<>>
    /\ fetch = [u \in {} |-> NoFetch]
    /\ gen = [pc |-> "idle", cur |-> 0, item |-> 1, left |-> <<>>, at |-> 0, clean |-> TRUE]
    /\ out = <<>> /\ kept = <<>> /\ crashed = FALSE

Live(pc) == gen.pc = pc /\ ~crashed
Release(bytes) == out' = out \o bytes /\ kept' = kept \o bytes

(* A range that holds nothing is refused with 416. *)
Start ==
    /\ Live("idle")
    /\ IF From > To \/ From >= FileSize
       THEN gen' = [gen EXCEPT !.pc = "refused"]
       ELSE gen' = [gen EXCEPT !.pc = "units"]
    /\ UNCHANGED <<ask, units, demoted, next, pending, fetch, out, kept, crashed>>

(* The loop over the layout's segments; gen.item is the next one. *)
Group ==
    /\ Live("units")
    /\ IF gen.item > Len(Segments)
       THEN gen' = [gen EXCEPT !.pc = "fill", !.item = 1] /\ UNCHANGED units
       ELSE gen' = [gen EXCEPT !.item = @ + 1] /\ units' = Grouped(units, gen.item)
    /\ UNCHANGED <<ask, demoted, next, pending, fetch, out, kept, crashed>>

FirstFill ==
    /\ Live("fill")
    /\ Fill(1, <<>>)
    /\ gen' = [gen EXCEPT !.pc = "shift"]
    /\ UNCHANGED <<ask, units, demoted, out, kept, crashed>>

Shift ==
    /\ Live("shift")
    /\ gen' = Take(pending)
    /\ pending' = IF pending = <<>> THEN <<>> ELSE Tail(pending)
    /\ UNCHANGED <<ask, units, demoted, next, fetch, out, kept, crashed>>

(* The awaited unit is there, or its error ends the transfer. *)
Await ==
    /\ Live("await") /\ fetch[gen.cur].st \in {"ok", "failed"}
    /\ IF fetch[gen.cur].st = "ok"
       THEN Fill(next, pending) /\ gen' = [gen EXCEPT !.pc = "yield"]
       ELSE gen' = [gen EXCEPT !.pc = "failed"] /\ UNCHANGED <<next, pending, fetch>>
    /\ UNCHANGED <<ask, units, demoted, out, kept, crashed>>

(* The client takes a segment of the unit. *)
Yield ==
    LET items == units[gen.cur]
    IN  /\ Live("yield")
        /\ Release(CutTo(items[gen.item], fetch[gen.cur].bufs[gen.item]))
        /\ gen' = IF gen.item < Len(items) THEN [gen EXCEPT !.item = @ + 1] ELSE [gen EXCEPT !.pc = "shift"]
        /\ fetch' = IF gen.item < Len(items) THEN fetch ELSE [fetch EXCEPT ![gen.cur].bufs = <<>>]
        /\ UNCHANGED <<ask, units, demoted, next, pending, crashed>>

(* A pieced payload too large to hold: get's bytes as they come, or its error. *)
Pieces ==
    LET i == units[gen.cur][1]
    IN  /\ Live("pieces")
        /\ \/ /\ ~Undefined(i)
              /\ Release(CutTo(i, Right(i)))
              /\ Fill(next, pending)
              /\ gen' = [gen EXCEPT !.pc = "shift"]
           \/ /\ gen' = [gen EXCEPT !.pc = "failed"]
              /\ UNCHANGED <<out, kept, next, pending, fetch>>
        /\ UNCHANGED <<ask, units, demoted, crashed>>

(* A large payload without pieces is given out as it is read: `at` bytes of  *)
(* the segment have come from the current source.                            *)
BigChunk(right) ==
    LET i == units[gen.cur][1]
        pos == Base[i] + gen.at
    IN  /\ Live("big") /\ gen.left # <<>> /\ gen.at < Segments[i].len
        /\ Release(IF From <= pos /\ pos <= To THEN <<IF right THEN pos ELSE Spoiled>> ELSE <<>>)
        /\ gen' = [gen EXCEPT !.at = @ + 1, !.clean = @ /\ right]
        /\ UNCHANGED <<ask, units, demoted, next, pending, fetch, crashed>>

(* How many bytes of the range lie in the first `at` bytes of segment i. *)
Given(i, at) ==
    LET lo == IF From > Base[i] THEN From ELSE Base[i]
        hi == IF To < Base[i] + at - 1 THEN To ELSE Base[i] + at - 1
    IN  IF lo <= hi THEN hi - lo + 1 ELSE 0

(* The source cannot be read to the end, readRange's own retries included:   *)
(* the next one starts with the segment's first byte, and what this one gave *)
(* is out already.                                                           *)
BigBreak ==
    LET i == units[gen.cur][1]
    IN  /\ Live("big") /\ gen.left # <<>> /\ gen.at < Segments[i].len
        /\ gen' = [gen EXCEPT !.left = Tail(@), !.at = 0, !.clean = TRUE]
        /\ kept' = SubSeq(kept, 1, Len(kept) - Given(i, gen.at))
        /\ UNCHANGED <<ask, units, demoted, next, pending, fetch, out, crashed>>

(* variant for mutation: the segment's hash is not compared *)
BigEndAny ==
    /\ Live("big") /\ gen.left # <<>> /\ gen.at = Segments[units[gen.cur][1]].len
    /\ Fill(next, pending) /\ gen' = [gen EXCEPT !.pc = "shift"]
    /\ UNCHANGED <<ask, units, demoted, out, kept, crashed>>
(* The whole segment is out: on with the next, or the transfer is ended. *)
BigEnd ==
    /\ Live("big")
    /\ \/ gen.left = <<>>
       \/ gen.at = Segments[units[gen.cur][1]].len
    /\ IF gen.left # <<>> /\ gen.clean
       THEN Fill(next, pending) /\ gen' = [gen EXCEPT !.pc = "shift"]
       ELSE gen' = [gen EXCEPT !.pc = "failed"] /\ UNCHANGED <<next, pending, fetch>>
    /\ UNCHANGED <<ask, units, demoted, out, kept, crashed>>

Fetching(u) ==
    \/ \E right \in BOOLEAN : Single(u, right)
    \/ \E good \in SUBSET {units[u][k] : k \in DOMAIN units[u]}, slow \in BOOLEAN : Whole(u, good, slow)
    \/ NextItem(u) \/ NoneLeft(u)
    \/ \E answer \in {"right", "wrong", "slow", "error"} : Try(u, answer)

Generating ==
    \/ Start \/ Group \/ FirstFill \/ Shift \/ Await \/ Yield \/ Pieces
    \/ \E right \in BOOLEAN : BigChunk(right)
    \/ BigBreak \/ BigEnd

Next == Generating \/ \E u \in DOMAIN fetch : Fetching(u)

Spec == Init /\ [][Next]_vars

(* Reads end, by their deadline at the latest, and the client reads on: a    *)
(* transfer takes finitely many steps, so it is enough that some step is     *)
(* taken while one can be.                                                   *)
FairSpec == Spec /\ WF_vars(Next)

-----------------------------------------------------------------------------
(* A suffix longer than the file asks for all of it. *)
Begin == IF From > 0 THEN From ELSE 0
Asked == Bytes(Begin, To)

(* "Bytes are still released in order": byte k of the response stands at     *)
(* place k of the range; nothing is left out, repeated or moved, whichever   *)
(* units came in first and from wherever.                                    *)
InOrder ==
    /\ Len(out) <= Len(Asked)
    /\ \A k \in DOMAIN out : out[k] \in {Asked[k], Spoiled}

(* The only bytes out of order are those that a source gave before it broke  *)
(* off inside a streamed segment: without them byte k of the response stands *)
(* at place k of the range, and a response with nothing too much has none.   *)
KeptInOrder ==
    /\ Len(kept) <= Len(Asked)
    /\ \A k \in DOMAIN kept : kept[k] \in {Asked[k], Spoiled}
    /\ Len(out) >= Len(kept) /\ (Len(out) = Len(kept) => out = kept)

(* "Abort on mismatch": a response that ends well is the range asked for, or  *)
(* longer than the range; and "each segment only after its kappa checks": a   *)
(* wrong byte goes out only from a segment too large to hold and without      *)
(* pieces, whose transfer then fails.                                         *)
CompleteIsRight ==
    /\ gen.pc = "done" => out = Asked \/ Len(out) > Len(Asked)
    /\ gen.pc = "done" => kept = Asked
    /\ \A k \in DOMAIN kept :
          kept[k] = Spoiled => \E i \in DOMAIN Segments :
                                  TypeOf(i) = "big" /\ Begin + k - 1 \in Base[i] .. Base[i] + Segments[i].len - 1

(* The transfer ends: with the whole range, with an error, or with the       *)
(* process, which a rejected read that nobody awaits yet takes down.  It     *)
(* never stalls with a unit that nobody fetches or a place tried for ever.   *)
TransferEnds == <>(gen.pc \in {"refused", "done", "failed"} \/ crashed)
=============================================================================
