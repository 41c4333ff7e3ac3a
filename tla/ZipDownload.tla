---------------------------- MODULE ZipDownload -----------------------------
(***************************************************************************)
(* web/src/zip-sw.js: the service worker that answers zip/<model> with a    *)
(* zip put together while it streams.  Downloads of one model, each with    *)
(* its files' streams (`resilient`), its writer and its paced body; the     *)
(* sources, the browser that takes the bytes and the page that cancels are  *)
(* the environment.                                                         *)
(*                                                                         *)
(* A byte of a file is written as its offset and Spoiled is any other byte; *)
(* a chunk is one byte.  The two files that the worker adds itself are put  *)
(* with one write each, and so is everything `finish` writes.               *)
(***************************************************************************)
EXTENDS ZipWriter, FiniteSets

CONSTANTS
    Files,         \* entries from the index, see FileType
    Tails,         \* SHA256SUMS and HOLOGRAM.json: entries of ZipWriter
    Downloads,     \* requests for the zip, in the order they come: 1 .. n
    TRIES,         \* connections to one source
    WINDOW, GATEWAY_WINDOW,
    HighWater,     \* chunks the body holds before its writer has to wait
    MaxTrouble     \* bound: answers, breaks and bytes that are not as they should be

(* `small` is size <= SMALL; urls are the kinds of its sources, best first. *)
FileType == [size : Nat, name : Nat, small : BOOLEAN, urls : Seq({"huggingface.co", "modelscope.cn", "ipfs"})]

ASSUME DownloadAssumption ==
    /\ Files \in Seq(FileType) /\ \A i \in DOMAIN Files : Files[i].urls # <<>>
    /\ Tails \in Seq(EntryType) /\ Downloads = 1 .. Cardinality(Downloads)
    /\ TRIES \in Nat \ {0} /\ WINDOW \in Nat /\ GATEWAY_WINDOW \in Nat
    /\ HighWater \in Nat \ {0} /\ MaxTrouble \in Nat

VARIABLES
    running,     \* the download the map `running` holds for the model, or 0
    dl,          \* each download: its loop, its abort signal and its body
    stream,      \* the stream of each file of each download
    trouble

vars == <<running, dl, stream, trouble>>

N == Len(Files)
Entries == [i \in DOMAIN Files |-> [size |-> Files[i].size, name |-> Files[i].name]] \o Tails
Spoiled == -1
Right(i) == [k \in 1 .. Files[i].size |-> k - 1]

NoStream == [st |-> "none", received |-> 0, conn |-> FALSE, pos |-> 0, at |-> 1, tries |-> 0, buf |-> <<>>]
Broken == [NoStream EXCEPT !.st = "error"]
NoDownload == [pc |-> "idle", i |-> 1, aborted |-> FALSE, waiting |-> FALSE, queue |-> 0,
               sent |-> 0, starts |-> <<>>, out |-> [i \in DOMAIN Files |-> <<>>]]

Init ==
    /\ running = 0 /\ trouble = 0
    /\ dl = [d \in Downloads |-> NoDownload]
    /\ stream = [d \in Downloads |-> [i \in DOMAIN Files |-> NoStream]]

Ended(d) == dl[d].pc \in {"done", "failed", "cancelled"}
Live(d) == dl[d].pc # "idle" /\ ~Ended(d)

-----------------------------------------------------------------------------
(* The abort signal: fetches, reads and writes are refused from now on, so    *)
(* all that is left for the download is to end, once its writer, if it waits, *)
(* is woken; after the last write it ends well all the same.                  *)

Stopped(d) ==
    IF dl[d].pc = "end" THEN [dl[d] EXCEPT !.aborted = TRUE]
    ELSE [NoDownload EXCEPT !.pc = "stop", !.aborted = TRUE, !.waiting = dl[d].waiting]
(* variant for mutation: a writer that waits is not woken *)
WokenNot(d) == Stopped(d)
Woken(d) == [Stopped(d) EXCEPT !.waiting = FALSE]
Dead == [i \in DOMAIN Files |-> NoStream]

(* A request for the zip: the model's other download is aborted. *)
Arrive(d) ==
    /\ dl[d].pc = "idle" /\ \A c \in 1 .. d - 1 : dl[c].pc # "idle"
    /\ running' = d
    /\ dl' = IF running # 0 THEN [dl EXCEPT ![running] = Woken(running), ![d].pc = "open"]
                            ELSE [dl EXCEPT ![d].pc = "open"]
    /\ stream' = IF running # 0 THEN [stream EXCEPT ![running] = Dead] ELSE stream
    /\ UNCHANGED trouble

(* The page asks for the model's download to be cancelled. *)
PageCancel ==
    /\ running # 0 /\ ~dl[running].aborted
    /\ dl' = [dl EXCEPT ![running] = Woken(running)]
    /\ stream' = [stream EXCEPT ![running] = Dead]
    /\ UNCHANGED <<running, trouble>>

(* The browser gives the body up. *)
BrowserCancel(d) ==
    /\ Live(d) /\ ~dl[d].aborted
    /\ dl' = [dl EXCEPT ![d] = Woken(d)]
    /\ stream' = [stream EXCEPT ![d] = Dead]
    /\ UNCHANGED <<running, trouble>>

(* pull: called when the body is below its mark. *)
Pulled(x) == IF x.queue < HighWater THEN [x EXCEPT !.waiting = FALSE] ELSE x

(* The browser takes a chunk. *)
Take(d) ==
    /\ dl[d].queue > 0
    /\ dl' = [dl EXCEPT ![d] = Pulled([dl[d] EXCEPT !.queue = @ - 1])]
    /\ UNCHANGED <<running, stream, trouble>>

-----------------------------------------------------------------------------
(* resilient: one file's bytes, through dropped connections. *)

Set(d, i, s) == stream' = [stream EXCEPT ![d][i] = s] /\ UNCHANGED <<running, dl>>
Trouble == trouble < MaxTrouble /\ trouble' = trouble + 1

(* A stream is pulled while its consumer wants bytes: all of them for a small *)
(* file, one chunk ahead for a large one.                                     *)
Pulls(d, i) == stream[d][i].st = "run" /\ (Files[i].small \/ stream[d][i].buf = <<>>)
NextSource(s) == [s EXCEPT !.at = @ + 1, !.tries = 0]
Dropped(s) == [s EXCEPT !.conn = FALSE, !.pos = 0]

(* variant for mutation: tries are never counted up *)
TryAgainForever(s) == [Dropped(s) EXCEPT !.tries = 1 - @]
TryAgain(s) == [Dropped(s) EXCEPT !.tries = @ + 1]

GiveUp(d, i) ==
    LET s == stream[d][i]
    IN  /\ Pulls(d, i) /\ ~s.conn
        /\ s.at > Len(Files[i].urls) \/ s.tries >= TRIES
        /\ Set(d, i, IF s.at > Len(Files[i].urls) THEN Broken ELSE NextSource(s))
        /\ UNCHANGED trouble

(* Without a byte received no Range is sent, so an empty file is served too. *)
HasRest(received, i) == received = 0 \/ received < Files[i].size

(* The source answers: with the rest from `received`, with the whole file     *)
(* though a rest was asked for, 404 or 403, or with another error or not at   *)
(* all; there is no rest after the last byte (416).                           *)
Connect(d, i, answer) ==
    LET s == stream[d][i]
    IN  /\ Pulls(d, i) /\ ~s.conn /\ s.at <= Len(Files[i].urls) /\ s.tries < TRIES
        /\ answer = "rest" => HasRest(s.received, i)
        /\ answer = "whole" => s.received > 0
        /\ IF answer = (IF HasRest(s.received, i) THEN "rest" ELSE "error") THEN UNCHANGED trouble ELSE Trouble
        /\ Set(d, i, CASE answer = "rest" -> [s EXCEPT !.conn = TRUE, !.pos = s.received]
                       [] answer = "whole" -> [s EXCEPT !.conn = TRUE, !.pos = 0]
                       [] answer = "gone" -> NextSource(s)
                       [] answer = "error" -> TryAgain(s))

(* variant for mutation: the head of a whole answer is not skipped *)
SkippedNot(s) == FALSE
(* skipping: the bytes of a whole answer that have come already. *)
Skipped(s) == s.pos < s.received

(* A byte comes; one more than the file has is an error. *)
Chunk(d, i, right) ==
    LET s == stream[d][i]
        more == [s EXCEPT !.pos = @ + 1, !.received = @ + 1,
                          !.buf = Append(@, IF right THEN s.pos ELSE Spoiled)]
    IN  /\ Pulls(d, i) /\ s.conn /\ (right => s.pos < Files[i].size)
        /\ IF right THEN UNCHANGED trouble ELSE Trouble
        /\ Set(d, i, IF Skipped(s) THEN [s EXCEPT !.pos = @ + 1]
                     ELSE IF more.received > Files[i].size THEN Broken
                     ELSE more)

(* The answer ends: with the file, or short of it. *)
Over(d, i) ==
    LET s == stream[d][i]
    IN  /\ Pulls(d, i) /\ s.conn
        /\ IF s.pos >= Files[i].size THEN UNCHANGED trouble ELSE Trouble
        /\ Set(d, i, IF s.received < Files[i].size THEN TryAgain(s) ELSE [Dropped(s) EXCEPT !.st = "closed"])

(* The connection breaks; after the last try the next source is asked. *)
Break(d, i) ==
    LET s == TryAgain(stream[d][i])
    IN  /\ Pulls(d, i) /\ stream[d][i].conn /\ Trouble
        /\ Set(d, i, IF s.tries >= TRIES THEN NextSource(s) ELSE s)

-----------------------------------------------------------------------------
(* download: the loop over the entries. *)

(* Streams that are begun when file i is opened: its own, the next one, and   *)
(* the small ones in the window.                                              *)
Window(i) == IF Files[i].urls[1] = "ipfs" THEN GATEWAY_WINDOW ELSE WINDOW
Begins(i) == {i} \cup {j \in i + 1 .. i + Window(i) : j <= N /\ (Files[j].small \/ j = i + 1)}

(* Runs of the loop between two awaits of the writer. *)
Ready(d, pc) == dl[d].pc = pc /\ ~dl[d].waiting

(* variant for mutation: the writer never waits *)
FilledNever(queue) == FALSE
Filled(queue) == queue >= HighWater

(* write: a chunk of n bytes goes into the body, and the writer waits when it *)
(* is full.  The body's mark is counted in chunks; in bytes the last chunk    *)
(* may carry it past the mark, by less than that chunk.                       *)
Put(x, n) ==
    [x EXCEPT !.queue = @ + 1, !.sent = @ + n, !.waiting = Filled(x.queue + 1)]

Open(d) ==
    /\ Ready(d, "open")
    /\ IF dl[d].i <= N
       THEN /\ stream' = [stream EXCEPT ![d] = [j \in DOMAIN Files |->
                            IF j \in Begins(dl[d].i) /\ @[j].st = "none" THEN [NoStream EXCEPT !.st = "run"] ELSE @[j]]]
            /\ dl' = [dl EXCEPT ![d].pc = "header"]
       ELSE /\ dl' = [dl EXCEPT ![d].pc = IF dl[d].i <= Len(Entries) THEN "tail" ELSE "finish"]
            /\ UNCHANGED stream
    /\ UNCHANGED <<running, trouble>>

(* variant for mutation: the entry's start is taken after its header *)
HeaderLate(x, e) == Put([x EXCEPT !.pc = "data", !.starts = Append(@, x.sent + HeaderLen(e))], HeaderLen(e))
(* An entry's header; its start is kept for the directory. *)
PutHeader(x, e) == Put([x EXCEPT !.pc = "data", !.starts = Append(@, x.sent)], HeaderLen(e))
(* A small file is there as a whole before its header is written. *)
Header(d) ==
    LET i == dl[d].i
    IN  /\ Ready(d, "header")
        /\ Files[i].small => stream[d][i].st = "closed"
        /\ dl' = [dl EXCEPT ![d] = PutHeader(dl[d], Entries[i])]
        /\ UNCHANGED <<running, stream, trouble>>

Data(d) ==
    LET i == dl[d].i
        buf == stream[d][i].buf
    IN  /\ Ready(d, "data") /\ buf # <<>>
        /\ dl' = [dl EXCEPT ![d] = Put([dl[d] EXCEPT !.out[i] = @ \o buf], Len(buf))]
        /\ stream' = [stream EXCEPT ![d][i].buf = <<>>]
        /\ UNCHANGED <<running, trouble>>

Descriptor(d) ==
    LET i == dl[d].i
    IN  /\ Ready(d, "data") /\ stream[d][i].buf = <<>> /\ stream[d][i].st = "closed"
        /\ Len(dl[d].out[i]) = Files[i].size
        /\ dl' = [dl EXCEPT ![d] = Put([dl[d] EXCEPT !.pc = "check"], DescriptorLen(Entries[i]))]
        /\ UNCHANGED <<running, stream, trouble>>

(* variant for mutation: the hash is not compared *)
CheckLength(i, bytes) == Len(bytes) = Files[i].size
(* check: the digest of what was written against the file's address. *)
Check(i, bytes) == bytes = Right(i)

Checked(d) ==
    /\ Ready(d, "check") /\ Check(dl[d].i, dl[d].out[dl[d].i])
    /\ dl' = [dl EXCEPT ![d].pc = "open", ![d].i = @ + 1]
    /\ UNCHANGED <<running, stream, trouble>>

AddTail(d) ==
    LET e == Entries[dl[d].i]
    IN  /\ Ready(d, "tail")
        /\ dl' = [dl EXCEPT ![d] = Put([dl[d] EXCEPT !.pc = "open", !.i = @ + 1, !.starts = Append(@, dl[d].sent)],
                                       HeaderLen(e) + e.size + DescriptorLen(e))]
        /\ UNCHANGED <<running, stream, trouble>>

Finish(d) ==
    /\ Ready(d, "finish")
    /\ dl' = [dl EXCEPT ![d] = Put([dl[d] EXCEPT !.pc = "end"], FinishLen(Entries, dl[d].starts, dl[d].sent))]
    /\ UNCHANGED <<running, stream, trouble>>

(* variant for mutation: the entry is deleted whoever it belongs to *)
ClearedAlways(d) == 0
(* finally: only its own entry of `running`. *)
Cleared(d) == IF running = d THEN 0 ELSE running

(* The download ends; nobody looks at the rest of its state any more, and     *)
(* the bytes in the body of one that ended well are the browser's.            *)
End(d, pc) ==
    /\ dl' = [dl EXCEPT ![d] = IF pc = "done" THEN [NoDownload EXCEPT !.pc = pc, !.out = dl[d].out, !.sent = dl[d].sent]
                               ELSE [NoDownload EXCEPT !.pc = pc]]
    /\ stream' = [stream EXCEPT ![d] = Dead]
    /\ running' = Cleared(d)
    /\ UNCHANGED trouble

Done(d) == Ready(d, "end") /\ End(d, "done")

(* The next write, fetch or read of an aborted download throws. *)
Cancelled(d) ==
    /\ Ready(d, "stop")
    /\ End(d, "cancelled")

(* A file's stream ended with an error, or its bytes are not the index's. *)
Fails(d) ==
    LET i == dl[d].i
    IN  /\ \/ dl[d].pc \in {"header", "data"} /\ Ready(d, dl[d].pc) /\ stream[d][i].st = "error"
           \/ Ready(d, "check") /\ ~Check(i, dl[d].out[i])
        /\ End(d, "failed")

Work(d) ==
    \/ Open(d) \/ Header(d) \/ Data(d) \/ Descriptor(d) \/ Checked(d)
    \/ AddTail(d) \/ Finish(d) \/ Done(d) \/ Cancelled(d) \/ Fails(d)

Fetch(d, i) ==
    \/ GiveUp(d, i)
    \/ \E answer \in {"rest", "whole", "gone", "error"} : Connect(d, i, answer)
    \/ \E right \in BOOLEAN : Chunk(d, i, right)
    \/ Over(d, i) \/ Break(d, i)

Fetching(d) == \E i \in DOMAIN Files : Fetch(d, i)

Next ==
    \/ PageCancel
    \/ \E d \in Downloads :
          Arrive(d) \/ BrowserCancel(d) \/ Take(d) \/ Work(d) \/ Fetching(d)

Spec == Init /\ [][Next]_vars
(* The worker runs what is ready, sources answer or their connections break,  *)
(* and the browser takes bytes or gives up: each download takes finitely many *)
(* steps, so it is enough that one of its steps is taken while one can be.    *)
FairSpec == Spec /\ \A d \in Downloads : WF_vars(Work(d) \/ Fetching(d) \/ Take(d))

-----------------------------------------------------------------------------
(* Types; "a slow disk slows the producer instead of filling memory": the     *)
(* body takes no chunk once its mark is reached (HighWater, in chunks), and a *)
(* large file holds at most one.                                              *)
TypeOK ==
    /\ running \in Downloads \cup {0} /\ trouble \in 0 .. MaxTrouble
    /\ \A d \in Downloads :
         /\ dl[d].queue \in 0 .. HighWater
         /\ dl[d].i \in 1 .. Len(Entries) + 1 /\ dl[d].aborted \in BOOLEAN /\ dl[d].waiting \in BOOLEAN
         /\ \A i \in DOMAIN Files :
              /\ stream[d][i].at \in 1 .. Len(Files[i].urls) + 1 /\ stream[d][i].tries \in 0 .. TRIES
              /\ Len(stream[d][i].buf) <= IF Files[i].small THEN Files[i].size ELSE 1

(* "It asks again from the byte it reached": byte k of a file stands at place *)
(* k, however often and wherever the stream was taken up again; a source can  *)
(* spoil a byte, a resumption cannot repeat or lose one.                      *)
ResumesInPlace ==
    \A d \in Downloads, i \in DOMAIN Files :
        LET bytes == dl[d].out[i] \o stream[d][i].buf
        IN  \A k \in DOMAIN bytes : bytes[k] \in {k - 1, Spoiled}

(* "A mismatch errors the stream": a download that ends well has every file's *)
(* bytes, whatever the sources sent.                                          *)
DoneIsRight == \A d \in Downloads : dl[d].pc = "done" => \A i \in DOMAIN Files : dl[d].out[i] = Right(i)

(* The Content-Length declared before the first byte is the number of bytes   *)
(* written: "must mirror add() and finish() exactly".                         *)
LengthKept == \A d \in Downloads : dl[d].pc = "done" => dl[d].sent = SizeOf(Entries)

(* "One download per model at a time", and a cancel finds it: of the          *)
(* downloads under way only one is not aborted, and it is the one `running`   *)
(* holds, however the end of an old one and the start of a new one meet.      *)
OnePerModel ==
    /\ \A d \in Downloads : Live(d) /\ ~dl[d].aborted => running = d
    /\ running # 0 => Live(running)

(* "write() resolves only when the download wants more": the writer waits     *)
(* only for a body that is full and still wanted; neither a pull nor an       *)
(* abort that comes while it waits is lost.                                   *)
WaitsOnlyWhenFull == \A d \in Downloads : dl[d].waiting => dl[d].queue >= HighWater /\ ~dl[d].aborted

(* Every download ends: a source is not asked for ever, and a stream that was *)
(* begun ahead is not left unread by the one that waits for it.               *)
Ends == \A d \in Downloads : dl[d].pc = "open" ~> Ended(d)
=============================================================================
