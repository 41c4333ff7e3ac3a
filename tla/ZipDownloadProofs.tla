------------------------- MODULE ZipDownloadProofs --------------------------
(***************************************************************************)
(* Theorems about the zip worker: which download of a model goes on, when   *)
(* its writer waits, and what one that ends well has written, for any files, *)
(* sources, number of downloads and high-water mark.                        *)
(***************************************************************************)
EXTENDS ZipDownload, SequenceTheorems, WellFoundedInduction, TLAPS

Going == {"open", "header", "data", "check", "tail", "finish", "end", "stop"}
Pcs == Going \cup {"idle", "done", "failed", "cancelled"}

(* A download's record; of the bytes and offsets it has put nothing is needed *)
(* beyond the files' own.                                                     *)
Shape(x, sent, starts, out) ==
    x \in [pc : Pcs, i : Nat \ {0}, aborted : BOOLEAN, waiting : BOOLEAN, queue : Nat,
           sent : {sent}, starts : {starts}, out : {out}]

(* The files written so far are right, and the loop is where it can be. *)
Past(x) ==
    /\ x.out = [j \in DOMAIN Files |-> x.out[j]]
    /\ \A j \in DOMAIN Files : j < x.i => x.out[j] = Right(j)
    /\ x.pc \in {"header", "data", "check"} => x.i \in DOMAIN Files
    /\ x.pc \in {"tail", "finish", "end", "done"} => \A j \in DOMAIN Files : x.out[j] = Right(j)

Paced(x) ==
    /\ x.waiting => x.queue >= HighWater /\ ~x.aborted
    /\ x.aborted => x.pc \in {"stop", "end"}

One(x) == Shape(x, x.sent, x.starts, x.out) /\ Past(x) /\ Paced(x)

Inv ==
    /\ dl = [d \in Downloads |-> dl[d]]
    /\ running \in Downloads \cup {0}
    /\ \A d \in Downloads : One(dl[d])
    /\ OnePerModel

-----------------------------------------------------------------------------
LEMMA FilesDomain == DOMAIN Files = 1 .. N /\ N \in Nat
BY DownloadAssumption DEF N

LEMMA NoZero == 0 \notin Downloads
<1>1. PICK n : Downloads = 1 .. n
  BY ONLY DownloadAssumption DEF DownloadAssumption
<1> QED
  BY <1>1

LEMMA LiveGoing ==
    ASSUME NEW d \in Downloads, dl[d].pc \in Pcs
    PROVE  Live(d) <=> dl[d].pc \in Going
BY DEF Live, Ended, Pcs, Going

(* A download goes on, as aborted as it was, or not. *)
LEMMA GoesOn ==
    ASSUME Inv, NEW d \in Downloads, NEW new, dl' = [dl EXCEPT ![d] = new], One(new),
           running' = running, new.pc \in Going, dl[d].pc \in Going,
           dl[d].aborted => new.aborted
    PROVE  Inv'
<1>1. /\ dl' = [c \in Downloads |-> IF c = d THEN new ELSE dl[c]]
      /\ \A c \in Downloads : dl'[c] = IF c = d THEN new ELSE dl[c]
  BY DEF Inv
<1>2. (\A c \in Downloads : One(dl[c]))'
  BY <1>1 DEF Inv
<1>3. \A c \in Downloads : /\ Live(c)' <=> Live(c)
                           /\ dl[c].aborted => dl'[c].aborted
  BY <1>1 DEF Live, Ended, Going
<1>4. running \in Downloads \cup {0}
  BY DEF Inv
<1>5. /\ \A c \in Downloads : Live(c) /\ ~dl[c].aborted => running = c
      /\ running # 0 => Live(running)
  BY DEF Inv, OnePerModel
<1>6. /\ \A c \in Downloads : Live(c)' /\ ~dl'[c].aborted => running' = c
      /\ running' # 0 => Live(running)'
  BY <1>3, <1>4, <1>5
<1>7. OnePerModel'
  BY <1>6 DEF OnePerModel, Live, Ended
<1> QED
  BY <1>1, <1>2, <1>4, <1>7 DEF Inv

(* A chunk is put: the body fills, and nothing else of the loop changes. *)
LEMMA Puts ==
    ASSUME NEW x, One(x), ~x.waiting, ~x.aborted, NEW n
    PROVE  /\ One(Put(x, n)) /\ Put(x, n).pc = x.pc /\ Put(x, n).aborted = x.aborted
<1> DEFINE y == Put(x, n)
           full == Filled(x.queue + 1)
<1>1. Shape(x, x.sent, x.starts, x.out) /\ Past(x) /\ Paced(x) /\ x.queue \in Nat
  BY DEF One, Shape
<1>2. full \in BOOLEAN /\ (full => x.queue + 1 >= HighWater) /\ x.queue + 1 \in Nat
  BY <1>1 DEF Filled
<1>3. y = [x EXCEPT !.queue = x.queue + 1, !.sent = x.sent + n, !.waiting = full]
  BY <1>1 DEF Put, Shape
<1> HIDE DEF full
<1>4. \A q \in Nat : \A s : Shape([x EXCEPT !.queue = q, !.sent = s, !.waiting = full], s, x.starts, x.out)
  BY <1>1, <1>2 DEF Shape
<1>5. /\ y.pc = x.pc /\ y.i = x.i /\ y.aborted = x.aborted /\ y.waiting = full
      /\ y.queue = x.queue + 1 /\ y.sent = x.sent + n /\ y.starts = x.starts /\ y.out = x.out
  BY <1>1, <1>3 DEF Shape
<1>6. Shape(y, y.sent, y.starts, y.out)
  BY <1>2, <1>3, <1>4, <1>5
<1>7. Past(y)
  BY <1>1, <1>5 DEF Past
<1>8. Paced(y)
  BY <1>1, <1>2, <1>5 DEF Paced
<1> QED
  BY <1>5, <1>6, <1>7, <1>8 DEF One

(* The loop goes to another step, after which Past still holds. *)
LEMMA Turns ==
    ASSUME NEW x, One(x), ~x.aborted, ~x.waiting, NEW pc \in Going, NEW i \in Nat \ {0}, NEW starts, NEW out,
           Past([pc |-> pc, i |-> i, out |-> out]),
           NEW y, Shape(y, x.sent, starts, out),
           y.pc = pc, y.i = i, y.aborted = x.aborted, y.waiting = x.waiting
    PROVE  One(y) /\ ~y.waiting /\ ~y.aborted /\ y.pc = pc
<1>1. y.sent = x.sent /\ y.starts = starts /\ y.out = out
  BY DEF Shape
<1>2. Past(y)
  BY <1>1 DEF Past
<1>3. Paced(y)
  BY DEF Paced
<1> QED
  BY <1>1, <1>2, <1>3 DEF One

(* A download that has put nothing. *)
LEMMA BlankOne == One(NoDownload) /\ NoDownload.pc = "idle" /\ NoDownload.i = 1
<1> DEFINE out == [j \in DOMAIN Files |-> <<>>]
           none == <<>>
<1>1. NoDownload = [pc |-> "idle", i |-> 1, aborted |-> FALSE, waiting |-> FALSE, queue |-> 0,
                    sent |-> 0, starts |-> none, out |-> out]
  BY DEF NoDownload
<1>2. out = [j \in DOMAIN Files |-> out[j]]
  OBVIOUS
<1> HIDE DEF out, none
<1>3. /\ NoDownload.pc = "idle" /\ NoDownload.i = 1 /\ NoDownload.aborted = FALSE
      /\ NoDownload.waiting = FALSE /\ NoDownload.out = out
      /\ NoDownload.sent = 0 /\ NoDownload.starts = none
  BY <1>1
<1>4. Shape(NoDownload, 0, none, out)
  BY <1>1 DEF Shape, Pcs
<1>5. Past(NoDownload) /\ Paced(NoDownload)
  BY <1>2, <1>3, FilesDomain DEF Past, Paced
<1> QED
  BY <1>3, <1>4, <1>5 DEF One

(* The state that an aborted download is left in. *)
LEMMA WokenOne ==
    ASSUME Inv, NEW d \in Downloads, dl[d].pc \in Going
    PROVE  One(Woken(d)) /\ Woken(d).pc \in Going /\ Woken(d).aborted = TRUE
<1>1. Shape(dl[d], dl[d].sent, dl[d].starts, dl[d].out) /\ Past(dl[d]) /\ Paced(dl[d])
  BY DEF Inv, One
<1>2. CASE dl[d].pc = "end"
  <2> DEFINE y == [dl[d] EXCEPT !.aborted = TRUE, !.waiting = FALSE]
  <2>1. Woken(d) = y
    BY <1>1, <1>2 DEF Woken, Stopped, Shape
  <2>2. /\ y.pc = "end" /\ y.i = dl[d].i /\ y.aborted = TRUE /\ y.waiting = FALSE
        /\ y.sent = dl[d].sent /\ y.starts = dl[d].starts /\ y.out = dl[d].out
    BY <1>1, <1>2 DEF Shape
  <2>3. Shape(y, dl[d].sent, dl[d].starts, dl[d].out)
    BY <1>1 DEF Shape
  <2>4. Past(y) /\ Paced(y)
    BY <1>1, <1>2, <2>2 DEF Past, Paced
  <2> HIDE DEF y
  <2> QED
    BY <2>1, <2>2, <2>3, <2>4 DEF One, Going
<1>3. CASE dl[d].pc # "end"
  <2> DEFINE y == [NoDownload EXCEPT !.pc = "stop", !.aborted = TRUE, !.waiting = FALSE]
  <2>1. Woken(d) = y
    <3>1. Stopped(d) = [NoDownload EXCEPT !.pc = "stop", !.aborted = TRUE, !.waiting = dl[d].waiting]
      BY <1>3 DEF Stopped
    <3>2. Shape(NoDownload, NoDownload.sent, NoDownload.starts, NoDownload.out)
      BY BlankOne DEF One
    <3> QED
      BY <3>1, <3>2 DEF Woken, Shape
  <2>2. /\ y.pc = "stop" /\ y.i = NoDownload.i /\ y.aborted = TRUE /\ y.waiting = FALSE
        /\ y.sent = NoDownload.sent /\ y.starts = NoDownload.starts /\ y.out = NoDownload.out
    BY BlankOne DEF One, Shape
  <2>3. Shape(y, NoDownload.sent, NoDownload.starts, NoDownload.out)
    BY BlankOne DEF One, Shape, Pcs, Going
  <2>4. Past(y) /\ Paced(y)
    BY <2>2, BlankOne DEF One, Past, Paced
  <2> HIDE DEF y
  <2> QED
    BY <2>1, <2>2, <2>3, <2>4 DEF One, Going
<1> QED
  BY <1>2, <1>3

-----------------------------------------------------------------------------
(* The actions. *)

LEMMA CancelKeeps ==
    ASSUME Inv, NEW d \in Downloads, dl[d].pc \in Going,
           dl' = [dl EXCEPT ![d] = Woken(d)], running' = running
    PROVE  Inv'
BY WokenOne, GoesOn

LEMMA ArriveKeeps ==
    ASSUME Inv, NEW d \in Downloads, Arrive(d)
    PROVE  Inv'
<1> DEFINE new == [dl[d] EXCEPT !.pc = "open"]
<1>1. /\ dl[d].pc = "idle" /\ running' = d /\ One(dl[d])
      /\ running \in Downloads \cup {0}
      /\ dl = [c \in Downloads |-> dl[c]]
      /\ \A c \in Downloads : dl[c].pc \in Pcs
      /\ \A c \in Downloads : Live(c) /\ ~dl[c].aborted => running = c
      /\ running # 0 => Live(running)
  BY DEF Arrive, Inv, OnePerModel, One, Shape
<1>2. One(new) /\ new.pc = "open" /\ new.aborted = FALSE
  <2>1. Shape(dl[d], dl[d].sent, dl[d].starts, dl[d].out) /\ Past(dl[d]) /\ Paced(dl[d])
    BY <1>1 DEF One
  <2>2. /\ new.pc = "open" /\ new.i = dl[d].i /\ new.aborted = dl[d].aborted
        /\ new.waiting = dl[d].waiting /\ new.queue = dl[d].queue
        /\ new.sent = dl[d].sent /\ new.starts = dl[d].starts /\ new.out = dl[d].out
    BY <2>1 DEF Shape
  <2>3. Shape(new, dl[d].sent, dl[d].starts, dl[d].out)
    BY <2>1 DEF Shape, Pcs, Going
  <2>4. dl[d].aborted = FALSE
    BY <1>1, <2>1 DEF Paced, Shape
  <2>5. Past(new) /\ Paced(new)
    BY <2>1, <2>2, <2>4 DEF Past, Paced
  <2> QED
    BY <2>2, <2>3, <2>4, <2>5 DEF One
<1>3. d # running
  BY <1>1, NoZero DEF Live, Ended
<1>4. ASSUME running # 0 PROVE One(Woken(running)) /\ Woken(running).pc \in Going /\ Woken(running).aborted = TRUE
  <2>1. running \in Downloads /\ dl[running].pc \in Going
    BY <1>1, <1>4 DEF Live, Ended, Going, Pcs
  <2> QED
    BY <2>1, WokenOne
<1>5. \A c \in Downloads :
        dl'[c] = IF c = d THEN new ELSE IF c = running THEN Woken(running) ELSE dl[c]
  BY <1>1, <1>3, NoZero DEF Arrive
<1>6. dl' = [c \in Downloads |-> dl'[c]]
  BY <1>1, <1>3 DEF Arrive
<1>7. \A c \in Downloads : One(dl'[c])
  BY <1>2, <1>4, <1>5, NoZero DEF Inv
<1>8. /\ \A c \in Downloads : Live(c)' /\ ~dl'[c].aborted => c = d
      /\ Live(d)'
  BY <1>1, <1>2, <1>4, <1>5, NoZero DEF Live, Ended
<1>9. OnePerModel'
  BY <1>1, <1>8 DEF OnePerModel, Live, Ended
<1> QED
  BY <1>1, <1>6, <1>7, <1>9 DEF Inv

LEMMA TakeKeeps ==
    ASSUME Inv, NEW d \in Downloads, Take(d)
    PROVE  Inv'
<1> DEFINE less == [dl[d] EXCEPT !.queue = @ - 1]
           new == Pulled(less)
<1>1. /\ dl' = [dl EXCEPT ![d] = new] /\ running' = running
      /\ Shape(dl[d], dl[d].sent, dl[d].starts, dl[d].out) /\ Past(dl[d]) /\ Paced(dl[d])
      /\ dl[d].queue \in Nat /\ dl[d].queue > 0 /\ HighWater \in Nat
  BY DownloadAssumption DEF Take, Inv, One, Shape
<1>2. /\ Shape(less, dl[d].sent, dl[d].starts, dl[d].out)
      /\ less.pc = dl[d].pc /\ less.i = dl[d].i /\ less.aborted = dl[d].aborted
      /\ less.waiting = dl[d].waiting /\ less.queue = dl[d].queue - 1
      /\ less.sent = dl[d].sent /\ less.starts = dl[d].starts /\ less.out = dl[d].out
  <2>1. dl[d].queue - 1 \in Nat
    BY <1>1
  <2> QED
    BY <1>1, <2>1 DEF Shape
<1> HIDE DEF less
<1>3. /\ Shape(new, dl[d].sent, dl[d].starts, dl[d].out)
      /\ new.pc = dl[d].pc /\ new.i = dl[d].i /\ new.aborted = dl[d].aborted
      /\ new.waiting => less.queue >= HighWater /\ dl[d].waiting
      /\ new.queue = less.queue
      /\ new.sent = dl[d].sent /\ new.starts = dl[d].starts /\ new.out = dl[d].out
  <2>1. CASE less.queue < HighWater
    <3>1. new = [less EXCEPT !.waiting = FALSE]
      BY <2>1 DEF Pulled
    <3> QED
      BY <1>2, <3>1 DEF Shape
  <2>2. CASE ~(less.queue < HighWater)
    <3>1. new = less
      BY <2>2 DEF Pulled
    <3> QED
      BY <1>1, <1>2, <2>2, <3>1
  <2> QED
    BY <2>1, <2>2
<1> HIDE DEF new
<1>4. Past(new) /\ Paced(new)
  BY <1>1, <1>3 DEF Past, Paced
<1>5. One(new)
  BY <1>3, <1>4 DEF One
<1>6. /\ dl' = [c \in Downloads |-> IF c = d THEN new ELSE dl[c]]
      /\ \A c \in Downloads : dl'[c] = IF c = d THEN new ELSE dl[c]
  BY <1>1 DEF Inv
<1>7. \A c \in Downloads : (Live(c)' <=> Live(c)) /\ dl'[c].aborted = dl[c].aborted
  BY <1>3, <1>6 DEF Live, Ended
<1>8. /\ running \in Downloads \cup {0}
      /\ \A c \in Downloads : Live(c) /\ ~dl[c].aborted => running = c
      /\ running # 0 => Live(running)
  BY DEF Inv, OnePerModel
<1>9. /\ \A c \in Downloads : Live(c)' /\ ~dl'[c].aborted => running' = c
      /\ running' # 0 => Live(running)'
  BY <1>1, <1>7, <1>8
<1>10. OnePerModel'
  BY <1>9 DEF OnePerModel, Live, Ended
<1>11. (\A c \in Downloads : One(dl[c]))'
  BY <1>5, <1>6 DEF Inv
<1> QED
  BY <1>1, <1>6, <1>8, <1>10, <1>11 DEF Inv

(* A step of the loop finds its download going on and not aborted. *)
LEMMA AtStep ==
    ASSUME Inv, NEW d \in Downloads, NEW pc \in Going \ {"end", "stop"}, Ready(d, pc)
    PROVE  /\ One(dl[d]) /\ dl[d].pc = pc /\ dl[d].pc \in Going /\ ~dl[d].waiting /\ ~dl[d].aborted
           /\ Shape(dl[d], dl[d].sent, dl[d].starts, dl[d].out) /\ Past(dl[d])
           /\ dl[d].i \in Nat \ {0} /\ dl = [c \in Downloads |-> dl[c]]
BY DEF Inv, One, Shape, Paced, Ready

LEMMA OpenKeeps ==
    ASSUME Inv, NEW d \in Downloads, Open(d)
    PROVE  Inv'
<1> DEFINE pc == IF dl[d].i <= N THEN "header" ELSE IF dl[d].i <= Len(Entries) THEN "tail" ELSE "finish"
           new == [dl[d] EXCEPT !.pc = pc]
<1>1. /\ One(dl[d]) /\ dl[d].pc = "open" /\ dl[d].pc \in Going /\ ~dl[d].waiting /\ ~dl[d].aborted
      /\ Shape(dl[d], dl[d].sent, dl[d].starts, dl[d].out) /\ Past(dl[d])
      /\ dl[d].i \in Nat \ {0} /\ dl = [c \in Downloads |-> dl[c]]
  BY AtStep DEF Open, Going
<1>2. dl' = [dl EXCEPT ![d] = new] /\ running' = running
  BY <1>1 DEF Open
<1>3. pc \in Going /\ pc \in {"header", "tail", "finish"} /\ (pc = "header" => dl[d].i <= N)
      /\ (pc # "header" => ~(dl[d].i <= N))
  BY DEF Going
<1> HIDE DEF pc
<1>4. Shape(new, dl[d].sent, dl[d].starts, dl[d].out) /\ new.pc = pc /\ new.i = dl[d].i
      /\ new.aborted = dl[d].aborted /\ new.waiting = dl[d].waiting
  BY <1>1, <1>3 DEF Shape, Pcs
<1>5. Past([pc |-> pc, i |-> dl[d].i, out |-> dl[d].out])
  <2>1. /\ dl[d].i <= N => dl[d].i \in DOMAIN Files
        /\ ~(dl[d].i <= N) => \A j \in DOMAIN Files : j < dl[d].i
    BY <1>1, FilesDomain
  <2> QED
    BY <1>1, <1>3, <2>1 DEF Past
<1>6. One(new) /\ new.pc = pc /\ ~new.aborted
  <2> HIDE DEF new
  <2>1. new.sent = dl[d].sent /\ new.starts = dl[d].starts /\ new.out = dl[d].out
    BY <1>4 DEF Shape
  <2>2. Past(new) /\ Paced(new)
    BY <1>1, <1>4, <1>5, <2>1 DEF Past, Paced
  <2> QED
    BY <1>1, <1>4, <2>1, <2>2 DEF One
<1> QED
  BY <1>1, <1>2, <1>3, <1>6, GoesOn

(* The loop turns to another step and puts a chunk. *)
LEMMA TurnsAndPuts ==
    ASSUME Inv, NEW d \in Downloads, One(dl[d]), dl[d].pc \in Going, ~dl[d].waiting, ~dl[d].aborted,
           NEW pc \in Going, NEW i \in Nat \ {0}, NEW starts, NEW out,
           Past([pc |-> pc, i |-> i, out |-> out]),
           NEW y, Shape(y, dl[d].sent, starts, out),
           y.pc = pc, y.i = i, y.aborted = dl[d].aborted, y.waiting = dl[d].waiting,
           NEW n, dl' = [dl EXCEPT ![d] = Put(y, n)], running' = running
    PROVE  Inv'
<1>1. One(y) /\ ~y.waiting /\ ~y.aborted /\ y.pc = pc
  BY Turns
<1>2. One(Put(y, n)) /\ Put(y, n).pc = pc /\ Put(y, n).aborted = y.aborted
  BY <1>1, Puts
<1> QED
  BY <1>1, <1>2, GoesOn

LEMMA HeaderKeeps ==
    ASSUME Inv, NEW d \in Downloads, Header(d)
    PROVE  Inv'
<1> DEFINE x == dl[d]
           y == [x EXCEPT !.pc = "data", !.starts = Append(@, x.sent)]
           n == HeaderLen(Entries[x.i])
<1>1. /\ One(x) /\ x.pc = "header" /\ x.pc \in Going /\ ~x.waiting /\ ~x.aborted
      /\ Shape(x, x.sent, x.starts, x.out) /\ Past(x) /\ x.i \in Nat \ {0}
  BY AtStep DEF Header, Going
<1>2. dl' = [dl EXCEPT ![d] = Put(y, n)] /\ running' = running
  BY DEF Header, PutHeader
<1>3. /\ Shape(y, x.sent, Append(x.starts, x.sent), x.out)
      /\ y.pc = "data" /\ y.i = x.i /\ y.aborted = x.aborted /\ y.waiting = x.waiting
  BY <1>1 DEF Shape, Pcs, Going
<1>4. Past([pc |-> "data", i |-> x.i, out |-> x.out]) /\ "data" \in Going
  BY <1>1 DEF Past, Going
<1> HIDE DEF y, n
<1> QED
  BY <1>1, <1>2, <1>3, <1>4, TurnsAndPuts

LEMMA DataKeeps ==
    ASSUME Inv, NEW d \in Downloads, Data(d)
    PROVE  Inv'
<1> DEFINE x == dl[d]
           buf == stream[d][x.i].buf
           out == [x.out EXCEPT ![x.i] = x.out[x.i] \o buf]
           y == [x EXCEPT !.out[x.i] = @ \o buf]
           n == Len(buf)
<1>1. /\ One(x) /\ x.pc = "data" /\ x.pc \in Going /\ ~x.waiting /\ ~x.aborted
      /\ Shape(x, x.sent, x.starts, x.out) /\ Past(x) /\ x.i \in Nat \ {0}
  BY AtStep DEF Data, Going
<1>2. dl' = [dl EXCEPT ![d] = Put(y, n)] /\ running' = running
  BY DEF Data
<1>3. /\ x.i \in DOMAIN Files /\ x.out = [j \in DOMAIN Files |-> x.out[j]]
      /\ \A j \in DOMAIN Files : j < x.i => x.out[j] = Right(j)
  BY <1>1 DEF Past
<1>4. /\ out = [j \in DOMAIN Files |-> out[j]]
      /\ \A j \in DOMAIN Files : j < x.i => out[j] = Right(j)
  <2> DEFINE more == x.out[x.i] \o buf
  <2>1. out = [j \in DOMAIN Files |-> IF j = x.i THEN more ELSE x.out[j]]
    <3> HIDE DEF more
    <3>1. out = [x.out EXCEPT ![x.i] = more]
      BY DEF more
    <3> HIDE DEF out
    <3> QED BY <1>3, <3>1
  <2> HIDE DEF more, out
  <2>2. \A j \in DOMAIN Files : j \in Int
    BY FilesDomain
  <2> QED
    BY <1>1, <1>3, <2>1, <2>2
<1>5. y = [x EXCEPT !.out = out]
  BY <1>1, <1>3 DEF Shape
<1> HIDE DEF out
<1>6. /\ Shape(y, x.sent, x.starts, out)
      /\ y.pc = "data" /\ y.i = x.i /\ y.aborted = x.aborted /\ y.waiting = x.waiting
  BY <1>1, <1>5 DEF Shape
<1>7. Past([pc |-> "data", i |-> x.i, out |-> out])
  BY <1>3, <1>4 DEF Past
<1> HIDE DEF y, n
<1> QED
  BY <1>1, <1>2, <1>6, <1>7, TurnsAndPuts

LEMMA DescriptorKeeps ==
    ASSUME Inv, NEW d \in Downloads, Descriptor(d)
    PROVE  Inv'
<1> DEFINE x == dl[d]
           y == [x EXCEPT !.pc = "check"]
           n == DescriptorLen(Entries[x.i])
<1>1. /\ One(x) /\ x.pc = "data" /\ x.pc \in Going /\ ~x.waiting /\ ~x.aborted
      /\ Shape(x, x.sent, x.starts, x.out) /\ Past(x) /\ x.i \in Nat \ {0}
  BY AtStep DEF Descriptor, Going
<1>2. dl' = [dl EXCEPT ![d] = Put(y, n)] /\ running' = running
  BY DEF Descriptor
<1>3. /\ Shape(y, x.sent, x.starts, x.out)
      /\ y.pc = "check" /\ y.i = x.i /\ y.aborted = x.aborted /\ y.waiting = x.waiting
  BY <1>1 DEF Shape, Pcs, Going
<1>4. Past([pc |-> "check", i |-> x.i, out |-> x.out]) /\ "check" \in Going
  BY <1>1 DEF Past, Going
<1> HIDE DEF y, n
<1> QED
  BY <1>1, <1>2, <1>3, <1>4, TurnsAndPuts

LEMMA CheckedKeeps ==
    ASSUME Inv, NEW d \in Downloads, Checked(d)
    PROVE  Inv'
<1> DEFINE x == dl[d]
           new == [x EXCEPT !.pc = "open", !.i = @ + 1]
<1>1. /\ One(x) /\ x.pc = "check" /\ x.pc \in Going /\ ~x.waiting /\ ~x.aborted
      /\ Shape(x, x.sent, x.starts, x.out) /\ Past(x) /\ x.i \in Nat \ {0}
      /\ dl = [c \in Downloads |-> dl[c]]
  BY AtStep DEF Checked, Going
<1>2. dl' = [dl EXCEPT ![d] = new] /\ running' = running
  BY <1>1 DEF Checked
<1>3. x.out[x.i] = Right(x.i) /\ x.i \in DOMAIN Files
  BY <1>1 DEF Checked, Check, Past
<1>4. x.i + 1 \in Nat \ {0}
  BY <1>1
<1>5. /\ Shape(new, x.sent, x.starts, x.out)
      /\ new.pc = "open" /\ new.i = x.i + 1 /\ new.aborted = x.aborted /\ new.waiting = x.waiting
  BY <1>1, <1>4 DEF Shape, Pcs, Going
<1>6. Past([pc |-> "open", i |-> x.i + 1, out |-> x.out]) /\ "open" \in Going
  <2>1. \A j \in DOMAIN Files : j < x.i + 1 => j < x.i \/ j = x.i
    BY <1>1, FilesDomain
  <2> QED
    BY <1>1, <1>3, <2>1 DEF Past, Going
<1> HIDE DEF new
<1>7. One(new) /\ new.pc = "open" /\ ~new.aborted
  <2>1. new.sent = x.sent /\ new.starts = x.starts /\ new.out = x.out
    BY <1>5 DEF Shape
  <2>2. Past(new) /\ Paced(new)
    BY <1>1, <1>5, <1>6, <2>1 DEF Past, Paced
  <2> QED
    BY <1>1, <1>5, <2>1, <2>2 DEF One
<1> QED
  BY <1>1, <1>2, <1>6, <1>7, GoesOn

LEMMA AddTailKeeps ==
    ASSUME Inv, NEW d \in Downloads, AddTail(d)
    PROVE  Inv'
<1> DEFINE x == dl[d]
           e == Entries[x.i]
           y == [x EXCEPT !.pc = "open", !.i = @ + 1, !.starts = Append(@, x.sent)]
           n == HeaderLen(e) + e.size + DescriptorLen(e)
<1>1. /\ One(x) /\ x.pc = "tail" /\ x.pc \in Going /\ ~x.waiting /\ ~x.aborted
      /\ Shape(x, x.sent, x.starts, x.out) /\ Past(x) /\ x.i \in Nat \ {0}
  BY AtStep DEF AddTail, Going
<1>2. dl' = [dl EXCEPT ![d] = Put(y, n)] /\ running' = running
  BY DEF AddTail
<1>3. x.i + 1 \in Nat \ {0}
  BY <1>1
<1>4. /\ Shape(y, x.sent, Append(x.starts, x.sent), x.out)
      /\ y.pc = "open" /\ y.i = x.i + 1 /\ y.aborted = x.aborted /\ y.waiting = x.waiting
  BY <1>1, <1>3 DEF Shape, Pcs, Going
<1>5. Past([pc |-> "open", i |-> x.i + 1, out |-> x.out]) /\ "open" \in Going
  BY <1>1 DEF Past, Going
<1> HIDE DEF y, n
<1> QED
  BY <1>1, <1>2, <1>3, <1>4, <1>5, TurnsAndPuts

LEMMA FinishKeeps ==
    ASSUME Inv, NEW d \in Downloads, Finish(d)
    PROVE  Inv'
<1> DEFINE x == dl[d]
           y == [x EXCEPT !.pc = "end"]
           n == FinishLen(Entries, x.starts, x.sent)
<1>1. /\ One(x) /\ x.pc = "finish" /\ x.pc \in Going /\ ~x.waiting /\ ~x.aborted
      /\ Shape(x, x.sent, x.starts, x.out) /\ Past(x) /\ x.i \in Nat \ {0}
  BY AtStep DEF Finish, Going
<1>2. dl' = [dl EXCEPT ![d] = Put(y, n)] /\ running' = running
  BY DEF Finish
<1>3. /\ Shape(y, x.sent, x.starts, x.out)
      /\ y.pc = "end" /\ y.i = x.i /\ y.aborted = x.aborted /\ y.waiting = x.waiting
  BY <1>1 DEF Shape, Pcs, Going
<1>4. Past([pc |-> "end", i |-> x.i, out |-> x.out]) /\ "end" \in Going
  BY <1>1 DEF Past, Going
<1> HIDE DEF y, n
<1> QED
  BY <1>1, <1>2, <1>3, <1>4, TurnsAndPuts

(* A download ends, well only with all its files. *)
LEMMA EndKeeps ==
    ASSUME Inv, NEW d \in Downloads, dl[d].pc \in Going,
           NEW pc \in {"done", "failed", "cancelled"}, pc = "done" => dl[d].pc = "end",
           End(d, pc)
    PROVE  Inv'
<1>1. /\ running \in Downloads \cup {0} /\ dl = [c \in Downloads |-> dl[c]]
      /\ \A c \in Downloads : One(dl[c])
      /\ \A c \in Downloads : Live(c) /\ ~dl[c].aborted => running = c
      /\ running # 0 => Live(running)
      /\ running' = IF running = d THEN 0 ELSE running
  BY DEF Inv, OnePerModel, End, Cleared
<1>2. PICK new : /\ dl' = [dl EXCEPT ![d] = new]
                 /\ new = IF pc = "done" THEN [NoDownload EXCEPT !.pc = pc, !.out = dl[d].out, !.sent = dl[d].sent]
                          ELSE [NoDownload EXCEPT !.pc = pc]
  BY DEF End
<1>3. /\ Shape(NoDownload, NoDownload.sent, NoDownload.starts, NoDownload.out)
      /\ Past(NoDownload) /\ Paced(NoDownload) /\ NoDownload.pc = "idle"
      /\ ~NoDownload.waiting /\ ~NoDownload.aborted
  <2>1. ~NoDownload.waiting /\ ~NoDownload.aborted
    BY DEF NoDownload
  <2> QED
    BY <2>1, BlankOne DEF One
<1>4. One(new) /\ new.pc = pc
  <2>1. CASE pc = "done"
    <3>1. new = [NoDownload EXCEPT !.pc = "done", !.out = dl[d].out, !.sent = dl[d].sent]
      BY <1>2, <2>1
    <3>2. Shape(new, dl[d].sent, NoDownload.starts, dl[d].out)
      BY <1>3, <3>1 DEF Shape, Pcs
    <3>3. /\ new.pc = "done" /\ new.i = NoDownload.i /\ new.aborted = NoDownload.aborted
          /\ new.waiting = NoDownload.waiting /\ new.sent = dl[d].sent
          /\ new.starts = NoDownload.starts /\ new.out = dl[d].out
      BY <1>3, <3>1 DEF Shape
    <3>4. Past(dl[d]) /\ dl[d].pc = "end"
      BY <1>1, <2>1 DEF One
    <3>5. Past(new)
      BY <3>3, <3>4 DEF Past
    <3>6. Paced(new)
      BY <1>3, <3>3 DEF Paced
    <3> QED
      BY <2>1, <3>2, <3>3, <3>5, <3>6 DEF One
  <2>2. CASE pc # "done"
    <3>1. new = [NoDownload EXCEPT !.pc = pc]
      BY <1>2, <2>2
    <3>2. Shape(new, NoDownload.sent, NoDownload.starts, NoDownload.out)
      BY <1>3, <3>1 DEF Shape, Pcs
    <3>3. /\ new.pc = pc /\ new.i = NoDownload.i /\ new.aborted = NoDownload.aborted
          /\ new.waiting = NoDownload.waiting /\ new.sent = NoDownload.sent
          /\ new.starts = NoDownload.starts /\ new.out = NoDownload.out
      BY <1>3, <3>1 DEF Shape
    <3>4. Past(new) /\ Paced(new)
      BY <1>3, <2>2, <3>3 DEF Past, Paced
    <3> QED
      BY <3>2, <3>3, <3>4 DEF One
  <2> QED
    BY <2>1, <2>2
<1>5. /\ dl' = [c \in Downloads |-> IF c = d THEN new ELSE dl[c]]
      /\ \A c \in Downloads : dl'[c] = IF c = d THEN new ELSE dl[c]
  BY <1>1, <1>2
<1>6. (\A c \in Downloads : One(dl[c]))'
  BY <1>1, <1>4, <1>5
<1>7. \A c \in Downloads : /\ Live(c)' <=> (Live(c) /\ c # d)
                           /\ c # d => dl'[c] = dl[c]
  BY <1>4, <1>5 DEF Live, Ended
<1>8. /\ \A c \in Downloads : Live(c)' /\ ~dl'[c].aborted => running' = c
      /\ running' # 0 => Live(running)'
  BY <1>1, <1>7
<1>9. OnePerModel'
  BY <1>8 DEF OnePerModel, Live, Ended
<1> QED
  BY <1>1, <1>5, <1>6, <1>9 DEF Inv

LEMMA EndsKeep ==
    ASSUME Inv, NEW d \in Downloads, Done(d) \/ Cancelled(d) \/ Fails(d)
    PROVE  Inv'
<1>1. CASE Done(d)
  BY <1>1, EndKeeps DEF Done, Ready, Going
<1>2. CASE Cancelled(d)
  BY <1>2, EndKeeps DEF Cancelled, Ready, Going
<1>3. CASE Fails(d)
  BY <1>3, EndKeeps DEF Fails, Ready, Going
<1> QED
  BY <1>1, <1>2, <1>3

-----------------------------------------------------------------------------
LEMMA InitInv == Init => Inv
<1> SUFFICES ASSUME Init PROVE Inv
  OBVIOUS
<1>1. dl = [d \in Downloads |-> NoDownload] /\ running = 0
  BY DEF Init
<1>2. \A d \in Downloads : One(dl[d]) /\ ~Live(d)
  BY <1>1, BlankOne DEF Live
<1> QED
  BY <1>1, <1>2 DEF Inv, OnePerModel

LEMMA NextInv == Inv /\ [Next]_vars => Inv'
<1> SUFFICES ASSUME Inv, [Next]_vars PROVE Inv'
  OBVIOUS
<1>1. CASE PageCancel
  <2>1. running \in Downloads /\ dl[running].pc \in Going
    BY <1>1 DEF PageCancel, Inv, OnePerModel, One, Shape, Live, Ended, Going, Pcs
  <2> QED
    BY <1>1, <2>1, CancelKeeps DEF PageCancel
<1>2. ASSUME NEW d \in Downloads, BrowserCancel(d) PROVE Inv'
  <2>1. dl[d].pc \in Going
    BY <1>2 DEF BrowserCancel, Inv, One, Shape, Live, Ended, Going, Pcs
  <2> QED
    BY <1>2, <2>1, CancelKeeps DEF BrowserCancel
<1>3. ASSUME NEW d \in Downloads, Work(d) PROVE Inv'
  BY <1>3, OpenKeeps, HeaderKeeps, DataKeeps, DescriptorKeeps, CheckedKeeps, AddTailKeeps,
     FinishKeeps, EndsKeep DEF Work
<1>4. CASE UNCHANGED <<running, dl>>
  BY <1>4 DEF Inv, OnePerModel, Live, Ended
<1>5. ASSUME NEW d \in Downloads, Fetching(d) PROVE Inv'
  <2>1. UNCHANGED <<running, dl>>
    BY <1>5 DEF Fetching, Fetch, GiveUp, Connect, Chunk, Over, Break, Set
  <2> QED
    BY <1>4, <2>1
<1> QED
  BY <1>1, <1>2, <1>3, <1>4, <1>5, ArriveKeeps, TakeKeeps DEF Next, vars

(* A download that ends well has the bytes of every file, whatever sources   *)
(* sent, dropped or repeated and whoever cancelled (check of zip-sw.js).      *)
THEOREM ZipDoneIsRight == Spec => []DoneIsRight
<1>1. Inv => DoneIsRight
  BY DEF Inv, One, Past, DoneIsRight
<1> QED
  BY InitInv, NextInv, <1>1, PTL DEF Spec

(* One download of a model goes on, and it is the one a cancel or the next   *)
(* request finds in `running` (download of zip-sw.js, its finally included).  *)
THEOREM ZipOnePerModel == Spec => []OnePerModel
<1>1. Inv => OnePerModel
  BY DEF Inv
<1> QED
  BY InitInv, NextInv, <1>1, PTL DEF Spec

(* The writer waits only for a body that is full and wanted: no pull and no  *)
(* abort is lost between the check and the wait (paced of zip-sw.js).         *)
THEOREM ZipWaitsOnlyWhenFull == Spec => []WaitsOnlyWhenFull
<1>1. Inv => WaitsOnlyWhenFull
  BY DEF Inv, One, Paced, WaitsOnlyWhenFull
<1> QED
  BY InitInv, NextInv, <1>1, PTL DEF Spec

-----------------------------------------------------------------------------
(* The streams.  What stands in a file and in its stream's buffer together  *)
(* is what was received, each byte in its place; a connection is never      *)
(* ahead of what was received, so the byte that is kept is the next one.    *)

StreamType ==
    [st : {"none", "run", "closed", "error"}, received : Nat, conn : BOOLEAN, pos : Nat,
     at : Nat, tries : Nat, buf : Seq(Int)]

(* Byte k stands at place k, counting `before` bytes that went ahead. *)
InPlace(bytes, before) == \A k \in 1 .. Len(bytes) : bytes[k] \in {before + k - 1, Spoiled}

(* A download that may still open a file. *)
Opening == {"idle", "open", "header", "data", "check", "tail", "finish"}

Counted(s, out, pc) ==
    /\ s.st \in {"run", "closed"} => Len(out) + Len(s.buf) = s.received
    /\ s.st \in {"none", "error"} => s.buf = <<>>
    /\ s.st = "none" /\ pc \in Opening => out = <<>>

Connected(i, s) ==
    /\ s.received <= Files[i].size
    /\ s.at \in 1 .. Len(Files[i].urls) + 1 /\ s.tries \in 0 .. TRIES
    /\ s.conn => s.pos <= s.received /\ s.at <= Len(Files[i].urls) /\ s.tries < TRIES

Flows(i, s, out, pc) ==
    /\ s \in StreamType /\ out \in Seq(Int)
    /\ Counted(s, out, pc) /\ Connected(i, s)
    /\ InPlace(out, 0) /\ InPlace(s.buf, Len(out))
    /\ Len(s.buf) <= IF Files[i].small THEN Files[i].size ELSE 1

(* The body is full only while the writer waits or after an abort. *)
Bounded(x) ==
    /\ x.queue <= HighWater
    /\ ~x.aborted /\ ~x.waiting => x.queue < HighWater
    /\ x.i <= Len(Entries) + 1
    /\ x.pc = "tail" => x.i <= Len(Entries)

Flow ==
    /\ trouble \in 0 .. MaxTrouble
    /\ stream = [d \in Downloads |-> [i \in DOMAIN Files |-> stream[d][i]]]
    /\ \A d \in Downloads : Bounded(dl[d])
    /\ \A d \in Downloads : \A i \in DOMAIN Files :
          Flows(i, stream[d][i], dl[d].out[i], dl[d].pc)

LEMMA FileFacts ==
    ASSUME NEW i \in DOMAIN Files
    PROVE  /\ Files[i].size \in Nat /\ Files[i].small \in BOOLEAN
           /\ Len(Files[i].urls) \in Nat /\ Len(Files[i].urls) >= 1
           /\ TRIES \in Nat /\ TRIES >= 1
<1>1. Files[i] \in FileType /\ Files[i].urls # <<>> /\ TRIES \in Nat \ {0}
  BY DownloadAssumption
<1>2. /\ Files[i].size \in Nat /\ Files[i].small \in BOOLEAN
      /\ Files[i].urls \in Seq({"huggingface.co", "modelscope.cn", "ipfs"})
  BY <1>1 DEF FileType
<1>3. Len(Files[i].urls) \in Nat /\ Len(Files[i].urls) # 0
  BY <1>1, <1>2
<1>4. QED  BY <1>1, <1>2, <1>3

LEMMA EntryCount == Len(Entries) \in Nat /\ N \in Nat /\ N <= Len(Entries)
<1> DEFINE own == [i \in DOMAIN Files |-> [size |-> Files[i].size, name |-> Files[i].name]]
<1>1. \A i \in DOMAIN Files : Files[i].size \in Nat /\ Files[i].name \in Nat
  <2>1. \A i \in DOMAIN Files : Files[i] \in FileType
    BY DownloadAssumption
  <2>2. QED  BY <2>1 DEF FileType
<1>2. own \in Seq(EntryType) /\ Len(own) = N
  BY <1>1, FilesDomain DEF EntryType
<1>3. Tails \in Seq(EntryType)
  BY DownloadAssumption
<1>4. Entries = own \o Tails
  BY DEF Entries
<1> HIDE DEF own
<1>5. Len(Entries) = N + Len(Tails) /\ Len(Tails) \in Nat
  <2>1. \A a, b \in Seq(EntryType) : Len(a \o b) = Len(a) + Len(b) /\ Len(b) \in Nat
    OBVIOUS
  <2>2. QED  BY <1>2, <1>3, <1>4, <2>1
<1>6. QED  BY <1>5, FilesDomain

-----------------------------------------------------------------------------
(* One stream. *)

LEMMA Blank ==
    ASSUME NEW st \in {"none", "run", "closed", "error"}
    PROVE  [NoStream EXCEPT !.st = st] \in StreamType
<1>1. NoStream \in StreamType
  BY DEF NoStream, StreamType
<1>2. QED  BY <1>1 DEF StreamType

(* A stream of which nothing has come, next to a file that may be complete. *)
LEMMA DeadFlows ==
    ASSUME NEW i \in DOMAIN Files, NEW out \in Seq(Int), InPlace(out, 0), NEW pc,
           pc \in Opening => out = <<>>
    PROVE  Flows(i, NoStream, out, pc)
<1>1. NoStream \in StreamType
  BY DEF NoStream, StreamType
<1>2. /\ NoStream.st = "none" /\ NoStream.received = 0 /\ NoStream.conn = FALSE
      /\ NoStream.at = 1 /\ NoStream.tries = 0 /\ NoStream.buf = <<>>
  BY DEF NoStream
<1>3. Counted(NoStream, out, pc)
  BY <1>2 DEF Counted
<1>4. Connected(i, NoStream)
  BY <1>2, FileFacts DEF Connected
<1>5. InPlace(<<>>, Len(out)) /\ Len(<<>>) = 0
  BY DEF InPlace
<1>6. QED  BY <1>1, <1>2, <1>3, <1>4, <1>5, FileFacts DEF Flows

LEMMA BrokenFlows ==
    ASSUME NEW i \in DOMAIN Files, NEW out \in Seq(Int), InPlace(out, 0), NEW pc
    PROVE  Flows(i, Broken, out, pc)
<1>1. Broken \in StreamType
  BY Blank DEF Broken
<1>2. /\ Broken.st = "error" /\ Broken.received = 0 /\ Broken.conn = FALSE
      /\ Broken.at = 1 /\ Broken.tries = 0 /\ Broken.buf = <<>>
  BY DEF Broken, NoStream
<1>3. Counted(Broken, out, pc)
  BY <1>2 DEF Counted
<1>4. Connected(i, Broken)
  BY <1>2, FileFacts DEF Connected
<1>5. InPlace(<<>>, Len(out)) /\ Len(<<>>) = 0
  BY DEF InPlace
<1>6. QED  BY <1>1, <1>2, <1>3, <1>4, <1>5, FileFacts DEF Flows

(* The stream that Open begins. *)
LEMMA BegunFlows ==
    ASSUME NEW i \in DOMAIN Files, NEW pc
    PROVE  Flows(i, [NoStream EXCEPT !.st = "run"], <<>>, pc)
<1> DEFINE s == [NoStream EXCEPT !.st = "run"]
<1>1. s \in StreamType
  BY Blank
<1>2. /\ s.st = "run" /\ s.received = 0 /\ s.conn = FALSE
      /\ s.at = 1 /\ s.tries = 0 /\ s.buf = <<>>
  BY DEF NoStream
<1> HIDE DEF s
<1>3. Counted(s, <<>>, pc)
  BY <1>2 DEF Counted
<1>4. Connected(i, s)
  BY <1>2, FileFacts DEF Connected
<1>5. InPlace(<<>>, 0) /\ Len(<<>>) = 0 /\ <<>> \in Seq(Int)
  BY DEF InPlace
<1>6. Flows(i, s, <<>>, pc)
  BY <1>1, <1>2, <1>3, <1>4, <1>5, FileFacts DEF Flows
<1>7. QED  BY <1>6 DEF s

(* Connections come and go; what was received stays. *)
LEMMA Reconnects ==
    ASSUME NEW i \in DOMAIN Files, NEW out, NEW pc, NEW s, Flows(i, s, out, pc),
           NEW t \in StreamType, t.st = s.st, t.received = s.received, t.buf = s.buf,
           Connected(i, t)
    PROVE  Flows(i, t, out, pc)
BY DEF Flows, Counted

(* A byte is kept: it is the one after the last that was received. *)
LEMMA Receives ==
    ASSUME NEW i \in DOMAIN Files, NEW out, NEW pc, NEW s, Flows(i, s, out, pc),
           s.st = "run", s.conn, ~(s.pos < s.received), s.received + 1 <= Files[i].size,
           Files[i].small \/ s.buf = <<>>,
           NEW byte \in {s.pos, Spoiled},
           NEW t \in StreamType, t.st = "run", t.conn, t.pos = s.pos + 1,
           t.received = s.received + 1, t.at = s.at, t.tries = s.tries,
           t.buf = Append(s.buf, byte)
    PROVE  Flows(i, t, out, pc)
<1>1. /\ s \in StreamType /\ out \in Seq(Int) /\ Counted(s, out, pc) /\ Connected(i, s)
      /\ InPlace(out, 0) /\ InPlace(s.buf, Len(out))
      /\ Len(s.buf) <= IF Files[i].small THEN Files[i].size ELSE 1
  BY DEF Flows
<1>2. /\ s.received \in Nat /\ s.pos \in Nat /\ s.buf \in Seq(Int)
      /\ Len(s.buf) \in Nat /\ Len(out) \in Nat
  BY <1>1 DEF StreamType
<1>3. s.pos = s.received /\ Len(out) + Len(s.buf) = s.received
  BY <1>1, <1>2 DEF Connected, Counted
<1>4. byte \in Int
  BY <1>2 DEF Spoiled
<1>5. /\ t.buf \in Seq(Int) /\ Len(t.buf) = Len(s.buf) + 1
      /\ t.buf[Len(s.buf) + 1] = byte
      /\ \A k \in 1 .. Len(s.buf) : t.buf[k] = s.buf[k]
  BY <1>2, <1>4
<1>6. InPlace(t.buf, Len(out))
  <2> SUFFICES ASSUME NEW k \in 1 .. Len(t.buf)
               PROVE  t.buf[k] \in {Len(out) + k - 1, Spoiled}
    BY DEF InPlace
  <2>1. CASE k \in 1 .. Len(s.buf)
    BY <1>1, <1>5, <2>1 DEF InPlace
  <2>2. CASE k = Len(s.buf) + 1
    BY <1>2, <1>3, <1>5, <2>2
  <2>3. QED  BY <1>2, <1>5, <2>1, <2>2
<1>7. Counted(t, out, pc)
  BY <1>2, <1>3, <1>5 DEF Counted
<1>8. Connected(i, t)
  BY <1>1, <1>2, <1>3 DEF Connected
<1>9. Len(t.buf) <= IF Files[i].small THEN Files[i].size ELSE 1
  <2>1. CASE Files[i].small
    BY <1>2, <1>3, <1>5, <2>1, FileFacts
  <2>2. CASE ~Files[i].small
    BY <1>5, <2>2
  <2>3. QED  BY <2>1, <2>2
<1>10. QED  BY <1>1, <1>6, <1>7, <1>8, <1>9 DEF Flows

(* The whole of a file has come. *)
LEMMA Closes ==
    ASSUME NEW i \in DOMAIN Files, NEW out, NEW pc, NEW s, Flows(i, s, out, pc), s.st = "run",
           NEW t \in StreamType, t.st = "closed", t.received = s.received, t.buf = s.buf,
           Connected(i, t)
    PROVE  Flows(i, t, out, pc)
BY DEF Flows, Counted

LEMMA JoinedInPlace ==
    ASSUME NEW out \in Seq(Int), NEW buf \in Seq(Int), NEW new \in Seq(Int),
           Len(new) = Len(out) + Len(buf),
           \A k \in 1 .. Len(new) : new[k] = IF k <= Len(out) THEN out[k] ELSE buf[k - Len(out)],
           InPlace(out, 0), InPlace(buf, Len(out))
    PROVE  InPlace(new, 0)
<1> SUFFICES ASSUME NEW k \in 1 .. Len(new) PROVE new[k] \in {0 + k - 1, Spoiled}
  BY DEF InPlace
<1>1. Len(out) \in Nat /\ Len(buf) \in Nat /\ k \in Nat /\ k >= 1 /\ k <= Len(out) + Len(buf)
  OBVIOUS
<1>2. CASE k <= Len(out)
  <2>1. new[k] = out[k] /\ k \in 1 .. Len(out)
    BY <1>1, <1>2
  <2>2. QED  BY <2>1 DEF InPlace
<1>3. CASE ~(k <= Len(out))
  <2>1. k - Len(out) \in 1 .. Len(buf) /\ new[k] = buf[k - Len(out)]
    BY <1>1, <1>3
  <2>2. buf[k - Len(out)] \in {Len(out) + (k - Len(out)) - 1, Spoiled}
    BY <2>1 DEF InPlace
  <2>3. QED  BY <1>1, <2>1, <2>2
<1>4. QED  BY <1>2, <1>3

(* What was received is written. *)
LEMMA Writes ==
    ASSUME NEW i \in DOMAIN Files, NEW out, NEW pc, NEW s, Flows(i, s, out, pc), s.buf # <<>>,
           NEW t \in StreamType, t.st = s.st, t.received = s.received, t.buf = <<>>,
           Connected(i, t)
    PROVE  Flows(i, t, out \o s.buf, pc)
<1> DEFINE new == out \o s.buf
<1>1. /\ s \in StreamType /\ out \in Seq(Int) /\ Counted(s, out, pc)
      /\ InPlace(out, 0) /\ InPlace(s.buf, Len(out)) /\ s.buf \in Seq(Int)
  BY DEF Flows, StreamType
<1>2. /\ new \in Seq(Int) /\ Len(new) = Len(out) + Len(s.buf)
      /\ Len(out) \in Nat /\ Len(s.buf) \in Nat
      /\ \A k \in 1 .. Len(new) : new[k] = IF k <= Len(out) THEN out[k] ELSE s.buf[k - Len(out)]
  BY <1>1, ConcatProperties
<1> HIDE DEF new
<1>3. InPlace(new, 0)
  BY <1>1, <1>2, JoinedInPlace
<1>4. s.st \in {"run", "closed"}
  BY <1>1 DEF Counted, StreamType
<1>5. Len(<<>>) = 0 /\ InPlace(<<>>, Len(new))
  BY DEF InPlace
<1>6. Counted(t, new, pc)
  BY <1>1, <1>2, <1>4, <1>5 DEF Counted
<1>7. Flows(i, t, new, pc)
  BY <1>2, <1>3, <1>5, <1>6, FileFacts DEF Flows
<1>8. QED  BY <1>7 DEF new


-----------------------------------------------------------------------------
(* The steps of a stream. *)

LEMMA StreamRecords ==
    ASSUME NEW s \in StreamType
    PROVE  /\ NextSource(s) \in StreamType /\ NextSource(s).st = s.st /\ NextSource(s).received = s.received
           /\ NextSource(s).buf = s.buf /\ NextSource(s).conn = s.conn /\ NextSource(s).pos = s.pos
           /\ NextSource(s).at = s.at + 1 /\ NextSource(s).tries = 0
           /\ TryAgain(s) \in StreamType /\ TryAgain(s).st = s.st /\ TryAgain(s).received = s.received
           /\ TryAgain(s).buf = s.buf /\ TryAgain(s).conn = FALSE
           /\ TryAgain(s).at = s.at /\ TryAgain(s).tries = s.tries + 1
           /\ Dropped(s) \in StreamType /\ Dropped(s).st = s.st /\ Dropped(s).received = s.received
           /\ Dropped(s).buf = s.buf /\ Dropped(s).conn = FALSE
           /\ Dropped(s).at = s.at /\ Dropped(s).tries = s.tries
<1>1. s.at \in Nat /\ s.tries \in Nat
  BY DEF StreamType
<1>2. s.at + 1 \in Nat /\ s.tries + 1 \in Nat
  BY <1>1
<1>3. /\ NextSource(s) \in StreamType /\ NextSource(s).st = s.st /\ NextSource(s).received = s.received
      /\ NextSource(s).buf = s.buf /\ NextSource(s).conn = s.conn /\ NextSource(s).pos = s.pos
      /\ NextSource(s).at = s.at + 1 /\ NextSource(s).tries = 0
  BY <1>2 DEF NextSource, StreamType
<1>4. /\ Dropped(s) \in StreamType /\ Dropped(s).st = s.st /\ Dropped(s).received = s.received
      /\ Dropped(s).buf = s.buf /\ Dropped(s).conn = FALSE
      /\ Dropped(s).at = s.at /\ Dropped(s).tries = s.tries
  BY DEF Dropped, StreamType
<1>5. /\ TryAgain(s) \in StreamType /\ TryAgain(s).st = s.st /\ TryAgain(s).received = s.received
      /\ TryAgain(s).buf = s.buf /\ TryAgain(s).conn = FALSE
      /\ TryAgain(s).at = s.at /\ TryAgain(s).tries = s.tries + 1
  BY <1>2, <1>4 DEF TryAgain, StreamType
<1>6. QED  BY <1>3, <1>4, <1>5

(* One stream of one download becomes s. *)
LEMMA StreamMoves ==
    ASSUME Flow, NEW d \in Downloads, NEW i \in DOMAIN Files, NEW s, Set(d, i, s),
           Flows(i, s, dl[d].out[i], dl[d].pc), trouble' \in 0 .. MaxTrouble
    PROVE  Flow'
<1>1. /\ stream = [c \in Downloads |-> [j \in DOMAIN Files |-> stream[c][j]]]
      /\ \A c \in Downloads : Bounded(dl[c])
      /\ \A c \in Downloads : \A j \in DOMAIN Files : Flows(j, stream[c][j], dl[c].out[j], dl[c].pc)
  BY DEF Flow
<1>2. dl' = dl /\ stream' = [stream EXCEPT ![d][i] = s]
  BY DEF Set
<1>3. /\ stream' = [c \in Downloads |-> [j \in DOMAIN Files |-> stream'[c][j]]]
      /\ \A c \in Downloads : \A j \in DOMAIN Files :
            stream'[c][j] = IF c = d /\ j = i THEN s ELSE stream[c][j]
  BY <1>1, <1>2
<1>4. \A c \in Downloads : \A j \in DOMAIN Files : Flows(j, stream'[c][j], dl'[c].out[j], dl'[c].pc)
  BY <1>1, <1>2, <1>3
<1>5. QED  BY <1>1, <1>2, <1>3, <1>4 DEF Flow

(* A stream that is pulled, and the file it goes into. *)
LEMMA AtStream ==
    ASSUME Flow, NEW d \in Downloads, NEW i \in DOMAIN Files, Pulls(d, i)
    PROVE  /\ Flows(i, stream[d][i], dl[d].out[i], dl[d].pc)
           /\ stream[d][i] \in StreamType /\ Connected(i, stream[d][i])
           /\ stream[d][i].st = "run" /\ (Files[i].small \/ stream[d][i].buf = <<>>)
           /\ stream[d][i].received \in Nat /\ stream[d][i].pos \in Nat
           /\ stream[d][i].at \in Nat /\ stream[d][i].tries \in Nat
           /\ dl[d].out[i] \in Seq(Int) /\ InPlace(dl[d].out[i], 0)
<1>1. Flows(i, stream[d][i], dl[d].out[i], dl[d].pc)
  BY DEF Flow
<1>2. stream[d][i] \in StreamType /\ Connected(i, stream[d][i])
      /\ dl[d].out[i] \in Seq(Int) /\ InPlace(dl[d].out[i], 0)
  BY <1>1 DEF Flows
<1>3. stream[d][i].received \in Nat /\ stream[d][i].pos \in Nat
      /\ stream[d][i].at \in Nat /\ stream[d][i].tries \in Nat
  BY <1>2 DEF StreamType
<1>4. QED  BY <1>1, <1>2, <1>3 DEF Pulls

LEMMA TroubleBound ==
    ASSUME Flow, Trouble \/ UNCHANGED trouble
    PROVE  trouble' \in 0 .. MaxTrouble
BY DownloadAssumption DEF Flow, Trouble

LEMMA GiveUpFlow ==
    ASSUME Flow, NEW d \in Downloads, NEW i \in DOMAIN Files, GiveUp(d, i)
    PROVE  Flow'
<1> DEFINE s == stream[d][i]
           out == dl[d].out[i]
           pc == dl[d].pc
<1>1. /\ Pulls(d, i) /\ ~s.conn /\ UNCHANGED trouble
      /\ Set(d, i, IF s.at > Len(Files[i].urls) THEN Broken ELSE NextSource(s))
  BY DEF GiveUp
<1>2. /\ Flows(i, s, out, pc) /\ s \in StreamType /\ Connected(i, s) /\ s.at \in Nat
      /\ out \in Seq(Int) /\ InPlace(out, 0)
  BY <1>1, AtStream
<1> HIDE DEF s, out, pc
<1>3. Flows(i, Broken, out, pc)
  BY <1>2, BrokenFlows
<1>4. ASSUME ~(s.at > Len(Files[i].urls)) PROVE Flows(i, NextSource(s), out, pc)
  <2>0. /\ NextSource(s).at = s.at + 1 /\ NextSource(s).tries = 0 /\ NextSource(s).received = s.received
        /\ NextSource(s).conn = s.conn
    BY <1>2, StreamRecords
  <2>1. Connected(i, NextSource(s))
    <3>1. Len(Files[i].urls) \in Nat /\ TRIES \in Nat /\ TRIES >= 1
      BY FileFacts
    <3>2. QED  BY <1>1, <1>2, <1>4, <2>0, <3>1 DEF Connected
  <2>2. QED  BY <1>2, <2>1, StreamRecords, Reconnects
<1>5. Flows(i, IF s.at > Len(Files[i].urls) THEN Broken ELSE NextSource(s), out, pc)
  BY <1>3, <1>4
<1>6. QED  BY <1>1, <1>5, StreamMoves, TroubleBound DEF s, out, pc

LEMMA ConnectFlow ==
    ASSUME Flow, NEW d \in Downloads, NEW i \in DOMAIN Files,
           NEW answer \in {"rest", "whole", "gone", "error"}, Connect(d, i, answer)
    PROVE  Flow'
<1> DEFINE s == stream[d][i]
           out == dl[d].out[i]
           pc == dl[d].pc
           rest == [s EXCEPT !.conn = TRUE, !.pos = s.received]
           whole == [s EXCEPT !.conn = TRUE, !.pos = 0]
<1>1. /\ Pulls(d, i) /\ ~s.conn /\ (Trouble \/ UNCHANGED trouble)
      /\ s.at <= Len(Files[i].urls) /\ s.tries < TRIES
  BY DEF Connect
<1>2. \/ answer = "rest" /\ Set(d, i, rest)
      \/ answer = "whole" /\ Set(d, i, whole)
      \/ answer = "gone" /\ Set(d, i, NextSource(s))
      \/ answer = "error" /\ Set(d, i, TryAgain(s))
  <2>1. Set(d, i, CASE answer = "rest" -> rest [] answer = "whole" -> whole
                    [] answer = "gone" -> NextSource(s) [] answer = "error" -> TryAgain(s))
    BY DEF Connect
  <2> HIDE DEF rest, whole, s
  <2>2. QED  BY <2>1
<1>3. /\ Flows(i, s, out, pc) /\ s \in StreamType /\ Connected(i, s) /\ s.at \in Nat
      /\ s.received \in Nat /\ s.tries \in Nat
  BY <1>1, AtStream
<1> HIDE DEF s, out, pc
<1>4. Flows(i, rest, out, pc)
  <2>1. /\ rest \in StreamType /\ rest.st = s.st /\ rest.received = s.received /\ rest.buf = s.buf
        /\ rest.pos = s.received /\ rest.at = s.at /\ rest.tries = s.tries
    BY <1>3 DEF StreamType
  <2> HIDE DEF rest
  <2>2. Connected(i, rest)
    BY <1>1, <1>3, <2>1 DEF Connected
  <2>3. QED  BY <1>3, <2>1, <2>2, Reconnects
<1>5. Flows(i, whole, out, pc)
  <2>1. /\ whole \in StreamType /\ whole.st = s.st /\ whole.received = s.received /\ whole.buf = s.buf
        /\ whole.pos = 0 /\ whole.at = s.at /\ whole.tries = s.tries
    BY <1>3 DEF StreamType
  <2> HIDE DEF whole
  <2>2. Connected(i, whole)
    BY <1>1, <1>3, <2>1 DEF Connected
  <2>3. QED  BY <1>3, <2>1, <2>2, Reconnects
<1>6. Flows(i, NextSource(s), out, pc)
  <2>0. /\ NextSource(s).at = s.at + 1 /\ NextSource(s).tries = 0 /\ NextSource(s).received = s.received
        /\ NextSource(s).conn = s.conn
    BY <1>3, StreamRecords
  <2>1. Connected(i, NextSource(s))
    <3>1. Len(Files[i].urls) \in Nat /\ TRIES \in Nat /\ TRIES >= 1
      BY FileFacts
    <3>2. QED  BY <1>1, <1>3, <2>0, <3>1 DEF Connected
  <2>2. QED  BY <1>3, <2>1, StreamRecords, Reconnects
<1>7. Flows(i, TryAgain(s), out, pc)
  <2>0. /\ TryAgain(s).at = s.at /\ TryAgain(s).tries = s.tries + 1 /\ TryAgain(s).received = s.received
        /\ TryAgain(s).conn = FALSE
    BY <1>3, StreamRecords
  <2>1. Connected(i, TryAgain(s))
    <3>1. Len(Files[i].urls) \in Nat /\ TRIES \in Nat /\ TRIES >= 1
      BY FileFacts
    <3>2. QED  BY <1>1, <1>3, <2>0, <3>1 DEF Connected
  <2>2. QED  BY <1>3, <2>1, StreamRecords, Reconnects
<1> HIDE DEF rest, whole
<1>8. trouble' \in 0 .. MaxTrouble
  BY <1>1, TroubleBound
<1>9. QED  BY <1>2, <1>4, <1>5, <1>6, <1>7, <1>8, StreamMoves DEF out, pc


LEMMA ChunkFlow ==
    ASSUME Flow, NEW d \in Downloads, NEW i \in DOMAIN Files, NEW right \in BOOLEAN, Chunk(d, i, right)
    PROVE  Flow'
<1> DEFINE s == stream[d][i]
           out == dl[d].out[i]
           pc == dl[d].pc
           byte == IF right THEN s.pos ELSE Spoiled
           more == [s EXCEPT !.pos = @ + 1, !.received = @ + 1, !.buf = Append(@, byte)]
           skip == [s EXCEPT !.pos = @ + 1]
<1>1. /\ Pulls(d, i) /\ s.conn /\ (Trouble \/ UNCHANGED trouble)
      /\ Set(d, i, IF Skipped(s) THEN skip ELSE IF more.received > Files[i].size THEN Broken ELSE more)
  BY DEF Chunk
<1>2. /\ Flows(i, s, out, pc) /\ s \in StreamType /\ Connected(i, s) /\ s.pos \in Nat
      /\ s.st = "run" /\ (Files[i].small \/ s.buf = <<>>)
      /\ s.received \in Nat /\ out \in Seq(Int) /\ InPlace(out, 0)
  BY <1>1, AtStream
<1> HIDE DEF s, out, pc
<1>3. Files[i].size \in Nat
  BY FileFacts
<1>4. ASSUME Skipped(s) PROVE Flows(i, skip, out, pc)
  <2>1. s.pos + 1 \in Nat /\ s.pos + 1 <= s.received
    BY <1>2, <1>4 DEF Skipped
  <2>2. /\ skip \in StreamType /\ skip.st = s.st /\ skip.received = s.received /\ skip.buf = s.buf
        /\ skip.pos = s.pos + 1 /\ skip.at = s.at /\ skip.tries = s.tries /\ skip.conn = s.conn
    BY <1>2, <2>1 DEF StreamType
  <2> HIDE DEF skip
  <2>3. Connected(i, skip)
    BY <1>2, <2>1, <2>2 DEF Connected
  <2>4. QED  BY <1>2, <2>2, <2>3, Reconnects
<1>5. Flows(i, Broken, out, pc)
  BY <1>2, BrokenFlows
<1>6. byte \in {s.pos, Spoiled} /\ byte \in Int
  BY <1>2 DEF Spoiled
<1> HIDE DEF byte
<1>7. /\ more \in StreamType /\ more.st = s.st /\ more.received = s.received + 1
      /\ more.buf = Append(s.buf, byte) /\ more.pos = s.pos + 1
      /\ more.at = s.at /\ more.tries = s.tries /\ more.conn = s.conn
  <2>1. /\ s.pos + 1 \in Nat /\ s.received + 1 \in Nat /\ s.buf \in Seq(Int)
        /\ Append(s.buf, byte) \in Seq(Int)
    BY <1>2, <1>6 DEF StreamType
  <2>2. QED  BY <1>2, <2>1 DEF StreamType
<1>8. ASSUME ~Skipped(s), ~(more.received > Files[i].size) PROVE Flows(i, more, out, pc)
  <2>1. ~(s.pos < s.received) /\ s.received + 1 <= Files[i].size
    BY <1>2, <1>3, <1>7, <1>8 DEF Skipped
  <2> HIDE DEF more
  <2>2. QED  BY <1>1, <1>2, <1>6, <1>7, <2>1, Receives
<1> HIDE DEF more, skip
<1>9. Flows(i, IF Skipped(s) THEN skip ELSE IF more.received > Files[i].size THEN Broken ELSE more, out, pc)
  BY <1>4, <1>5, <1>8
<1>10. trouble' \in 0 .. MaxTrouble
  BY <1>1, TroubleBound
<1>11. QED  BY <1>1, <1>9, <1>10, StreamMoves DEF out, pc

LEMMA OverFlow ==
    ASSUME Flow, NEW d \in Downloads, NEW i \in DOMAIN Files, Over(d, i)
    PROVE  Flow'
<1> DEFINE s == stream[d][i]
           out == dl[d].out[i]
           pc == dl[d].pc
           closed == [Dropped(s) EXCEPT !.st = "closed"]
<1>1. /\ Pulls(d, i) /\ s.conn /\ (Trouble \/ UNCHANGED trouble)
      /\ Set(d, i, IF s.received < Files[i].size THEN TryAgain(s) ELSE closed)
  BY DEF Over
<1>2. /\ Flows(i, s, out, pc) /\ s \in StreamType /\ Connected(i, s) /\ s.tries \in Nat /\ s.st = "run"
  BY <1>1, AtStream
<1> HIDE DEF s, out, pc
<1>3. TRIES \in Nat
  BY FileFacts
<1>4. Flows(i, TryAgain(s), out, pc)
  <2>1. /\ TryAgain(s) \in StreamType /\ TryAgain(s).st = s.st /\ TryAgain(s).received = s.received
        /\ TryAgain(s).buf = s.buf /\ TryAgain(s).conn = FALSE
        /\ TryAgain(s).at = s.at /\ TryAgain(s).tries = s.tries + 1
    BY <1>2, StreamRecords
  <2>2. Connected(i, TryAgain(s))
    BY <1>1, <1>2, <1>3, <2>1 DEF Connected
  <2>3. QED  BY <1>2, <2>1, <2>2, Reconnects
<1>5. Flows(i, closed, out, pc)
  <2>1. /\ Dropped(s) \in StreamType /\ Dropped(s).received = s.received
        /\ Dropped(s).buf = s.buf /\ Dropped(s).conn = FALSE
        /\ Dropped(s).at = s.at /\ Dropped(s).tries = s.tries
    BY <1>2, StreamRecords
  <2>2. /\ closed \in StreamType /\ closed.st = "closed" /\ closed.received = s.received
        /\ closed.buf = s.buf /\ closed.conn = FALSE /\ closed.at = s.at /\ closed.tries = s.tries
    BY <2>1 DEF StreamType
  <2> HIDE DEF closed
  <2>3. Connected(i, closed)
    BY <1>2, <2>2 DEF Connected
  <2>4. QED  BY <1>2, <2>2, <2>3, Closes
<1> HIDE DEF closed
<1>6. Flows(i, IF s.received < Files[i].size THEN TryAgain(s) ELSE closed, out, pc)
  BY <1>4, <1>5
<1>7. trouble' \in 0 .. MaxTrouble
  BY <1>1, TroubleBound
<1>8. QED  BY <1>1, <1>6, <1>7, StreamMoves DEF out, pc

LEMMA BreakFlow ==
    ASSUME Flow, NEW d \in Downloads, NEW i \in DOMAIN Files, Break(d, i)
    PROVE  Flow'
<1> DEFINE s == stream[d][i]
           out == dl[d].out[i]
           pc == dl[d].pc
           t == TryAgain(s)
<1>1. /\ Pulls(d, i) /\ s.conn /\ (Trouble \/ UNCHANGED trouble)
      /\ Set(d, i, IF t.tries >= TRIES THEN NextSource(t) ELSE t)
  BY DEF Break
<1>2. /\ Flows(i, s, out, pc) /\ s \in StreamType /\ Connected(i, s) /\ s.tries \in Nat /\ s.at \in Nat
  BY <1>1, AtStream
<1> HIDE DEF s, out, pc
<1>3. TRIES \in Nat /\ Len(Files[i].urls) \in Nat
  BY FileFacts
<1>4. /\ t \in StreamType /\ t.st = s.st /\ t.received = s.received
      /\ t.buf = s.buf /\ t.conn = FALSE /\ t.at = s.at /\ t.tries = s.tries + 1
  BY <1>2, StreamRecords
<1> HIDE DEF t
<1>5. Flows(i, t, out, pc)
  <2>1. Connected(i, t)
    BY <1>1, <1>2, <1>3, <1>4 DEF Connected
  <2>2. QED  BY <1>2, <1>4, <2>1, Reconnects
<1>6. Flows(i, NextSource(t), out, pc)
  <2>1. /\ NextSource(t) \in StreamType /\ NextSource(t).st = t.st /\ NextSource(t).received = t.received
        /\ NextSource(t).buf = t.buf /\ NextSource(t).conn = t.conn
        /\ NextSource(t).at = t.at + 1 /\ NextSource(t).tries = 0
    BY <1>4, StreamRecords
  <2>2. Connected(i, NextSource(t))
    BY <1>1, <1>2, <1>3, <1>4, <2>1 DEF Connected
  <2>3. QED  BY <1>2, <1>4, <2>1, <2>2, Reconnects
<1>7. Flows(i, IF t.tries >= TRIES THEN NextSource(t) ELSE t, out, pc)
  BY <1>5, <1>6
<1>8. trouble' \in 0 .. MaxTrouble
  BY <1>1, TroubleBound
<1>9. QED  BY <1>1, <1>7, <1>8, StreamMoves DEF out, pc

LEMMA FetchingFlow ==
    ASSUME Flow, NEW d \in Downloads, Fetching(d)
    PROVE  Flow'
<1>1. PICK i \in DOMAIN Files : Fetch(d, i)
  BY DEF Fetching
<1>2. QED  BY <1>1, GiveUpFlow, ConnectFlow, ChunkFlow, OverFlow, BreakFlow DEF Fetch


-----------------------------------------------------------------------------
(* The steps of a download. *)

(* A download in state x with the streams ss. *)
Runs(x, ss) == Bounded(x) /\ \A i \in DOMAIN Files : Flows(i, ss[i], x.out[i], x.pc)

LEMMA FlowRuns ==
    ASSUME Flow, NEW d \in Downloads
    PROVE  /\ Runs(dl[d], stream[d]) /\ stream[d] = [i \in DOMAIN Files |-> stream[d][i]]
           /\ stream = [c \in Downloads |-> stream[c]]
BY DEF Flow, Runs

LEMMA RunsMove ==
    ASSUME Inv, Flow, NEW d \in Downloads, NEW new, NEW ss,
           dl' = [dl EXCEPT ![d] = new], stream' = [stream EXCEPT ![d] = ss],
           ss = [i \in DOMAIN Files |-> ss[i]], Runs(new, ss), trouble' = trouble
    PROVE  Flow'
<1>1. /\ stream = [c \in Downloads |-> [j \in DOMAIN Files |-> stream[c][j]]]
      /\ \A c \in Downloads : Runs(dl[c], stream[c])
      /\ dl = [c \in Downloads |-> dl[c]] /\ trouble \in 0 .. MaxTrouble
  BY DEF Flow, Inv, Runs
<1>2. \A c \in Downloads : /\ dl'[c] = IF c = d THEN new ELSE dl[c]
                           /\ stream'[c] = IF c = d THEN ss ELSE stream[c]
  BY <1>1
<1>3. stream' = [c \in Downloads |-> [j \in DOMAIN Files |-> stream'[c][j]]]
  <2>1. stream' = [c \in Downloads |-> stream'[c]]
    BY <1>1
  <2>2. \A c \in Downloads : stream'[c] = [j \in DOMAIN Files |-> stream'[c][j]]
    BY <1>1, <1>2
  <2>3. QED  BY <2>1, <2>2
<1>4. \A c \in Downloads : Runs(dl'[c], stream'[c])
  BY <1>1, <1>2
<1>5. QED  BY <1>1, <1>3, <1>4 DEF Flow, Runs

LEMMA PcMoves ==
    ASSUME NEW i \in DOMAIN Files, NEW s, NEW out, NEW pc, NEW next, Flows(i, s, out, pc),
           next \in Opening => pc \in Opening
    PROVE  Flows(i, s, out, next)
BY DEF Flows, Counted

(* The loop takes a step that leaves files and streams alone. *)
LEMMA StepRuns ==
    ASSUME Inv, Flow, NEW d \in Downloads, dl[d].pc \in Opening, NEW new,
           dl' = [dl EXCEPT ![d] = new], UNCHANGED <<stream, trouble>>,
           Bounded(new), new.out = dl[d].out
    PROVE  Flow'
<1>1. /\ Runs(dl[d], stream[d]) /\ stream[d] = [i \in DOMAIN Files |-> stream[d][i]]
      /\ stream = [c \in Downloads |-> stream[c]]
  BY FlowRuns
<1>2. Runs(new, stream[d])
  BY <1>1, PcMoves DEF Runs
<1>3. stream' = [stream EXCEPT ![d] = stream[d]]
  BY <1>1
<1>4. QED  BY <1>1, <1>2, <1>3, RunsMove

(* A chunk fits into a body that its writer does not wait for. *)
LEMMA PutRuns ==
    ASSUME NEW y, NEW n, Shape(y, y.sent, y.starts, y.out), Bounded(y), ~y.waiting, ~y.aborted
    PROVE  Bounded(Put(y, n)) /\ Put(y, n).out = y.out /\ Put(y, n).pc = y.pc
<1> DEFINE z == Put(y, n)
           full == Filled(y.queue + 1)
<1>1. y.queue \in Nat /\ HighWater \in Nat /\ y.queue < HighWater
  BY DownloadAssumption DEF Shape, Bounded
<1>2. ~full => y.queue + 1 < HighWater
  BY <1>1 DEF Filled
<1>3. z = [y EXCEPT !.queue = y.queue + 1, !.sent = y.sent + n, !.waiting = full]
  BY DEF Put, Shape
<1> HIDE DEF full
<1>4. /\ z.pc = y.pc /\ z.i = y.i /\ z.waiting = full
      /\ z.queue = y.queue + 1 /\ z.out = y.out
  BY <1>3 DEF Shape
<1> HIDE DEF z
<1>5. Bounded(z)
  <2>1. z.queue <= HighWater /\ (~z.waiting => z.queue < HighWater)
    BY <1>1, <1>2, <1>4
  <2>2. z.i <= Len(Entries) + 1 /\ (z.pc = "tail" => z.i <= Len(Entries))
    BY <1>4 DEF Bounded
  <2>3. QED  BY <2>1, <2>2 DEF Bounded
<1>6. QED  BY <1>4, <1>5 DEF z

LEMMA PutStepRuns ==
    ASSUME Inv, Flow, NEW d \in Downloads, dl[d].pc \in Opening, NEW y, NEW n, NEW starts,
           Shape(y, dl[d].sent, starts, dl[d].out), Bounded(y), ~y.waiting, ~y.aborted,
           dl' = [dl EXCEPT ![d] = Put(y, n)], UNCHANGED <<stream, trouble>>
    PROVE  Flow'
<1>1. y.out = dl[d].out /\ Shape(y, y.sent, y.starts, y.out)
  BY DEF Shape
<1>2. Bounded(Put(y, n)) /\ Put(y, n).out = y.out /\ Put(y, n).pc = y.pc
  BY <1>1, PutRuns
<1>3. QED  BY <1>1, <1>2, StepRuns

LEMMA HeaderFlow ==
    ASSUME Inv, Flow, NEW d \in Downloads, Header(d)
    PROVE  Flow'
<1> DEFINE x == dl[d]
           y == [x EXCEPT !.pc = "data", !.starts = Append(@, x.sent)]
           n == HeaderLen(Entries[x.i])
<1>1. /\ x.pc = "header" /\ ~x.waiting /\ ~x.aborted /\ Shape(x, x.sent, x.starts, x.out)
  BY AtStep DEF Header, Going
<1>2. dl' = [dl EXCEPT ![d] = Put(y, n)] /\ UNCHANGED <<stream, trouble>>
  BY DEF Header, PutHeader
<1>3. /\ Shape(y, x.sent, Append(x.starts, x.sent), x.out) /\ y.queue = x.queue
      /\ y.pc = "data" /\ y.i = x.i /\ y.aborted = x.aborted /\ y.waiting = x.waiting
  BY <1>1 DEF Shape, Pcs, Going
<1>4. Bounded(x)
  BY DEF Flow
<1> HIDE DEF y, n
<1>5. Bounded(y) /\ x.pc \in Opening
  BY <1>1, <1>3, <1>4 DEF Bounded, Opening
<1>6. QED  BY <1>1, <1>2, <1>3, <1>5, PutStepRuns

LEMMA DescriptorFlow ==
    ASSUME Inv, Flow, NEW d \in Downloads, Descriptor(d)
    PROVE  Flow'
<1> DEFINE x == dl[d]
           y == [x EXCEPT !.pc = "check"]
           n == DescriptorLen(Entries[x.i])
<1>1. /\ x.pc = "data" /\ ~x.waiting /\ ~x.aborted /\ Shape(x, x.sent, x.starts, x.out)
  BY AtStep DEF Descriptor, Going
<1>2. dl' = [dl EXCEPT ![d] = Put(y, n)] /\ UNCHANGED <<stream, trouble>>
  BY DEF Descriptor
<1>3. /\ Shape(y, x.sent, x.starts, x.out) /\ y.queue = x.queue
      /\ y.pc = "check" /\ y.i = x.i /\ y.aborted = x.aborted /\ y.waiting = x.waiting
  BY <1>1 DEF Shape, Pcs, Going
<1>4. Bounded(x)
  BY DEF Flow
<1> HIDE DEF y, n
<1>5. Bounded(y) /\ x.pc \in Opening
  BY <1>1, <1>3, <1>4 DEF Bounded, Opening
<1>6. QED  BY <1>1, <1>2, <1>3, <1>5, PutStepRuns

LEMMA FinishFlow ==
    ASSUME Inv, Flow, NEW d \in Downloads, Finish(d)
    PROVE  Flow'
<1> DEFINE x == dl[d]
           y == [x EXCEPT !.pc = "end"]
           n == FinishLen(Entries, x.starts, x.sent)
<1>1. /\ x.pc = "finish" /\ ~x.waiting /\ ~x.aborted /\ Shape(x, x.sent, x.starts, x.out)
  BY AtStep DEF Finish, Going
<1>2. dl' = [dl EXCEPT ![d] = Put(y, n)] /\ UNCHANGED <<stream, trouble>>
  BY DEF Finish
<1>3. /\ Shape(y, x.sent, x.starts, x.out) /\ y.queue = x.queue
      /\ y.pc = "end" /\ y.i = x.i /\ y.aborted = x.aborted /\ y.waiting = x.waiting
  BY <1>1 DEF Shape, Pcs, Going
<1>4. Bounded(x)
  BY DEF Flow
<1> HIDE DEF y, n
<1>5. Bounded(y) /\ x.pc \in Opening
  BY <1>1, <1>3, <1>4 DEF Bounded, Opening
<1>6. QED  BY <1>1, <1>2, <1>3, <1>5, PutStepRuns

LEMMA AddTailFlow ==
    ASSUME Inv, Flow, NEW d \in Downloads, AddTail(d)
    PROVE  Flow'
<1> DEFINE x == dl[d]
           e == Entries[x.i]
           y == [x EXCEPT !.pc = "open", !.i = @ + 1, !.starts = Append(@, x.sent)]
           n == HeaderLen(e) + e.size + DescriptorLen(e)
<1>1. /\ x.pc = "tail" /\ ~x.waiting /\ ~x.aborted /\ Shape(x, x.sent, x.starts, x.out)
      /\ x.i \in Nat \ {0}
  BY AtStep DEF AddTail, Going
<1>2. dl' = [dl EXCEPT ![d] = Put(y, n)] /\ UNCHANGED <<stream, trouble>>
  BY DEF AddTail
<1>3. x.i + 1 \in Nat \ {0}
  BY <1>1
<1>4. /\ Shape(y, x.sent, Append(x.starts, x.sent), x.out) /\ y.queue = x.queue
      /\ y.pc = "open" /\ y.i = x.i + 1 /\ y.aborted = x.aborted /\ y.waiting = x.waiting
  BY <1>1, <1>3 DEF Shape, Pcs, Going
<1>5. Bounded(x)
  BY DEF Flow
<1> HIDE DEF y, n
<1>6. Bounded(y) /\ x.pc \in Opening
  BY <1>1, <1>4, <1>5, EntryCount DEF Bounded, Opening
<1>7. QED  BY <1>1, <1>2, <1>4, <1>6, PutStepRuns

LEMMA CheckedFlow ==
    ASSUME Inv, Flow, NEW d \in Downloads, Checked(d)
    PROVE  Flow'
<1> DEFINE x == dl[d]
           new == [x EXCEPT !.pc = "open", !.i = @ + 1]
<1>1. /\ x.pc = "check" /\ ~x.waiting /\ ~x.aborted /\ Shape(x, x.sent, x.starts, x.out) /\ Past(x)
      /\ x.i \in Nat \ {0} /\ dl = [c \in Downloads |-> dl[c]]
  BY AtStep DEF Checked, Going
<1>2. dl' = [dl EXCEPT ![d] = new] /\ UNCHANGED <<stream, trouble>>
  BY <1>1 DEF Checked
<1>3. /\ new.pc = "open" /\ new.i = x.i + 1 /\ new.aborted = x.aborted /\ new.waiting = x.waiting
      /\ new.queue = x.queue /\ new.out = x.out
  BY <1>1 DEF Shape
<1>4. Bounded(x)
  BY DEF Flow
<1>5. x.i <= N /\ N <= Len(Entries) /\ N \in Nat /\ Len(Entries) \in Nat
  BY <1>1, FilesDomain, EntryCount DEF Past
<1> HIDE DEF new
<1>6. Bounded(new) /\ x.pc \in Opening
  BY <1>1, <1>3, <1>4, <1>5 DEF Bounded, Opening
<1>7. QED  BY <1>1, <1>2, <1>3, <1>6, StepRuns


LEMMA OpenFlow ==
    ASSUME Inv, Flow, NEW d \in Downloads, Open(d)
    PROVE  Flow'
<1> DEFINE x == dl[d]
           begun == [NoStream EXCEPT !.st = "run"]
           ss == [j \in DOMAIN Files |->
                    IF j \in Begins(x.i) /\ stream[d][j].st = "none" THEN begun ELSE stream[d][j]]
<1>1. /\ x.pc = "open" /\ ~x.waiting /\ ~x.aborted /\ Shape(x, x.sent, x.starts, x.out)
      /\ x.i \in Nat \ {0} /\ dl = [c \in Downloads |-> dl[c]]
  BY AtStep DEF Open, Going
<1>2. /\ Runs(x, stream[d]) /\ stream[d] = [i \in DOMAIN Files |-> stream[d][i]]
      /\ stream = [c \in Downloads |-> stream[c]]
  BY FlowRuns
<1>3. Bounded(x) /\ x.pc \in Opening
  BY <1>1, <1>2 DEF Runs, Opening
<1>4. ASSUME NEW pc \in {"header", "tail", "finish"}, pc = "tail" => x.i <= Len(Entries),
             dl' = [dl EXCEPT ![d].pc = pc]
      PROVE  \E new : /\ dl' = [dl EXCEPT ![d] = new] /\ Bounded(new)
                      /\ new.pc = pc /\ new.out = x.out
  <2> DEFINE new == [x EXCEPT !.pc = pc]
  <2>1. dl' = [dl EXCEPT ![d] = new]
    BY <1>1, <1>4
  <2>2. /\ new.pc = pc /\ new.i = x.i /\ new.aborted = x.aborted /\ new.waiting = x.waiting
        /\ new.queue = x.queue /\ new.out = x.out
    BY <1>1 DEF Shape
  <2> HIDE DEF new
  <2>3. Bounded(new)
    BY <1>1, <1>3, <1>4, <2>2 DEF Bounded
  <2>4. QED  BY <2>1, <2>2, <2>3
<1>5. CASE x.i <= N
  <2>1. /\ dl' = [dl EXCEPT ![d].pc = "header"] /\ trouble' = trouble
        /\ stream' = [stream EXCEPT ![d] = ss]
    BY <1>2, <1>5 DEF Open
  <2>2. PICK new : /\ dl' = [dl EXCEPT ![d] = new] /\ Bounded(new)
                   /\ new.pc = "header" /\ new.out = x.out
    BY <1>4, <2>1
  <2>3. ASSUME NEW j \in DOMAIN Files PROVE Flows(j, ss[j], new.out[j], new.pc)
    <3>1. Flows(j, stream[d][j], x.out[j], "header")
      <4>1. Flows(j, stream[d][j], x.out[j], x.pc)
        BY <1>2 DEF Runs
      <4>2. QED  BY <1>3, <4>1, PcMoves
    <3>2. ASSUME stream[d][j].st = "none" PROVE Flows(j, begun, x.out[j], "header")
      <4>1. x.out[j] = <<>>
        BY <3>1, <3>2 DEF Flows, Counted, Opening
      <4> HIDE DEF begun
      <4>2. Flows(j, begun, <<>>, "header")
        BY BegunFlows DEF begun
      <4>3. QED  BY <4>1, <4>2
    <3> HIDE DEF begun
    <3>3. ss[j] = IF j \in Begins(x.i) /\ stream[d][j].st = "none" THEN begun ELSE stream[d][j]
      OBVIOUS
    <3> HIDE DEF ss
    <3>4. QED  BY <2>2, <3>1, <3>2, <3>3
  <2>4. ss = [j \in DOMAIN Files |-> ss[j]]
    OBVIOUS
  <2> HIDE DEF ss
  <2>5. QED  BY <2>1, <2>2, <2>3, <2>4, RunsMove DEF Runs
<1>6. CASE ~(x.i <= N)
  <2>1. PICK pc \in {"tail", "finish"} :
           /\ pc = "tail" => x.i <= Len(Entries)
           /\ dl' = [dl EXCEPT ![d].pc = pc] /\ UNCHANGED <<stream, trouble>>
    BY <1>6 DEF Open
  <2>2. PICK new : /\ dl' = [dl EXCEPT ![d] = new] /\ Bounded(new)
                   /\ new.pc = pc /\ new.out = x.out
    BY <1>4, <2>1
  <2>3. QED  BY <1>3, <2>1, <2>2, StepRuns
<1>7. QED  BY <1>5, <1>6

LEMMA DataFlow ==
    ASSUME Inv, Flow, NEW d \in Downloads, Data(d)
    PROVE  Flow'
<1> DEFINE x == dl[d]
           s == stream[d][x.i]
           more == x.out[x.i] \o s.buf
           out == [x.out EXCEPT ![x.i] = more]
           y == [x EXCEPT !.out[x.i] = @ \o s.buf]
           n == Len(s.buf)
           empty == <<>>
           t == [s EXCEPT !.buf = empty]
           ss == [stream[d] EXCEPT ![x.i] = t]
<1>1. /\ x.pc = "data" /\ ~x.waiting /\ ~x.aborted /\ Shape(x, x.sent, x.starts, x.out) /\ Past(x)
  BY AtStep DEF Data, Going
<1>2. x.i \in DOMAIN Files /\ x.out = [j \in DOMAIN Files |-> x.out[j]]
  BY <1>1 DEF Past
<1>3. /\ Runs(x, stream[d]) /\ stream[d] = [i \in DOMAIN Files |-> stream[d][i]]
      /\ stream = [c \in Downloads |-> stream[c]]
  BY FlowRuns
<1>4. Bounded(x) /\ \A j \in DOMAIN Files : Flows(j, stream[d][j], x.out[j], "data")
  BY <1>1, <1>3 DEF Runs
<1>5. dl' = [dl EXCEPT ![d] = Put(y, n)] /\ trouble' = trouble /\ s.buf # <<>>
  BY DEF Data
<1>6. stream' = [stream EXCEPT ![d] = ss]
  <2>1. stream' = [stream EXCEPT ![d][x.i].buf = empty]
    BY DEF Data
  <2> HIDE DEF empty
  <2>2. QED  BY <1>2, <1>3, <2>1
<1>7. Flows(x.i, t, more, "data")
  <2>1. Flows(x.i, s, x.out[x.i], "data")
    BY <1>2, <1>4
  <2>2. s \in StreamType /\ Connected(x.i, s)
    BY <2>1 DEF Flows
  <2>3. empty \in Seq(Int)
    OBVIOUS
  <2>4. /\ t \in StreamType /\ t.st = s.st /\ t.received = s.received /\ t.buf = empty
        /\ t.conn = s.conn /\ t.pos = s.pos /\ t.at = s.at /\ t.tries = s.tries
    <3> HIDE DEF empty, s
    <3>1. QED  BY <2>2, <2>3 DEF StreamType
  <2> HIDE DEF t
  <2>5. Connected(x.i, t)
    BY <2>2, <2>4 DEF Connected
  <2>6. QED  BY <1>2, <1>5, <2>1, <2>4, <2>5, Writes
<1> HIDE DEF t, more
<1>8. y = [x EXCEPT !.out = out]
  BY <1>1, <1>2 DEF Shape, more
<1>9. \A j \in DOMAIN Files : /\ out[j] = IF j = x.i THEN more ELSE x.out[j]
                              /\ ss[j] = IF j = x.i THEN t ELSE stream[d][j]
  BY <1>2, <1>3
<1>10. ss = [j \in DOMAIN Files |-> ss[j]]
  BY <1>2, <1>3
<1> HIDE DEF out, ss
<1>11. /\ Shape(y, x.sent, x.starts, out) /\ y.queue = x.queue
       /\ y.pc = "data" /\ y.i = x.i /\ y.aborted = x.aborted /\ y.waiting = x.waiting
  BY <1>1, <1>8 DEF Shape
<1> HIDE DEF y, n
<1>12. Bounded(y)
  BY <1>1, <1>4, <1>11 DEF Bounded
<1>13. /\ Shape(y, y.sent, y.starts, y.out) /\ y.out = out
  BY <1>11 DEF Shape
<1>14. Bounded(Put(y, n)) /\ Put(y, n).out = y.out /\ Put(y, n).pc = y.pc
  BY <1>1, <1>11, <1>12, <1>13, PutRuns
<1>15. \A j \in DOMAIN Files : Flows(j, ss[j], out[j], "data")
  BY <1>4, <1>7, <1>9
<1>16. Runs(Put(y, n), ss)
  BY <1>11, <1>13, <1>14, <1>15 DEF Runs
<1>17. QED  BY <1>5, <1>6, <1>10, <1>16, RunsMove

LEMMA TakeFlow ==
    ASSUME Inv, Flow, NEW d \in Downloads, Take(d)
    PROVE  Flow'
<1> DEFINE x == dl[d]
           less == [x EXCEPT !.queue = @ - 1]
           new == Pulled(less)
<1>1. /\ dl' = [dl EXCEPT ![d] = new] /\ UNCHANGED <<stream, trouble>>
      /\ Shape(x, x.sent, x.starts, x.out) /\ Bounded(x)
      /\ x.queue \in Nat /\ x.queue > 0 /\ HighWater \in Nat
  BY DownloadAssumption DEF Take, Inv, One, Shape, Flow
<1>2. /\ less.pc = x.pc /\ less.i = x.i /\ less.aborted = x.aborted /\ less.waiting = x.waiting
      /\ less.queue = x.queue - 1 /\ less.out = x.out
  BY <1>1 DEF Shape
<1>3. /\ new.pc = x.pc /\ new.i = x.i /\ new.queue = x.queue - 1 /\ new.out = x.out
  <2>1. CASE less.queue < HighWater
    <3>1. new = [less EXCEPT !.waiting = FALSE]
      BY <2>1 DEF Pulled
    <3>2. QED  BY <1>1, <1>2, <3>1 DEF Shape
  <2>2. CASE ~(less.queue < HighWater)
    <3>1. new = less
      BY <2>2 DEF Pulled
    <3>2. QED  BY <1>2, <3>1
  <2>3. QED  BY <2>1, <2>2
<1> HIDE DEF new, less
<1>4. Bounded(new)
  BY <1>1, <1>3 DEF Bounded
<1>5. /\ Runs(x, stream[d]) /\ stream[d] = [i \in DOMAIN Files |-> stream[d][i]]
      /\ stream = [c \in Downloads |-> stream[c]]
  BY FlowRuns
<1>6. Runs(new, stream[d])
  BY <1>3, <1>4, <1>5 DEF Runs
<1>7. stream' = [stream EXCEPT ![d] = stream[d]]
  BY <1>1, <1>5
<1>8. QED  BY <1>1, <1>5, <1>6, <1>7, RunsMove


(* What ends or is aborted keeps its files only if they are all written. *)
LEMMA DeadRuns ==
    ASSUME Flow, NEW d \in Downloads, NEW new, Bounded(new), new.pc \notin Opening,
           new.out = dl[d].out \/ new.out = NoDownload.out
    PROVE  Runs(new, Dead)
<1> SUFFICES ASSUME NEW i \in DOMAIN Files PROVE Flows(i, Dead[i], new.out[i], new.pc)
  BY DEF Runs
<1>1. Flows(i, stream[d][i], dl[d].out[i], dl[d].pc)
  BY DEF Flow
<1>2. dl[d].out[i] \in Seq(Int) /\ InPlace(dl[d].out[i], 0)
  BY <1>1 DEF Flows
<1>3. NoDownload.out[i] = <<>>
  BY DEF NoDownload
<1>4. <<>> \in Seq(Int) /\ InPlace(<<>>, 0)
  BY DEF InPlace
<1>5. new.out[i] \in Seq(Int) /\ InPlace(new.out[i], 0)
  BY <1>2, <1>3, <1>4
<1>6. Dead[i] = NoStream
  BY DEF Dead
<1>7. QED  BY <1>5, <1>6, DeadFlows

LEMMA BlankBounded ==
    /\ NoDownload.queue = 0 /\ NoDownload.i = 1 /\ NoDownload.pc = "idle" /\ NoDownload.waiting = FALSE
    /\ Shape(NoDownload, NoDownload.sent, NoDownload.starts, NoDownload.out)
    /\ Bounded(NoDownload)
<1>1. Shape(NoDownload, NoDownload.sent, NoDownload.starts, NoDownload.out)
  BY BlankOne DEF One
<1>2. /\ NoDownload.queue = 0 /\ NoDownload.i = 1 /\ NoDownload.pc = "idle" /\ NoDownload.waiting = FALSE
  BY DEF NoDownload
<1>3. HighWater \in Nat \ {0} /\ Len(Entries) \in Nat
  BY DownloadAssumption, EntryCount
<1>4. Bounded(NoDownload)
  BY <1>2, <1>3 DEF Bounded
<1>5. QED  BY <1>1, <1>2, <1>4

LEMMA WokenRuns ==
    ASSUME Inv, Flow, NEW d \in Downloads
    PROVE  Runs(Woken(d), Dead)
<1>1. Shape(dl[d], dl[d].sent, dl[d].starts, dl[d].out) /\ Bounded(dl[d])
  BY DEF Inv, One, Flow
<1>2. CASE dl[d].pc = "end"
  <2> DEFINE y == [dl[d] EXCEPT !.aborted = TRUE, !.waiting = FALSE]
  <2>1. Woken(d) = y
    BY <1>1, <1>2 DEF Woken, Stopped, Shape
  <2>2. /\ y.pc = "end" /\ y.i = dl[d].i /\ y.aborted = TRUE /\ y.queue = dl[d].queue /\ y.out = dl[d].out
    BY <1>1, <1>2 DEF Shape
  <2> HIDE DEF y
  <2>3. Bounded(y) /\ y.pc \notin Opening
    BY <1>1, <2>2 DEF Bounded, Opening
  <2>4. QED  BY <2>1, <2>2, <2>3, DeadRuns
<1>3. CASE dl[d].pc # "end"
  <2> DEFINE y == [NoDownload EXCEPT !.pc = "stop", !.aborted = TRUE, !.waiting = FALSE]
  <2>1. Woken(d) = y
    <3>1. Stopped(d) = [NoDownload EXCEPT !.pc = "stop", !.aborted = TRUE, !.waiting = dl[d].waiting]
      BY <1>3 DEF Stopped
    <3>2. QED  BY <3>1, BlankBounded DEF Woken, Shape
  <2>2. /\ y.pc = "stop" /\ y.i = NoDownload.i /\ y.queue = NoDownload.queue /\ y.out = NoDownload.out
        /\ y.aborted = TRUE
    BY BlankBounded DEF Shape
  <2> HIDE DEF y
  <2>3. Bounded(y) /\ y.pc \notin Opening
    BY <2>2, BlankBounded DEF Bounded, Opening
  <2>4. QED  BY <2>1, <2>2, <2>3, DeadRuns
<1>4. QED  BY <1>2, <1>3

LEMMA DeadStreams == Dead = [i \in DOMAIN Files |-> Dead[i]]
BY DEF Dead

LEMMA CancelFlow ==
    ASSUME Inv, Flow, NEW d \in Downloads, dl' = [dl EXCEPT ![d] = Woken(d)],
           stream' = [stream EXCEPT ![d] = Dead], trouble' = trouble
    PROVE  Flow'
BY WokenRuns, DeadStreams, RunsMove

LEMMA EndFlow ==
    ASSUME Inv, Flow, NEW d \in Downloads, NEW pc \in {"done", "failed", "cancelled"}, End(d, pc)
    PROVE  Flow'
<1>1. PICK new : /\ dl' = [dl EXCEPT ![d] = new]
                 /\ new = IF pc = "done" THEN [NoDownload EXCEPT !.pc = pc, !.out = dl[d].out, !.sent = dl[d].sent]
                          ELSE [NoDownload EXCEPT !.pc = pc]
  BY DEF End
<1>2. stream' = [stream EXCEPT ![d] = Dead] /\ trouble' = trouble
  BY DEF End
<1>3. /\ new.pc = pc /\ new.i = NoDownload.i /\ new.queue = NoDownload.queue
      /\ new.out = dl[d].out \/ new.out = NoDownload.out
  <2>1. CASE pc = "done"
    BY <1>1, <2>1, BlankBounded DEF Shape
  <2>2. CASE pc # "done"
    BY <1>1, <2>2, BlankBounded DEF Shape
  <2>3. QED  BY <2>1, <2>2
<1>4. Bounded(new) /\ new.pc \notin Opening
  <2>1. HighWater \in Nat \ {0}
    BY DownloadAssumption
  <2>2. QED  BY <1>3, <2>1, BlankBounded DEF Bounded, Opening
<1>5. Runs(new, Dead)
  BY <1>3, <1>4, DeadRuns
<1>6. QED  BY <1>1, <1>2, <1>5, DeadStreams, RunsMove

LEMMA ArriveFlow ==
    ASSUME Inv, Flow, NEW d \in Downloads, Arrive(d)
    PROVE  Flow'
<1> DEFINE x == dl[d]
           new == [x EXCEPT !.pc = "open"]
<1>1. /\ x.pc = "idle" /\ Shape(x, x.sent, x.starts, x.out) /\ Bounded(x)
      /\ running \in Downloads \cup {0} /\ trouble' = trouble
      /\ dl = [c \in Downloads |-> dl[c]] /\ (running # 0 => Live(running))
  BY DEF Arrive, Inv, OnePerModel, One, Flow
<1>2. /\ new.pc = "open" /\ new.i = x.i /\ new.aborted = x.aborted /\ new.waiting = x.waiting
      /\ new.queue = x.queue /\ new.out = x.out
  BY <1>1 DEF Shape
<1>3. Runs(new, stream[d])
  <2> HIDE DEF new
  <2>1. Bounded(new) /\ x.pc \in Opening
    BY <1>1, <1>2 DEF Bounded, Opening
  <2>2. Runs(x, stream[d])
    BY FlowRuns
  <2>3. QED  BY <1>2, <2>1, <2>2, PcMoves DEF Runs
<1>4. d # running
  BY <1>1, NoZero DEF Live, Ended
<1>5. running # 0 => Runs(Woken(running), Dead)
  BY <1>1, WokenRuns
<1>6. \A c \in Downloads : Runs(dl[c], stream[c]) /\ stream[c] = [i \in DOMAIN Files |-> stream[c][i]]
  BY FlowRuns
<1>7. stream = [c \in Downloads |-> stream[c]]
  BY DEF Flow
<1>8. \A c \in Downloads :
        /\ dl'[c] = IF c = d THEN new ELSE IF c = running THEN Woken(running) ELSE dl[c]
        /\ stream'[c] = IF c = running THEN Dead ELSE stream[c]
  BY <1>1, <1>4, <1>7, NoZero DEF Arrive
<1>9. stream' = [c \in Downloads |-> stream'[c]]
  BY <1>7 DEF Arrive
<1> HIDE DEF new
<1>10. \A c \in Downloads : Runs(dl'[c], stream'[c])
  BY <1>3, <1>4, <1>5, <1>6, <1>8, NoZero
<1>11. \A c \in Downloads : stream'[c] = [i \in DOMAIN Files |-> stream'[c][i]]
  BY <1>6, <1>8, DeadStreams
<1>12. stream' = [c \in Downloads |-> [i \in DOMAIN Files |-> stream'[c][i]]]
  BY <1>9, <1>11
<1>13. trouble \in 0 .. MaxTrouble
  BY DEF Flow
<1>14. QED  BY <1>1, <1>10, <1>12, <1>13 DEF Flow, Runs

-----------------------------------------------------------------------------
LEMMA InitFlow == Init => Flow
<1> SUFFICES ASSUME Init PROVE Flow
  OBVIOUS
<1>1. /\ dl = [d \in Downloads |-> NoDownload] /\ trouble = 0
      /\ stream = [d \in Downloads |-> [i \in DOMAIN Files |-> NoStream]]
  BY DEF Init
<1>2. \A i \in DOMAIN Files : NoDownload.out[i] = <<>>
  BY DEF NoDownload
<1>3. <<>> \in Seq(Int) /\ InPlace(<<>>, 0)
  BY DEF InPlace
<1>4. \A i \in DOMAIN Files : Flows(i, NoStream, NoDownload.out[i], NoDownload.pc)
  BY <1>2, <1>3, DeadFlows
<1>5. trouble \in 0 .. MaxTrouble
  BY <1>1, DownloadAssumption
<1>6. \A d \in Downloads : Bounded(dl[d])
  BY <1>1, BlankBounded
<1>7. QED  BY <1>1, <1>4, <1>5, <1>6 DEF Flow

LEMMA NextFlow == Inv /\ Flow /\ [Next]_vars => Flow'
<1> SUFFICES ASSUME Inv, Flow, [Next]_vars PROVE Flow'
  OBVIOUS
<1>1. CASE PageCancel
  <2>1. running \in Downloads
    BY <1>1 DEF PageCancel, Inv
  <2>2. QED  BY <1>1, <2>1, CancelFlow DEF PageCancel
<1>2. ASSUME NEW d \in Downloads, BrowserCancel(d) PROVE Flow'
  BY <1>2, CancelFlow DEF BrowserCancel
<1>3. ASSUME NEW d \in Downloads, Work(d) PROVE Flow'
  <2>1. CASE Done(d) \/ Cancelled(d) \/ Fails(d)
    BY <2>1, EndFlow DEF Done, Cancelled, Fails
  <2>2. QED
    BY <1>3, <2>1, OpenFlow, HeaderFlow, DataFlow, DescriptorFlow, CheckedFlow, AddTailFlow, FinishFlow DEF Work
<1>4. CASE UNCHANGED vars
  BY <1>4 DEF vars, Flow
<1>5. QED  BY <1>1, <1>2, <1>3, <1>4, ArriveFlow, TakeFlow, FetchingFlow DEF Next

(* The body of a download never holds more than its mark, a large file's      *)
(* stream never more than a chunk and a small file's never more than the file; *)
(* the loop stays within the entries and no source is asked more than TRIES    *)
(* times (paced, resilient and download of zip-sw.js).                        *)
THEOREM ZipTypes == Spec => []TypeOK
<1>1. Inv /\ Flow => TypeOK
  <2> SUFFICES ASSUME Inv, Flow PROVE TypeOK
    OBVIOUS
  <2>1. ASSUME NEW d \in Downloads
        PROVE  /\ dl[d].queue \in 0 .. HighWater
               /\ dl[d].i \in 1 .. Len(Entries) + 1 /\ dl[d].aborted \in BOOLEAN /\ dl[d].waiting \in BOOLEAN
    <3>1. Shape(dl[d], dl[d].sent, dl[d].starts, dl[d].out) /\ Bounded(dl[d])
      BY DEF Inv, One, Flow
    <3>2. /\ dl[d].queue \in Nat /\ dl[d].i \in Nat \ {0}
          /\ dl[d].aborted \in BOOLEAN /\ dl[d].waiting \in BOOLEAN
      BY <3>1 DEF Shape
    <3>3. HighWater \in Nat
      BY DownloadAssumption
    <3>4. QED  BY <3>1, <3>2, <3>3, EntryCount DEF Bounded
  <2>2. ASSUME NEW d \in Downloads, NEW i \in DOMAIN Files
        PROVE  /\ stream[d][i].at \in 1 .. Len(Files[i].urls) + 1 /\ stream[d][i].tries \in 0 .. TRIES
               /\ Len(stream[d][i].buf) <= IF Files[i].small THEN Files[i].size ELSE 1
    <3>1. Flows(i, stream[d][i], dl[d].out[i], dl[d].pc)
      BY DEF Flow
    <3>2. QED  BY <3>1 DEF Flows, Connected
  <2>3. running \in Downloads \cup {0} /\ trouble \in 0 .. MaxTrouble
    BY DEF Inv, Flow
  <2>4. QED  BY <2>1, <2>2, <2>3 DEF TypeOK
<1>2. QED  BY InitInv, NextInv, InitFlow, NextFlow, <1>1, PTL DEF Spec

(* However often a file's stream is taken up again, from a byte or from the    *)
(* start of a whole answer, every byte stands in its place: none is repeated   *)
(* and none is left out (resilient of zip-sw.js).                             *)
THEOREM ZipResumesInPlace == Spec => []ResumesInPlace
<1>1. Flow => ResumesInPlace
  <2> SUFFICES ASSUME Flow, NEW d \in Downloads, NEW i \in DOMAIN Files,
                      NEW k \in DOMAIN (dl[d].out[i] \o stream[d][i].buf)
               PROVE  (dl[d].out[i] \o stream[d][i].buf)[k] \in {k - 1, Spoiled}
    BY DEF ResumesInPlace
  <2> DEFINE out == dl[d].out[i]
             buf == stream[d][i].buf
             new == out \o buf
  <2>1. Flows(i, stream[d][i], out, dl[d].pc)
    BY DEF Flow
  <2>2. out \in Seq(Int) /\ buf \in Seq(Int) /\ InPlace(out, 0) /\ InPlace(buf, Len(out))
    BY <2>1 DEF Flows, StreamType
  <2> HIDE DEF out, buf
  <2>3. /\ new \in Seq(Int) /\ Len(new) = Len(out) + Len(buf)
        /\ \A j \in 1 .. Len(new) : new[j] = IF j <= Len(out) THEN out[j] ELSE buf[j - Len(out)]
    BY <2>2, ConcatProperties
  <2>4. k \in DOMAIN new
    BY DEF out, buf
  <2> HIDE DEF new
  <2>5. InPlace(new, 0)
    BY <2>2, <2>3, JoinedInPlace
  <2>6. k \in 1 .. Len(new) /\ k \in Int
    BY <2>3, <2>4
  <2>7. new[k] \in {0 + k - 1, Spoiled}
    BY <2>5, <2>6 DEF InPlace
  <2>8. new[k] \in {k - 1, Spoiled}
    BY <2>6, <2>7
  <2>9. QED  BY <2>8 DEF new, out, buf
<1>2. QED  BY InitInv, NextInv, InitFlow, NextFlow, <1>1, PTL DEF Spec
-----------------------------------------------------------------------------
(* A set of naturals that is not empty has a least element. *)
LEMMA LeastNat ==
  ASSUME NEW T \in SUBSET Nat, T # {}
  PROVE  \E m \in T : \A k \in T : m <= k
<1> DEFINE R == {ss \in Nat \X Nat : ss[1] < ss[2]}
<1>1. R = OpToRel(<, Nat)
  BY Zenon DEF OpToRel
<1>2. IsWellFoundedOn(R, Nat)
  BY <1>1, NatLessThanWellFounded, Zenon
<1> HIDE DEF R
<1>3. PICK m \in T : \A y \in T : ~(<<y, m>> \in R)
  BY <1>2, WFMin
<1>4. ASSUME NEW y \in T PROVE m <= y
  <2>1. m \in Nat /\ y \in Nat /\ <<y, m>> \notin R
    BY <1>3
  <2>2. <<y, m>> \in Nat \X Nat /\ <<y, m>>[1] = y /\ <<y, m>>[2] = m
    BY <2>1
  <2>3. ~(y < m)
    BY <2>1, <2>2 DEF R
  <2>4. QED  BY <2>1, <2>3
<1>5. QED  BY <1>4

(* What holds of 0 and, with each natural, of the next one, holds of them all. *)
LEMMA NatSetInduction ==
  ASSUME NEW T, 0 \in T, \A n \in Nat : n \in T => n + 1 \in T
  PROVE  Nat \subseteq T
<1> SUFFICES ASSUME ~(Nat \subseteq T) PROVE FALSE
  OBVIOUS
<1> DEFINE U == {n \in Nat : n \notin T}
<1>1. PICK m \in U : \A k \in U : m <= k
  BY LeastNat
<1>2. m # 0 /\ m - 1 \in Nat /\ m - 1 \notin U
  BY <1>1
<1>3. QED  BY <1>1, <1>2

(* n steps from the result for k - 1 to the result for k. *)
Steps(f, S, a, h, n) ==
    f \in [0 .. n -> S] /\ f[0] = a /\ \A k \in 1 .. n : f[k] = h[<<f[k - 1], k>>]

LEMMA StepByStep ==
    ASSUME NEW S, NEW a, a \in S, NEW n, n \in Nat, NEW h, h \in [S \X (1 .. n) -> S]
    PROVE  \E f : Steps(f, S, a, h, n)
<1> DEFINE Goes(m) == \E f \in [0 .. m -> S] : f[0] = a /\ \A k \in 1 .. m : f[k] = h[<<f[k - 1], k>>]
           T == {m \in Nat : m <= n => Goes(m)}
<1>1. 0 \in T
  <2> DEFINE f == [k \in 0 .. 0 |-> a]
  <2>1. f \in [0 .. 0 -> S] /\ f[0] = a /\ 1 .. 0 = {}
    OBVIOUS
  <2>2. Goes(0)
    BY <2>1
  <2>3. QED  BY <2>2
<1>2. ASSUME NEW m \in Nat, m \in T PROVE m + 1 \in T
  <2> SUFFICES ASSUME m + 1 <= n PROVE Goes(m + 1)
    OBVIOUS
  <2>1. PICK f \in [0 .. m -> S] : f[0] = a /\ \A k \in 1 .. m : f[k] = h[<<f[k - 1], k>>]
    BY <1>2
  <2> DEFINE b == h[<<f[m], m + 1>>]
             g == [k \in 0 .. m + 1 |-> IF k = m + 1 THEN b ELSE f[k]]
  <2>2. b \in S
    <3>1. f[m] \in S /\ m + 1 \in 1 .. n
      OBVIOUS
    <3>2. <<f[m], m + 1>> \in S \X (1 .. n)
      BY <3>1
    <3>3. QED  BY <3>2
  <2>3. \A k \in 0 .. m + 1 : k # m + 1 => k \in 0 .. m
    OBVIOUS
  <2>4. g[0] = a /\ g[m + 1] = b /\ \A k \in 0 .. m : g[k] = f[k]
    BY <2>1
  <2>5. g \in [0 .. m + 1 -> S]
    BY <2>2, <2>3
  <2>6. ASSUME NEW k \in 1 .. m + 1 PROVE g[k] = h[<<g[k - 1], k>>]
    <3> HIDE DEF g
    <3>1. k - 1 \in 0 .. m /\ g[k - 1] = f[k - 1]
      BY <2>4
    <3>2. CASE k = m + 1
      <4>1. g[k] = b /\ k - 1 = m
        BY <2>4, <3>2
      <4>2. QED  BY <3>1, <3>2, <4>1
    <3>3. CASE k # m + 1
      <4>1. k \in 1 .. m /\ k \in 0 .. m
        BY <3>3
      <4>2. g[k] = f[k] /\ f[k] = h[<<f[k - 1], k>>]
        BY <2>1, <2>4, <4>1
      <4>3. QED  BY <3>1, <4>2
    <3>4. QED  BY <3>2, <3>3
  <2> HIDE DEF g
  <2>7. QED  BY <2>4, <2>5, <2>6
<1> HIDE DEF Goes
<1>3. n \in T
  BY <1>1, <1>2, NatSetInduction
<1>4. QED  BY <1>3 DEF Goes, Steps

-----------------------------------------------------------------------------
(* The writer's sums. *)

SumType == [offset : Nat, directory : Nat, any64 : BOOLEAN]

LEMMA EntryLens ==
    ASSUME NEW e \in EntryType, NEW start \in Nat
    PROVE  /\ HeaderLen(e) \in Nat /\ DescriptorLen(e) \in Nat /\ RecordLen(e, start) \in Nat
           /\ e.size \in Nat /\ e.name \in Nat /\ Zip64(e) \in BOOLEAN
<1>1. e.size \in Nat /\ e.name \in Nat /\ LIMIT32 \in Nat
  BY ZipAssumption DEF EntryType
<1>2. QED  BY <1>1 DEF HeaderLen, DescriptorLen, RecordLen, If, Zip64

(* What sizeOf counts for an entry is what add and finish write for it. *)
LEMMA SizeStepIs ==
    ASSUME NEW acc \in SumType, NEW e \in EntryType
    PROVE  /\ SizeStep(acc, e) \in SumType
           /\ SizeStep(acc, e).offset = acc.offset + HeaderLen(e) + e.size + DescriptorLen(e)
           /\ SizeStep(acc, e).directory = acc.directory + RecordLen(e, acc.offset)
           /\ SizeStep(acc, e).any64 = (acc.any64 \/ Zip64(e))
<1>1. e.size \in Nat /\ e.name \in Nat /\ LIMIT32 \in Nat
  BY ZipAssumption DEF EntryType
<1>2. acc.offset \in Nat /\ acc.directory \in Nat /\ acc.any64 \in BOOLEAN
  BY DEF SumType
<1>3. SizeStep(acc, e).offset = acc.offset + HeaderLen(e) + e.size + DescriptorLen(e)
  BY <1>1, <1>2 DEF SizeStep, HeaderLen, DescriptorLen, If, Zip64
<1>4. SizeStep(acc, e).directory = acc.directory + RecordLen(e, acc.offset)
  BY <1>1, <1>2 DEF SizeStep, RecordLen, If, Zip64
<1>5. SizeStep(acc, e).any64 = (acc.any64 \/ Zip64(e))
  BY DEF SizeStep
<1>6. HeaderLen(e) \in Nat /\ DescriptorLen(e) \in Nat /\ RecordLen(e, acc.offset) \in Nat
  BY <1>2, EntryLens
<1>7. SizeStep(acc, e) = [offset |-> SizeStep(acc, e).offset, directory |-> SizeStep(acc, e).directory,
                          any64 |-> SizeStep(acc, e).any64]
  BY DEF SizeStep
<1>8. /\ SizeStep(acc, e).offset \in Nat /\ SizeStep(acc, e).directory \in Nat
  BY <1>1, <1>2, <1>3, <1>4, <1>6
<1>9. SizeStep(acc, e).any64 \in BOOLEAN
  BY <1>5
<1> DEFINE o == SizeStep(acc, e).offset
           r == SizeStep(acc, e).directory
           b == SizeStep(acc, e).any64
<1>10. SizeStep(acc, e) \in SumType
  <2>1. SizeStep(acc, e) = [offset |-> o, directory |-> r, any64 |-> b] /\ o \in Nat /\ r \in Nat /\ b \in BOOLEAN
    BY <1>7, <1>8, <1>9
  <2> HIDE DEF o, r, b
  <2>2. QED  BY <2>1 DEF SumType
<1>11. QED  BY <1>3, <1>4, <1>5, <1>10

(* sizeOf's sums exist, start from nothing and go on entry by entry. *)
LEMMA ToldIs ==
    ASSUME NEW E \in Seq(EntryType)
    PROVE  /\ Told(E)[0] = [offset |-> 0, directory |-> 0, any64 |-> FALSE]
           /\ \A k \in 1 .. Len(E) : Told(E)[k] = SizeStep(Told(E)[k - 1], E[k])
           /\ \A k \in 0 .. Len(E) : Told(E)[k] \in SumType
<1> DEFINE n == Len(E)
           zero == [offset |-> 0, directory |-> 0, any64 |-> FALSE]
           h == [p \in SumType \X (1 .. n) |-> SizeStep(p[1], E[p[2]])]
           step(f) == [k \in 0 .. Len(E) |->
                          IF k = 0 THEN [offset |-> 0, directory |-> 0, any64 |-> FALSE]
                          ELSE SizeStep(f[k - 1], E[k])]
           g == CHOOSE f : f = step(f)
<1>1. Told(E) = g
  BY Zenon DEF Told
<1>2. n \in Nat /\ zero \in SumType /\ \A k \in 1 .. n : E[k] \in EntryType
  BY DEF SumType
<1>3. h \in [SumType \X (1 .. n) -> SumType]
  <2>1. ASSUME NEW p \in SumType \X (1 .. n) PROVE SizeStep(p[1], E[p[2]]) \in SumType
    <3>1. p[1] \in SumType /\ p[2] \in 1 .. n
      OBVIOUS
    <3>2. QED  BY <1>2, <3>1, SizeStepIs
  <2>2. QED  BY <2>1
<1>4. PICK f : Steps(f, SumType, zero, h, n)
  <2>1. n \in Nat /\ zero \in SumType
    BY <1>2
  <2> HIDE DEF n, zero, h
  <2>2. QED  BY <1>3, <2>1, StepByStep, Zenon
<1> HIDE DEF zero
<1>40. f \in [0 .. n -> SumType] /\ f[0] = zero /\ \A k \in 1 .. n : f[k] = h[<<f[k - 1], k>>]
  BY <1>4 DEF Steps
<1>5. ASSUME NEW k \in 1 .. n PROVE f[k] = SizeStep(f[k - 1], E[k])
  <2>1. k - 1 \in 0 .. n /\ f[k - 1] \in SumType
    BY <1>2, <1>40
  <2>2. <<f[k - 1], k>> \in SumType \X (1 .. n)
    BY <2>1
  <2>3. h[<<f[k - 1], k>>] = SizeStep(f[k - 1], E[k])
    BY <2>2
  <2>4. QED  BY <1>40, <2>3
<1>6. f = step(f)
  <2>1. \A k \in 0 .. n : f[k] = IF k = 0 THEN zero ELSE SizeStep(f[k - 1], E[k])
    <3>1. \A k \in 0 .. n : k = 0 \/ k \in 1 .. n
      BY <1>2
    <3>2. QED  BY <1>40, <1>5, <3>1
  <2>2. f = [k \in 0 .. n |-> f[k]]
    BY <1>40
  <2>3. QED  BY <2>1, <2>2 DEF zero
<1>7. g = step(g)
  BY <1>6, Zenon
<1> HIDE DEF g
<1>8. g[0] = zero /\ \A k \in 1 .. n : g[k] = SizeStep(g[k - 1], E[k])
  <2>1. 0 \in 0 .. n /\ \A k \in 1 .. n : k \in 0 .. n /\ k # 0
    BY <1>2
  <2>2. \A k \in 0 .. n : g[k] = IF k = 0 THEN zero ELSE SizeStep(g[k - 1], E[k])
    BY <1>7 DEF zero
  <2>3. QED  BY <2>1, <2>2
<1> DEFINE T == {m \in Nat : m <= n => g[m] \in SumType}
<1>9. 0 \in T
  BY <1>2, <1>8
<1>10. ASSUME NEW m \in Nat, m \in T PROVE m + 1 \in T
  <2> SUFFICES ASSUME m + 1 <= n PROVE g[m + 1] \in SumType
    OBVIOUS
  <2>1. g[m] \in SumType /\ m + 1 \in 1 .. n /\ (m + 1) - 1 = m
    BY <1>2, <1>10
  <2>2. g[m + 1] = SizeStep(g[m], E[m + 1]) /\ E[m + 1] \in EntryType
    BY <1>2, <1>8, <2>1
  <2>3. QED  BY <2>1, <2>2, SizeStepIs
<1>11. \A k \in 0 .. n : g[k] \in SumType
  <2> HIDE DEF T
  <2>1. Nat \subseteq T
    BY <1>9, <1>10, NatSetInduction
  <2>2. \A k \in 0 .. n : k \in Nat /\ k <= n
    BY <1>2
  <2>3. QED  BY <2>1, <2>2 DEF T
<1>12. QED  BY <1>1, <1>8, <1>11 DEF zero

(* finish's directory, where every entry began where sizeOf told, is as long *)
(* as sizeOf told.                                                           *)
LEMMA DirectoryIs ==
    ASSUME NEW E \in Seq(EntryType), NEW starts,
           \A k \in 1 .. Len(E) : starts[k] = Told(E)[k - 1].offset
    PROVE  Directory(E, starts)[Len(E)] = Told(E)[Len(E)].directory
<1> DEFINE n == Len(E)
           step(f) == [k \in 0 .. Len(E) |-> IF k = 0 THEN 0 ELSE f[k - 1] + RecordLen(E[k], starts[k])]
           g == CHOOSE f : f = step(f)
           f == [k \in 0 .. n |-> Told(E)[k].directory]
<1>1. Directory(E, starts) = g
  BY Zenon DEF Directory
<1>2. n \in Nat /\ \A k \in 1 .. n : E[k] \in EntryType
  OBVIOUS
<1>3. /\ Told(E)[0] = [offset |-> 0, directory |-> 0, any64 |-> FALSE]
      /\ \A k \in 1 .. n : Told(E)[k] = SizeStep(Told(E)[k - 1], E[k])
      /\ \A k \in 0 .. n : Told(E)[k] \in SumType
  BY ToldIs
<1>4. ASSUME NEW k \in 1 .. n PROVE f[k] = f[k - 1] + RecordLen(E[k], starts[k])
  <2>1. k \in 0 .. n /\ k - 1 \in 0 .. n
    BY <1>2
  <2>2. Told(E)[k] = SizeStep(Told(E)[k - 1], E[k]) /\ Told(E)[k - 1] \in SumType /\ E[k] \in EntryType
    BY <1>2, <1>3, <2>1
  <2>3. Told(E)[k].directory = Told(E)[k - 1].directory + RecordLen(E[k], Told(E)[k - 1].offset)
    BY <2>2, SizeStepIs
  <2>4. QED  BY <2>1, <2>3
<1>5. f[0] = 0
  BY <1>2, <1>3
<1>6. f = step(f)
  <2>1. \A k \in 0 .. n : k = 0 \/ k \in 1 .. n
    BY <1>2
  <2>2. \A k \in 0 .. n : f[k] = IF k = 0 THEN 0 ELSE f[k - 1] + RecordLen(E[k], starts[k])
    <3> HIDE DEF f
    <3>1. QED  BY <1>4, <1>5, <2>1
  <2>3. f = [k \in 0 .. n |-> f[k]]
    OBVIOUS
  <2> HIDE DEF f
  <2>4. QED  BY <2>2, <2>3
<1>7. g = step(g)
  <2> HIDE DEF f
  <2>1. QED  BY <1>6, Zenon
<1> HIDE DEF g
<1>8. g[0] = 0 /\ \A k \in 1 .. n : g[k] = g[k - 1] + RecordLen(E[k], starts[k])
  <2>1. 0 \in 0 .. n /\ \A k \in 1 .. n : k \in 0 .. n /\ k # 0
    BY <1>2
  <2>2. \A k \in 0 .. n : g[k] = IF k = 0 THEN 0 ELSE g[k - 1] + RecordLen(E[k], starts[k])
    BY <1>7
  <2>3. QED  BY <2>1, <2>2
<1> HIDE DEF f
<1> DEFINE T == {m \in Nat : m <= n => g[m] = f[m]}
<1>9. 0 \in T
  BY <1>2, <1>5, <1>8
<1>10. ASSUME NEW m \in Nat, m \in T PROVE m + 1 \in T
  <2> SUFFICES ASSUME m + 1 <= n PROVE g[m + 1] = f[m + 1]
    OBVIOUS
  <2>1. g[m] = f[m] /\ m + 1 \in 1 .. n /\ (m + 1) - 1 = m
    BY <1>2, <1>10
  <2>2. QED  BY <1>4, <1>8, <2>1
<1>11. g[n] = f[n]
  <2> HIDE DEF T
  <2>1. Nat \subseteq T
    BY <1>9, <1>10, NatSetInduction
  <2>2. QED  BY <1>2, <2>1 DEF T
<1>12. f[n] = Told(E)[n].directory
  BY <1>2 DEF f
<1>13. QED  BY <1>1, <1>11, <1>12

LEMMA AnyIs ==
    ASSUME NEW E \in Seq(EntryType)
    PROVE  Told(E)[Len(E)].any64 <=> \E k \in 1 .. Len(E) : Zip64(E[k])
<1> DEFINE n == Len(E)
           Any(m) == \E k \in 1 .. m : Zip64(E[k])
           T == {m \in Nat : m <= n => (Told(E)[m].any64 <=> Any(m))}
<1>1. n \in Nat /\ \A k \in 1 .. n : E[k] \in EntryType
  OBVIOUS
<1>2. /\ Told(E)[0] = [offset |-> 0, directory |-> 0, any64 |-> FALSE]
      /\ \A k \in 1 .. n : Told(E)[k] = SizeStep(Told(E)[k - 1], E[k])
      /\ \A k \in 0 .. n : Told(E)[k] \in SumType
  BY ToldIs
<1>3. 0 \in T
  <2>1. 1 .. 0 = {} /\ ~Told(E)[0].any64
    BY <1>2
  <2>2. QED  BY <2>1
<1>4. ASSUME NEW m \in Nat, m \in T PROVE m + 1 \in T
  <2> SUFFICES ASSUME m + 1 <= n PROVE Told(E)[m + 1].any64 <=> Any(m + 1)
    OBVIOUS
  <2>1. m \in 0 .. n /\ m + 1 \in 1 .. n /\ (m + 1) - 1 = m
    BY <1>1
  <2>2. Told(E)[m].any64 <=> Any(m)
    BY <1>1, <1>4, <2>1
  <2>3. Told(E)[m + 1] = SizeStep(Told(E)[m], E[m + 1]) /\ Told(E)[m] \in SumType /\ E[m + 1] \in EntryType
    BY <1>1, <1>2, <2>1
  <2>4. Told(E)[m + 1].any64 = (Told(E)[m].any64 \/ Zip64(E[m + 1]))
    BY <2>3, SizeStepIs
  <2>5. \A k : k \in 1 .. m + 1 <=> k \in 1 .. m \/ k = m + 1
    BY <1>4
  <2>6. Any(m + 1) <=> Any(m) \/ Zip64(E[m + 1])
    BY <2>5
  <2>7. QED  BY <2>2, <2>4, <2>6
<1> HIDE DEF Any
<1>5. n \in T
  <2> HIDE DEF T
  <2>1. QED  BY <1>1, <1>3, <1>4, NatSetInduction
<1>6. QED  BY <1>1, <1>5 DEF Any

(* sizeOf tells what finish ends with. *)
LEMMA FinishIs ==
    ASSUME NEW E \in Seq(EntryType), NEW starts,
           \A k \in 1 .. Len(E) : starts[k] = Told(E)[k - 1].offset
    PROVE  SizeOf(E) = Told(E)[Len(E)].offset + FinishLen(E, starts, Told(E)[Len(E)].offset)
<1> DEFINE t == Told(E)[Len(E)]
           any == \E k \in DOMAIN E : Zip64(E[k])
           big == Len(E) >= LIMIT16 \/ t.offset >= LIMIT32 \/ t.directory >= LIMIT32 \/ any
<1>1. t \in SumType
  BY ToldIs
<1>2. t.offset \in Nat /\ t.directory \in Nat
  BY <1>1 DEF SumType
<1>3. t.any64 <=> any
  BY AnyIs
<1>4. Directory(E, starts)[Len(E)] = t.directory
  BY DirectoryIs
<1> HIDE DEF t, any
<1>5. FinishLen(E, starts, t.offset)
        = t.directory + If(big, (4 + 8 + 2 + 2 + 4 + 4 + 8 + 8 + 8 + 8) + (4 + 4 + 8 + 4))
          + (4 + 2 + 2 + 2 + 2 + 4 + 4 + 2)
  BY <1>4 DEF FinishLen, any
<1>6. SizeOf(E) = t.offset + t.directory + If(big, 56 + 20) + 22
  BY <1>3 DEF SizeOf, t, If
<1> HIDE DEF big
<1>7. /\ If(big, (4 + 8 + 2 + 2 + 4 + 4 + 8 + 8 + 8 + 8) + (4 + 4 + 8 + 4)) = If(big, 56 + 20)
      /\ If(big, 56 + 20) \in Nat /\ 4 + 2 + 2 + 2 + 2 + 4 + 4 + 2 = 22
  BY DEF If
<1>8. QED  BY <1>2, <1>5, <1>6, <1>7 DEF t
-----------------------------------------------------------------------------
(* The length.  At every step of the loop the bytes put are the offset that  *)
(* sizeOf told for the entries so far, and the starts kept for the directory *)
(* are the offsets it told for each of them.                                 *)

Offset(k) == Told(Entries)[k].offset
Starts(k) == [j \in 1 .. k |-> Offset(j - 1)]

(* The file being written and those after it are not begun. *)
Fresh(x, i) == \A j \in DOMAIN Files : j >= i => x.out[j] = <<>>

Tally(x) ==
    /\ x.pc \in {"idle", "open", "header"} => Fresh(x, x.i)
    /\ x.pc \in {"data", "check"} => Fresh(x, x.i + 1)
    /\ x.pc \in {"idle", "open", "header", "tail", "finish"} => x.sent = Offset(x.i - 1) /\ x.starts = Starts(x.i - 1)
    /\ x.pc = "data" => /\ x.sent = Offset(x.i - 1) + HeaderLen(Entries[x.i]) + Len(x.out[x.i])
                        /\ x.starts = Starts(x.i)
    /\ x.pc = "check" => x.sent = Offset(x.i) /\ x.starts = Starts(x.i)
    /\ x.pc = "tail" => x.i > N
    /\ x.pc = "finish" => x.i = Len(Entries) + 1
    /\ x.pc \in {"end", "done"} => x.sent = SizeOf(Entries)

Tallied == \A d \in Downloads : Tally(dl[d])

LEMMA EntriesAre ==
    /\ Entries \in Seq(EntryType)
    /\ \A i \in DOMAIN Files : Entries[i].size = Files[i].size
<1> DEFINE own == [i \in DOMAIN Files |-> [size |-> Files[i].size, name |-> Files[i].name]]
<1>1. \A i \in DOMAIN Files : Files[i].size \in Nat /\ Files[i].name \in Nat
  <2>1. \A i \in DOMAIN Files : Files[i] \in FileType
    BY DownloadAssumption
  <2>2. QED  BY <2>1 DEF FileType
<1>2. own \in Seq(EntryType) /\ Len(own) = N /\ \A i \in 1 .. N : own[i].size = Files[i].size
  <2>1. \A i \in DOMAIN Files : own[i] \in EntryType
    BY <1>1 DEF EntryType
  <2>2. own = [i \in 1 .. N |-> own[i]] /\ \A i \in DOMAIN Files : own[i].size = Files[i].size
    BY FilesDomain
  <2> HIDE DEF own
  <2>3. own \in Seq(EntryType) /\ Len(own) = N
    BY <2>1, <2>2, FilesDomain
  <2>4. QED  BY <2>2, <2>3, FilesDomain
<1>3. Tails \in Seq(EntryType)
  BY DownloadAssumption
<1>4. Entries = own \o Tails
  BY DEF Entries
<1> HIDE DEF own
<1>5. /\ Entries \in Seq(EntryType)
      /\ \A i \in 1 .. Len(own) : Entries[i] = own[i]
  BY <1>2, <1>3, <1>4
<1>6. QED  BY <1>2, <1>5, FilesDomain

(* Where the next entry begins: after the header, the data and the descriptor. *)
LEMMA OffsetIs ==
    /\ Offset(0) = 0
    /\ \A k \in 0 .. Len(Entries) : Offset(k) \in Nat
    /\ \A k \in 1 .. Len(Entries) :
          /\ Entries[k] \in EntryType
          /\ Offset(k) = Offset(k - 1) + HeaderLen(Entries[k]) + Entries[k].size + DescriptorLen(Entries[k])
<1>1. /\ Told(Entries)[0] = [offset |-> 0, directory |-> 0, any64 |-> FALSE]
      /\ \A k \in 1 .. Len(Entries) : Told(Entries)[k] = SizeStep(Told(Entries)[k - 1], Entries[k])
      /\ \A k \in 0 .. Len(Entries) : Told(Entries)[k] \in SumType
  BY ToldIs, EntriesAre
<1>2. Offset(0) = 0
  BY <1>1 DEF Offset
<1>3. \A k \in 0 .. Len(Entries) : Offset(k) \in Nat
  BY <1>1 DEF Offset, SumType
<1>4. ASSUME NEW k \in 1 .. Len(Entries)
      PROVE  /\ Entries[k] \in EntryType
             /\ Offset(k) = Offset(k - 1) + HeaderLen(Entries[k]) + Entries[k].size + DescriptorLen(Entries[k])
  <2>1. k - 1 \in 0 .. Len(Entries) /\ Entries[k] \in EntryType
    BY EntriesAre, EntryCount
  <2>2. Told(Entries)[k] = SizeStep(Told(Entries)[k - 1], Entries[k]) /\ Told(Entries)[k - 1] \in SumType
    BY <1>1, <2>1
  <2>3. QED  BY <2>1, <2>2, SizeStepIs DEF Offset
<1>5. QED  BY <1>2, <1>3, <1>4

LEMMA StartsGrow ==
    ASSUME NEW k \in Nat
    PROVE  Append(Starts(k), Offset(k)) = Starts(k + 1)
<1> DEFINE s == Starts(k)
           t == Append(s, Offset(k))
<1>1. s = [j \in 1 .. k |-> Offset(j - 1)] /\ Starts(k + 1) = [j \in 1 .. k + 1 |-> Offset(j - 1)]
  BY DEF Starts
<1> DEFINE S == {Offset(j - 1) : j \in 1 .. k + 1}
<1>2. s \in [1 .. k -> S]
  BY <1>1
<1>3. Offset(k) \in S
  <2>1. k + 1 \in 1 .. k + 1 /\ (k + 1) - 1 = k
    OBVIOUS
  <2>2. Offset((k + 1) - 1) \in S
    BY <2>1
  <2>3. QED  BY <2>1, <2>2
<1> HIDE DEF S
<1>4. s \in Seq(S) /\ Len(s) = k
  <2> HIDE DEF s
  <2>1. QED  BY <1>2
<1> HIDE DEF s
<1>5. t = [j \in 1 .. k + 1 |-> IF j <= k THEN s[j] ELSE Offset(k)]
  <2>1. /\ t \in Seq(S) /\ Len(t) = Len(s) + 1
        /\ \A j \in 1 .. Len(s) : t[j] = s[j]
        /\ t[Len(s) + 1] = Offset(k)
    BY <1>3, <1>4, AppendProperties
  <2>2. t = [j \in 1 .. Len(t) |-> t[j]]
    <3> HIDE DEF t
    <3>1. QED  BY <2>1
  <2>3. \A j \in 1 .. k + 1 : t[j] = IF j <= k THEN s[j] ELSE Offset(k)
    <3>1. \A j \in 1 .. k + 1 : (j <= k => j \in 1 .. k) /\ (~(j <= k) => j = k + 1)
      OBVIOUS
    <3> HIDE DEF t
    <3>2. QED  BY <1>4, <2>1, <3>1
  <2> HIDE DEF t
  <2>4. Len(t) = k + 1
    BY <1>4, <2>1
  <2>5. QED  BY <2>2, <2>3, <2>4
<1>6. ASSUME NEW j \in 1 .. k + 1 PROVE (IF j <= k THEN s[j] ELSE Offset(k)) = Offset(j - 1)
  <2>1. CASE j <= k
    BY <1>1, <2>1
  <2>2. CASE ~(j <= k)
    <3>1. j - 1 = k
      BY <2>2
    <3>2. QED  BY <2>2, <3>1
  <2>3. QED  BY <2>1, <2>2
<1> HIDE DEF t
<1>7. t = [j \in 1 .. k + 1 |-> Offset(j - 1)]
  BY <1>5, <1>6
<1>8. QED  BY <1>1, <1>7 DEF t, s

-----------------------------------------------------------------------------
(* The tally of a download. *)

LEMMA TallyMoves ==
    ASSUME Inv, Tallied, NEW d \in Downloads, NEW new, dl' = [dl EXCEPT ![d] = new], Tally(new)
    PROVE  Tallied'
<1>1. \A c \in Downloads : dl'[c] = IF c = d THEN new ELSE dl[c]
  BY DEF Inv
<1>2. QED  BY <1>1 DEF Tallied

LEMMA PutFields ==
    ASSUME NEW y, NEW n, NEW sent, NEW starts, NEW out, Shape(y, sent, starts, out)
    PROVE  /\ Put(y, n).pc = y.pc /\ Put(y, n).i = y.i /\ Put(y, n).sent = sent + n
           /\ Put(y, n).starts = starts /\ Put(y, n).out = out
<1> DEFINE full == Filled(y.queue + 1)
<1>1. Put(y, n) = [y EXCEPT !.queue = y.queue + 1, !.sent = y.sent + n, !.waiting = full]
  BY DEF Put, Shape
<1> HIDE DEF full
<1>2. y.sent = sent /\ y.starts = starts /\ y.out = out
  BY DEF Shape
<1>3. QED  BY <1>1, <1>2 DEF Shape

LEMMA HeaderTally ==
    ASSUME Inv, Flow, Tallied, NEW d \in Downloads, Header(d)
    PROVE  Tallied'
<1> DEFINE x == dl[d]
           n == HeaderLen(Entries[x.i])
           app == Append(x.starts, x.sent)
           y == [x EXCEPT !.pc = "data", !.starts = Append(@, x.sent)]
           z == Put(y, n)
<1>1. /\ x.pc = "header" /\ Shape(x, x.sent, x.starts, x.out) /\ Past(x) /\ Tally(x)
      /\ x.i \in Nat \ {0}
  BY AtStep DEF Header, Going, Tallied
<1>2. dl' = [dl EXCEPT ![d] = z]
  BY DEF Header, PutHeader
<1>3. Shape(y, x.sent, app, x.out) /\ y.pc = "data" /\ y.i = x.i
  BY <1>1 DEF Shape, Pcs, Going
<1> HIDE DEF y, n, app
<1>4. z.pc = "data" /\ z.i = x.i /\ z.sent = x.sent + n /\ z.starts = app /\ z.out = x.out
  BY <1>3, PutFields
<1> HIDE DEF z
<1>5. x.i \in DOMAIN Files /\ x.i \in 1 .. Len(Entries) /\ x.i - 1 \in 0 .. Len(Entries) /\ x.i - 1 \in Nat
  BY <1>1, FilesDomain, EntryCount DEF Past
<1>6. x.sent = Offset(x.i - 1) /\ x.starts = Starts(x.i - 1) /\ Fresh(x, x.i)
  BY <1>1 DEF Tally
<1>7. z.starts = Starts(x.i)
  <2>1. (x.i - 1) + 1 = x.i
    BY <1>5, <1>1
  <2>2. QED  BY <1>4, <1>5, <1>6, <2>1, StartsGrow DEF app
<1>8. x.out[x.i] = <<>> /\ Fresh(x, x.i + 1)
  BY <1>1, <1>5, <1>6, FilesDomain DEF Fresh
<1>9. z.sent = Offset(x.i - 1) + n + Len(z.out[x.i])
  <2>1. Len(z.out[x.i]) = 0 /\ Offset(x.i - 1) \in Nat
    BY <1>4, <1>5, <1>8, OffsetIs
  <2>2. n \in Nat
    BY <1>5, OffsetIs, EntryLens DEF n
  <2>3. QED  BY <1>4, <1>6, <2>1, <2>2
<1>10. Fresh(z, x.i + 1)
  BY <1>4, <1>8 DEF Fresh
<1>11. Tally(z)
  BY <1>4, <1>7, <1>9, <1>10 DEF Tally, n
<1>12. QED  BY <1>2, <1>11, TallyMoves

LEMMA DataTally ==
    ASSUME Inv, Flow, Tallied, NEW d \in Downloads, Data(d)
    PROVE  Tallied'
<1> DEFINE x == dl[d]
           buf == stream[d][x.i].buf
           more == x.out[x.i] \o buf
           out == [x.out EXCEPT ![x.i] = more]
           y == [x EXCEPT !.out[x.i] = @ \o buf]
           n == Len(buf)
           z == Put(y, n)
<1>1. /\ x.pc = "data" /\ Shape(x, x.sent, x.starts, x.out) /\ Past(x) /\ Tally(x)
      /\ x.i \in Nat \ {0}
  BY AtStep DEF Data, Going, Tallied
<1>2. dl' = [dl EXCEPT ![d] = z]
  BY DEF Data
<1>3. x.i \in DOMAIN Files /\ x.out = [j \in DOMAIN Files |-> x.out[j]]
  BY <1>1 DEF Past
<1>4. y = [x EXCEPT !.out = out]
  BY <1>1, <1>3 DEF Shape
<1>5. Flows(x.i, stream[d][x.i], x.out[x.i], "data")
  BY <1>1, <1>3 DEF Flow
<1>6. x.out[x.i] \in Seq(Int) /\ buf \in Seq(Int)
  BY <1>5 DEF Flows, StreamType
<1>7. Len(more) = Len(x.out[x.i]) + n /\ Len(x.out[x.i]) \in Nat /\ n \in Nat
  <2>1. \A a, b \in Seq(Int) : Len(a \o b) = Len(a) + Len(b) /\ Len(a) \in Nat /\ Len(b) \in Nat
    OBVIOUS
  <2> HIDE DEF buf
  <2>2. QED  BY <1>6, <2>1
<1> HIDE DEF more
<1>8. \A j \in DOMAIN Files : out[j] = IF j = x.i THEN more ELSE x.out[j]
  BY <1>3
<1> HIDE DEF out
<1>9. Shape(y, x.sent, x.starts, out) /\ y.pc = "data" /\ y.i = x.i
  BY <1>1, <1>4 DEF Shape
<1> HIDE DEF y, n
<1>10. z.pc = "data" /\ z.i = x.i /\ z.sent = x.sent + n /\ z.starts = x.starts /\ z.out = out
  BY <1>9, PutFields
<1> HIDE DEF z
<1>11. /\ x.sent = Offset(x.i - 1) + HeaderLen(Entries[x.i]) + Len(x.out[x.i]) /\ x.starts = Starts(x.i)
       /\ Fresh(x, x.i + 1)
  BY <1>1 DEF Tally
<1>12. Fresh(z, x.i + 1)
  <2>1. \A j \in DOMAIN Files : j >= x.i + 1 => j # x.i
    BY <1>1, FilesDomain
  <2>2. QED  BY <1>8, <1>10, <1>11, <2>1 DEF Fresh
<1>13. z.sent = Offset(x.i - 1) + HeaderLen(Entries[x.i]) + Len(z.out[x.i])
  <2>1. x.i \in 1 .. Len(Entries) /\ x.i - 1 \in 0 .. Len(Entries)
    BY <1>1, <1>3, FilesDomain, EntryCount
  <2>2. Offset(x.i - 1) \in Nat /\ HeaderLen(Entries[x.i]) \in Nat
    BY <2>1, OffsetIs, EntryLens
  <2>3. Len(z.out[x.i]) = Len(x.out[x.i]) + n
    BY <1>3, <1>7, <1>8, <1>10
  <2>4. QED  BY <1>7, <1>10, <1>11, <2>2, <2>3
<1>14. Tally(z)
  BY <1>10, <1>11, <1>12, <1>13 DEF Tally
<1>15. QED  BY <1>2, <1>14, TallyMoves

LEMMA DescriptorTally ==
    ASSUME Inv, Flow, Tallied, NEW d \in Downloads, Descriptor(d)
    PROVE  Tallied'
<1> DEFINE x == dl[d]
           n == DescriptorLen(Entries[x.i])
           y == [x EXCEPT !.pc = "check"]
           z == Put(y, n)
<1>1. /\ x.pc = "data" /\ Shape(x, x.sent, x.starts, x.out) /\ Past(x) /\ Tally(x)
      /\ x.i \in Nat \ {0}
  BY AtStep DEF Descriptor, Going, Tallied
<1>2. dl' = [dl EXCEPT ![d] = z] /\ Len(x.out[x.i]) = Files[x.i].size
  BY DEF Descriptor
<1>3. Shape(y, x.sent, x.starts, x.out) /\ y.pc = "check" /\ y.i = x.i
  BY <1>1 DEF Shape, Pcs, Going
<1> HIDE DEF y, n
<1>4. z.pc = "check" /\ z.i = x.i /\ z.sent = x.sent + n /\ z.starts = x.starts /\ z.out = x.out
  BY <1>3, PutFields
<1> HIDE DEF z
<1>5. x.i \in DOMAIN Files /\ x.i \in 1 .. Len(Entries)
  BY <1>1, FilesDomain, EntryCount DEF Past
<1>6. /\ x.sent = Offset(x.i - 1) + HeaderLen(Entries[x.i]) + Len(x.out[x.i]) /\ x.starts = Starts(x.i)
      /\ Fresh(x, x.i + 1)
  BY <1>1 DEF Tally
<1>7. z.sent = Offset(x.i)
  <2>1. Entries[x.i].size = Files[x.i].size
    BY <1>5, EntriesAre
  <2>2. QED  BY <1>2, <1>4, <1>5, <1>6, <2>1, OffsetIs DEF n
<1>8. Fresh(z, x.i + 1)
  BY <1>4, <1>6 DEF Fresh
<1>9. Tally(z)
  BY <1>4, <1>6, <1>7, <1>8 DEF Tally
<1>10. QED  BY <1>2, <1>9, TallyMoves

LEMMA CheckedTally ==
    ASSUME Inv, Flow, Tallied, NEW d \in Downloads, Checked(d)
    PROVE  Tallied'
<1> DEFINE x == dl[d]
           new == [x EXCEPT !.pc = "open", !.i = @ + 1]
<1>1. /\ x.pc = "check" /\ Shape(x, x.sent, x.starts, x.out) /\ Tally(x) /\ x.i \in Nat \ {0}
      /\ dl = [c \in Downloads |-> dl[c]]
  BY AtStep DEF Checked, Going, Tallied
<1>2. dl' = [dl EXCEPT ![d] = new]
  BY <1>1 DEF Checked
<1>3. /\ new.pc = "open" /\ new.i = x.i + 1 /\ new.sent = x.sent /\ new.starts = x.starts /\ new.out = x.out
  BY <1>1 DEF Shape
<1> HIDE DEF new
<1>4. (x.i + 1) - 1 = x.i
  BY <1>1
<1>5. x.sent = Offset(x.i) /\ x.starts = Starts(x.i) /\ Fresh(x, x.i + 1)
  BY <1>1 DEF Tally
<1>6. Fresh(new, x.i + 1)
  BY <1>3, <1>5 DEF Fresh
<1>7. Tally(new)
  BY <1>3, <1>4, <1>5, <1>6 DEF Tally
<1>8. QED  BY <1>2, <1>7, TallyMoves

LEMMA AddTailTally ==
    ASSUME Inv, Flow, Tallied, NEW d \in Downloads, AddTail(d)
    PROVE  Tallied'
<1> DEFINE x == dl[d]
           e == Entries[x.i]
           n == HeaderLen(e) + e.size + DescriptorLen(e)
           app == Append(x.starts, x.sent)
           y == [x EXCEPT !.pc = "open", !.i = @ + 1, !.starts = Append(@, x.sent)]
           z == Put(y, n)
<1>1. /\ x.pc = "tail" /\ Shape(x, x.sent, x.starts, x.out) /\ Past(x) /\ Tally(x) /\ x.i \in Nat \ {0}
      /\ Bounded(x)
  BY AtStep DEF AddTail, Going, Tallied, Flow
<1>2. dl' = [dl EXCEPT ![d] = z]
  BY DEF AddTail
<1>3. x.i + 1 \in Nat \ {0} /\ (x.i + 1) - 1 = x.i /\ (x.i - 1) + 1 = x.i
  BY <1>1
<1>4. Shape(y, x.sent, app, x.out) /\ y.pc = "open" /\ y.i = x.i + 1
  BY <1>1, <1>3 DEF Shape, Pcs, Going
<1> HIDE DEF y, n, app
<1>5. /\ z.pc = "open" /\ z.i = x.i + 1 /\ z.sent = x.sent + n /\ z.starts = app
      /\ z.out = x.out
  BY <1>4, PutFields
<1> HIDE DEF z
<1>6. x.i \in 1 .. Len(Entries) /\ x.i - 1 \in 0 .. Len(Entries) /\ x.i - 1 \in Nat
  BY <1>1, EntryCount DEF Bounded
<1>7. x.sent = Offset(x.i - 1) /\ x.starts = Starts(x.i - 1)
  BY <1>1 DEF Tally
<1>8. z.starts = Starts(x.i)
  BY <1>3, <1>5, <1>6, <1>7, StartsGrow DEF app
<1>9. z.sent = Offset(x.i)
  <2>1. /\ Offset(x.i) = Offset(x.i - 1) + HeaderLen(e) + e.size + DescriptorLen(e)
        /\ Offset(x.i - 1) \in Nat /\ e \in EntryType
    BY <1>6, OffsetIs
  <2>2. HeaderLen(e) \in Nat /\ e.size \in Nat /\ DescriptorLen(e) \in Nat
    BY <2>1, EntryLens
  <2>3. QED  BY <1>5, <1>7, <2>1, <2>2 DEF n
<1>10. Fresh(z, x.i + 1)
  <2>1. x.i > N
    BY <1>1 DEF Tally
  <2>2. \A j \in DOMAIN Files : ~(j >= x.i + 1)
    BY <1>1, <2>1, FilesDomain
  <2>3. QED  BY <2>2 DEF Fresh
<1>11. Tally(z)
  BY <1>3, <1>5, <1>8, <1>9, <1>10 DEF Tally
<1>12. QED  BY <1>2, <1>11, TallyMoves

LEMMA FinishTally ==
    ASSUME Inv, Flow, Tallied, NEW d \in Downloads, Finish(d)
    PROVE  Tallied'
<1> DEFINE x == dl[d]
           n == FinishLen(Entries, x.starts, x.sent)
           y == [x EXCEPT !.pc = "end"]
           z == Put(y, n)
<1>1. x.pc = "finish" /\ Shape(x, x.sent, x.starts, x.out) /\ Tally(x)
  BY AtStep DEF Finish, Going, Tallied
<1>2. dl' = [dl EXCEPT ![d] = z]
  BY DEF Finish
<1>3. Shape(y, x.sent, x.starts, x.out) /\ y.pc = "end" /\ y.i = x.i
  BY <1>1 DEF Shape, Pcs, Going
<1> HIDE DEF y, n
<1>4. z.pc = "end" /\ z.sent = x.sent + n
  BY <1>3, PutFields
<1> HIDE DEF z
<1>5. x.i = Len(Entries) + 1 /\ x.sent = Offset(x.i - 1) /\ x.starts = Starts(x.i - 1)
  BY <1>1 DEF Tally
<1>6. x.i - 1 = Len(Entries)
  BY <1>5, EntryCount
<1>7. \A k \in 1 .. Len(Entries) : x.starts[k] = Told(Entries)[k - 1].offset
  BY <1>5, <1>6 DEF Starts, Offset
<1>8. x.sent = Told(Entries)[Len(Entries)].offset
  BY <1>5, <1>6 DEF Offset
<1>9. z.sent = SizeOf(Entries)
  BY <1>4, <1>7, <1>8, FinishIs, EntriesAre DEF n
<1>10. Tally(z)
  BY <1>4, <1>9 DEF Tally
<1>11. QED  BY <1>2, <1>10, TallyMoves

LEMMA OpenTally ==
    ASSUME Inv, Flow, Tallied, NEW d \in Downloads, Open(d)
    PROVE  Tallied'
<1> DEFINE x == dl[d]
           pc == IF x.i <= N THEN "header" ELSE IF x.i <= Len(Entries) THEN "tail" ELSE "finish"
           new == [x EXCEPT !.pc = pc]
<1>1. /\ x.pc = "open" /\ Shape(x, x.sent, x.starts, x.out) /\ Tally(x) /\ x.i \in Nat \ {0}
      /\ dl = [c \in Downloads |-> dl[c]] /\ Bounded(x)
  BY AtStep DEF Open, Going, Tallied, Flow
<1>2. dl' = [dl EXCEPT ![d] = new]
  BY <1>1 DEF Open
<1>3. /\ pc \in {"header", "tail", "finish"} /\ (pc = "tail" => x.i > N)
      /\ (pc = "finish" => x.i = Len(Entries) + 1)
  BY <1>1, EntryCount DEF Bounded
<1> HIDE DEF pc
<1>4. new.pc = pc /\ new.i = x.i /\ new.sent = x.sent /\ new.starts = x.starts /\ new.out = x.out
  BY <1>1 DEF Shape
<1> HIDE DEF new
<1>5. x.sent = Offset(x.i - 1) /\ x.starts = Starts(x.i - 1) /\ Fresh(x, x.i)
  BY <1>1 DEF Tally
<1>6. Fresh(new, x.i)
  BY <1>4, <1>5 DEF Fresh
<1>7. Tally(new)
  BY <1>3, <1>4, <1>5, <1>6 DEF Tally
<1>8. QED  BY <1>2, <1>7, TallyMoves

(* A step that changes no more of the record than what the tally ignores. *)
LEMMA SameTally ==
    ASSUME NEW x, NEW new, Tally(x), new.pc = x.pc, new.i = x.i, new.sent = x.sent,
           new.starts = x.starts, new.out = x.out
    PROVE  Tally(new)
BY DEF Tally, Fresh

LEMMA TakeTally ==
    ASSUME Inv, Tallied, NEW d \in Downloads, Take(d)
    PROVE  Tallied'
<1> DEFINE x == dl[d]
           less == [x EXCEPT !.queue = @ - 1]
           new == Pulled(less)
<1>1. dl' = [dl EXCEPT ![d] = new] /\ Shape(x, x.sent, x.starts, x.out) /\ Tally(x)
  BY DEF Take, Inv, One, Tallied
<1>2. /\ less.pc = x.pc /\ less.i = x.i /\ less.sent = x.sent /\ less.starts = x.starts /\ less.out = x.out
      /\ DOMAIN less = DOMAIN x
  BY <1>1 DEF Shape
<1>3. /\ new.pc = x.pc /\ new.i = x.i /\ new.sent = x.sent /\ new.starts = x.starts /\ new.out = x.out
  <2>1. CASE less.queue < HighWater
    <3>1. new = [less EXCEPT !.waiting = FALSE]
      BY <2>1 DEF Pulled
    <3>2. QED  BY <1>1, <3>1 DEF Shape
  <2>2. CASE ~(less.queue < HighWater)
    <3>1. new = less
      BY <2>2 DEF Pulled
    <3>2. QED  BY <1>2, <3>1
  <2>3. QED  BY <2>1, <2>2
<1> HIDE DEF new, less
<1>4. Tally(new)
  BY <1>1, <1>3, SameTally
<1>5. QED  BY <1>1, <1>4, TallyMoves

(* An aborted download has its last write behind it or no tally to keep. *)
LEMMA WokenTally ==
    ASSUME Inv, Tallied, NEW d \in Downloads
    PROVE  Tally(Woken(d))
<1>1. Shape(dl[d], dl[d].sent, dl[d].starts, dl[d].out) /\ Tally(dl[d])
  BY DEF Inv, One, Tallied
<1>2. CASE dl[d].pc = "end"
  <2> DEFINE y == [dl[d] EXCEPT !.aborted = TRUE, !.waiting = FALSE]
  <2>1. Woken(d) = y
    BY <1>1, <1>2 DEF Woken, Stopped, Shape
  <2>2. y.pc = "end" /\ y.sent = dl[d].sent
    BY <1>1, <1>2 DEF Shape
  <2> HIDE DEF y
  <2>3. QED  BY <1>1, <1>2, <2>1, <2>2 DEF Tally
<1>3. CASE dl[d].pc # "end"
  <2>1. Stopped(d) = [NoDownload EXCEPT !.pc = "stop", !.aborted = TRUE, !.waiting = dl[d].waiting]
    BY <1>3 DEF Stopped
  <2>2. Woken(d).pc = "stop"
    BY <2>1, BlankBounded DEF Woken, Shape
  <2>3. QED  BY <2>2 DEF Tally
<1>4. QED  BY <1>2, <1>3

LEMMA EndTally ==
    ASSUME Inv, Tallied, NEW d \in Downloads, NEW pc \in {"done", "failed", "cancelled"}, End(d, pc),
           pc = "done" => dl[d].pc = "end"
    PROVE  Tallied'
<1>1. PICK new : /\ dl' = [dl EXCEPT ![d] = new]
                 /\ new = IF pc = "done" THEN [NoDownload EXCEPT !.pc = pc, !.out = dl[d].out, !.sent = dl[d].sent]
                          ELSE [NoDownload EXCEPT !.pc = pc]
  BY DEF End
<1>2. new.pc = pc /\ (pc = "done" => new.sent = dl[d].sent)
  BY <1>1, BlankBounded DEF Shape
<1>3. pc = "done" => dl[d].sent = SizeOf(Entries)
  BY DEF Tallied, Tally
<1>4. Tally(new)
  BY <1>2, <1>3 DEF Tally
<1>5. QED  BY <1>1, <1>4, TallyMoves

LEMMA ArriveTally ==
    ASSUME Inv, Tallied, NEW d \in Downloads, Arrive(d)
    PROVE  Tallied'
<1> DEFINE x == dl[d]
           new == [x EXCEPT !.pc = "open"]
<1>1. /\ x.pc = "idle" /\ Shape(x, x.sent, x.starts, x.out) /\ Tally(x)
      /\ running \in Downloads \cup {0}
      /\ dl = [c \in Downloads |-> dl[c]] /\ (running # 0 => Live(running))
  BY DEF Arrive, Inv, OnePerModel, One, Tallied
<1>2. d # running
  BY <1>1, NoZero DEF Live, Ended
<1>3. /\ new.pc = "open" /\ new.i = x.i /\ new.sent = x.sent /\ new.starts = x.starts /\ new.out = x.out
  BY <1>1 DEF Shape
<1>4. \A c \in Downloads :
        dl'[c] = IF c = d THEN new ELSE IF c = running THEN Woken(running) ELSE dl[c]
  BY <1>1, <1>2, NoZero DEF Arrive
<1> HIDE DEF new
<1>5. Tally(new)
  BY <1>1, <1>3 DEF Tally, Fresh
<1>6. running # 0 => Tally(Woken(running))
  BY <1>1, WokenTally
<1>7. \A c \in Downloads : Tally(dl'[c])
  BY <1>4, <1>5, <1>6, NoZero DEF Tallied
<1>8. QED  BY <1>7 DEF Tallied

LEMMA InitTally == Init => Tallied
<1> SUFFICES ASSUME Init, NEW d \in Downloads PROVE Tally(dl[d])
  BY DEF Tallied
<1>1. dl[d] = NoDownload
  BY DEF Init
<1>2. /\ dl[d].pc = "idle" /\ dl[d].i = 1 /\ dl[d].sent = 0 /\ dl[d].starts = <<>>
      /\ \A j \in DOMAIN Files : dl[d].out[j] = <<>>
  BY <1>1 DEF NoDownload
<1>3. Starts(1 - 1) = <<>> /\ Offset(1 - 1) = 0
  BY OffsetIs DEF Starts
<1>4. QED  BY <1>2, <1>3 DEF Tally, Fresh

LEMMA NextTally == Inv /\ Flow /\ Tallied /\ [Next]_vars => Tallied'
<1> SUFFICES ASSUME Inv, Flow, Tallied, [Next]_vars PROVE Tallied'
  OBVIOUS
<1>1. CASE PageCancel
  <2>1. running \in Downloads
    BY <1>1 DEF PageCancel, Inv
  <2>2. QED  BY <1>1, <2>1, WokenTally, TallyMoves DEF PageCancel
<1>2. ASSUME NEW d \in Downloads, BrowserCancel(d) PROVE Tallied'
  BY <1>2, WokenTally, TallyMoves DEF BrowserCancel
<1>3. ASSUME NEW d \in Downloads, Work(d) PROVE Tallied'
  <2>1. CASE Done(d)
    BY <2>1, EndTally DEF Done, Ready
  <2>2. CASE Cancelled(d) \/ Fails(d)
    BY <2>2, EndTally DEF Cancelled, Fails
  <2>3. QED
    BY <1>3, <2>1, <2>2, OpenTally, HeaderTally, DataTally, DescriptorTally, CheckedTally,
       AddTailTally, FinishTally DEF Work
<1>4. CASE UNCHANGED dl
  BY <1>4 DEF Tallied
<1>5. ASSUME NEW d \in Downloads, Fetching(d) PROVE Tallied'
  <2>1. UNCHANGED dl
    BY <1>5 DEF Fetching, Fetch, GiveUp, Connect, Chunk, Over, Break, Set
  <2>2. QED  BY <1>4, <2>1
<1>6. QED  BY <1>1, <1>2, <1>3, <1>4, <1>5, ArriveTally, TakeTally DEF Next, vars

(* The length declared before the first byte is the number of bytes written,   *)
(* for any files and names, also where sizes, offsets or the number of entries *)
(* pass the limits of the classic fields: sizeOf mirrors add and finish        *)
(* (sizeOf, add and finish of zip.mjs).                                        *)
THEOREM ZipLengthKept == Spec => []LengthKept
<1>1. Tallied => LengthKept
  BY DEF Tallied, Tally, LengthKept
<1>2. QED  BY InitInv, NextInv, InitFlow, NextFlow, InitTally, NextTally, <1>1, PTL DEF Spec
=============================================================================
