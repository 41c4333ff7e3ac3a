------------------------ MODULE VerifiedBytesProofs ------------------------
(***************************************************************************)
(* Theorems about the verifying edge: what a client can finish, what the   *)
(* cache answers from, how many fetches of a file run and which holders    *)
(* they read, for any number of requests, holders, restarts, any size and  *)
(* any HOLD but zero.                                                      *)
(***************************************************************************)
EXTENDS VerifiedBytes, SequenceTheorems, WellFoundedInduction, TLAPS

(* The pcs at which a request may be the one behind inflight. *)
Fetching == {"stat", "hash", "rm", "open", "read", "drain"}
Reading == {"open", "read", "drain"}

(* A request's record.  Of the list of holders nothing is needed. *)
Records(lists) ==
    [pc : Ended \cup Working, ask : Asks, list : lists,
     n : 0 .. Size, good : 0 .. Size, started : BOOLEAN,
     from : Nat, len : 0 .. Size, got : 0 .. Size,
     right : BOOLEAN, here : BOOLEAN]
Local(q) == q \in Records({q.list})

(* What its client has been told and sent: nothing before the headers, less *)
(* than the whole file while the fetch streams, and in the end the file.    *)
Sent(q) ==
    /\ q.started => q.pc \in {"read", "drain"} /\ q.ask = Whole
    /\ q.pc \in Working =>
          /\ q.from = 0
          /\ IF q.started THEN q.len = Size /\ q.got < Size ELSE q.len = 0 /\ q.got = 0
    /\ q.len > 0 /\ q.got = q.len =>
          q.right /\ q.from .. q.from + q.len - 1 = Wanted(q.ask)

Own(q) == Local(q) /\ Sent(q)

(* What the requests share. *)
Shared ==
    /\ file \in {"none", "right", "rotten", "short"}
    /\ checked \in BOOLEAN
    /\ inflight \in Requests \cup {None}
    /\ CheckedIsRight
    /\ OneFetch
    /\ inflight # None => rq[inflight].pc \in Fetching
    /\ \A r \in Requests : rq[r].pc = "send" => checked

Inv ==
    /\ rq = [r \in Requests |-> rq[r]]
    /\ \A r \in Requests : Own(rq[r])
    /\ Shared

-----------------------------------------------------------------------------
(* sendFile's range is the part the client asked for. *)
LEMMA RangeIsWanted ==
    ASSUME NEW ask \in Asks, FirstOf(ask) <= LastOf(ask), FirstOf(ask) < Size
    PROVE  /\ FirstOf(ask) \in Nat /\ LastOf(ask) \in 0 .. Size - 1
           /\ FirstOf(ask) .. LastOf(ask) = Wanted(ask)
<1> USE VerifiedAssumption
<1>1. CASE ask \in Ranges
  <2>1. ask \in [type : {"span", "from", "last"}, a : Nat, b : Nat]
    BY <1>1
  <2>2. CASE ask.type = "span"
    BY <2>1, <2>2 DEF FirstOf, LastOf, Wanted
  <2>3. CASE ask.type = "from"
    BY <2>1, <2>3 DEF FirstOf, LastOf, Wanted
  <2>4. CASE ask.type = "last"
    BY <2>1, <2>4 DEF FirstOf, LastOf, Wanted
  <2> QED
    BY <2>1, <2>2, <2>3, <2>4
<1>2. CASE ask \in {Whole, Head_}
  BY <1>2 DEF FirstOf, LastOf, Wanted, Whole, Head_
<1> QED
  BY <1>1, <1>2 DEF Asks

LEMMA RangeIsInt ==
    ASSUME NEW ask \in Asks
    PROVE  FirstOf(ask) \in Int /\ LastOf(ask) \in Int /\ Size \in Nat
<1> USE VerifiedAssumption
<1>1. CASE ask \in Ranges
  <2>1. ask \in [type : {"span", "from", "last"}, a : Nat, b : Nat]
    BY <1>1
  <2> QED
    BY <2>1 DEF FirstOf, LastOf
<1>2. CASE ask \in {Whole, Head_}
  BY <1>2 DEF FirstOf, LastOf, Whole, Head_
<1> QED
  BY <1>1, <1>2 DEF Asks

(* One request moves on and starts a fetch or none. *)
LEMMA Moves ==
    ASSUME Inv, NEW r \in Requests, NEW new, Own(new), Set(r, new),
           file' \in {"none", "right", "rotten", "short"}, checked' \in BOOLEAN,
           checked => checked', checked' => file' \in {"none", "right"},
           \/ inflight' = inflight
           \/ inflight = None /\ inflight' = r,
           new.pc \in Reading => inflight' = r,
           new.pc = "wait" => inflight' \notin {None, r},
           inflight' = r => new.pc \in Fetching,
           new.pc = "send" => checked'
    PROVE  Inv'
<1> USE VerifiedAssumption
<1>1. rq' = [rq EXCEPT ![r] = new]
  BY DEF Set
<1>2. /\ rq' = [q \in Requests |-> IF q = r THEN new ELSE rq[q]]
      /\ \A q \in Requests : rq'[q] = IF q = r THEN new ELSE rq[q]
  BY <1>1 DEF Inv
<1>3. (\A q \in Requests : Own(rq[q]))'
  BY <1>2 DEF Inv
<1>4. (rq = [q \in Requests |-> rq[q]])'
  BY <1>2
<1>5. Shared'
  BY <1>2 DEF Inv, Shared, CheckedIsRight, OneFetch, Reading, Fetching
<1> QED
  BY <1>3, <1>4, <1>5 DEF Inv

(* A request that has been refused or cut is in order if it was before. *)
LEMMA EndsInOrder ==
    ASSUME NEW q, Own(q), NEW pc \in {"finished", "refused", "cut"},
           q.len > 0 => q.got < q.len
    PROVE  Own(Ends(q, pc)) /\ Ends(q, pc).pc = pc
<1> 0 \in 0 .. Size /\ Size \in Nat
  BY VerifiedAssumption
<1>1. Local(q) /\ Sent(q)
  BY DEF Own
<1>2. /\ Ends(q, pc).pc = pc /\ Ends(q, pc).ask = q.ask /\ Ends(q, pc).list = <<>>
      /\ Ends(q, pc).n = 0 /\ Ends(q, pc).good = 0 /\ Ends(q, pc).started = FALSE
      /\ Ends(q, pc).from = q.from /\ Ends(q, pc).len = q.len /\ Ends(q, pc).got = q.got
      /\ Ends(q, pc).right = q.right /\ Ends(q, pc).here = TRUE
  BY <1>1 DEF Ends, Local, Records
<1>3. Local(Ends(q, pc))
  <2>1. q \in Records({q.list})
    BY <1>1 DEF Local
  <2>2. Ends(q, pc) \in Records({<<>>})
    BY <2>1 DEF Ends, Records, Ended
  <2> QED
    BY <1>2, <2>2 DEF Local
<1>4. Sent(Ends(q, pc))
  BY <1>1, <1>2 DEF Sent, Local, Records, Ended, Working
<1> QED
  BY <1>2, <1>3, <1>4 DEF Own

(* The fetch ends: everyone who waited for it is told. *)
LEMMA Settles ==
    ASSUME Inv, NEW r \in Requests, NEW mine, NEW good \in BOOLEAN, Own(mine),
           Settle(r, mine, good), inflight = r,
           file' \in {"none", "right", "rotten", "short"}, checked' \in BOOLEAN,
           checked => checked', checked' => file' \in {"none", "right"},
           good => checked', mine.pc = "send" => checked',
           mine.pc \notin Reading \cup {"wait"}
    PROVE  Inv'
<1> USE VerifiedAssumption
<1> DEFINE other(q) == IF ~At(q, "wait") THEN rq[q]
                       ELSE IF good THEN [rq[q] EXCEPT !.pc = "send"] ELSE Refused(q)
<1>1. /\ inflight' = None
      /\ rq' = [q \in Requests |-> IF q = r THEN mine ELSE other(q)]
  BY DEF Settle
<1>2. \A q \in Requests : rq'[q] = IF q = r THEN mine ELSE other(q)
  BY <1>1
<1>3. ASSUME NEW q \in Requests, q # r
      PROVE  /\ Own(other(q)) /\ other(q).pc \notin Reading \cup {"wait"}
             /\ other(q).pc = "send" => checked'
  <2>1. Own(rq[q]) /\ rq[q].pc \notin Reading /\ (rq[q].pc = "send" => checked)
    BY <1>3 DEF Inv, Shared, OneFetch, Reading
  <2>2. CASE ~At(q, "wait")
    BY <2>1, <2>2 DEF At
  <2>3. CASE At(q, "wait") /\ good
    <3>1. rq[q].pc = "wait" /\ rq[q].started = FALSE /\ rq[q].len = 0
      BY <2>1, <2>3 DEF At, Own, Local, Records, Sent, Working
    <3> DEFINE new == [rq[q] EXCEPT !.pc = "send"]
    <3>2. /\ new.pc = "send" /\ new.ask = rq[q].ask /\ new.list = rq[q].list
          /\ new.started = FALSE /\ new.from = rq[q].from /\ new.len = rq[q].len
          /\ new.got = rq[q].got /\ new.right = rq[q].right
      BY <2>1, <3>1 DEF Own, Local, Records
    <3>3. Local(new)
      BY <2>1, <3>2 DEF Own, Local, Records, Working
    <3>4. Sent(new)
      BY <2>1, <3>1, <3>2 DEF Own, Sent, Working
    <3> QED
      BY <2>3, <3>2, <3>3, <3>4 DEF Own, Reading
  <2>4. CASE At(q, "wait") /\ ~good
    <3>1. rq[q].len = 0
      BY <2>1, <2>4 DEF At, Own, Local, Records, Sent, Working
    <3>2. Own(Refused(q)) /\ Refused(q).pc = "refused"
      BY <2>1, <3>1, EndsInOrder DEF Refused
    <3> QED
      BY <2>4, <3>2 DEF Reading
  <2> QED
    BY <2>2, <2>3, <2>4
<1> HIDE DEF other
<1>4. (\A q \in Requests : Own(rq[q]))'
  BY <1>2, <1>3
<1>5. (rq = [q \in Requests |-> rq[q]])'
  BY <1>1
<1>6. \A q \in Requests : /\ rq'[q].pc \notin Reading \cup {"wait"}
                          /\ rq'[q].pc = "send" => checked'
  BY <1>2, <1>3
<1>7. Shared'
  BY <1>1, <1>6 DEF Shared, CheckedIsRight, OneFetch, Reading
<1> QED
  BY <1>4, <1>5, <1>7 DEF Inv

-----------------------------------------------------------------------------
(* The new local states that the actions build. *)

(* A request that has sent nothing goes to another step. *)
LEMMA Onward ==
    ASSUME NEW q, Own(q), q.pc \in Working, ~q.started,
           NEW pc \in Working, NEW list
    PROVE  /\ Own([q EXCEPT !.pc = pc])
           /\ Own([q EXCEPT !.pc = pc, !.list = list])
<1>1. Local(q) /\ Sent(q)
  BY DEF Own
<1> DEFINE new == [q EXCEPT !.pc = pc]
           newer == [q EXCEPT !.pc = pc, !.list = list]
<1>2. /\ new.pc = pc /\ new.ask = q.ask /\ new.list = q.list
      /\ new.started = q.started /\ new.from = q.from /\ new.len = q.len
      /\ new.got = q.got /\ new.right = q.right
  BY <1>1 DEF Local, Records
<1>3. /\ newer.pc = pc /\ newer.ask = q.ask /\ newer.list = list
      /\ newer.started = q.started /\ newer.from = q.from /\ newer.len = q.len
      /\ newer.got = q.got /\ newer.right = q.right
  BY <1>1 DEF Local, Records
<1>4. Local(new)
  BY <1>1, <1>2 DEF Local, Records
<1>5. newer \in Records({list})
  BY <1>1 DEF Local, Records
<1>6. Local(newer)
  BY <1>3, <1>5 DEF Local
<1>7. Sent(new)
  BY <1>1, <1>2 DEF Sent, Working
<1>8. Sent(newer)
  BY <1>1, <1>3 DEF Sent, Working
<1> QED
  BY <1>4, <1>6, <1>7, <1>8 DEF Own

(* Before the headers, and once a holder has failed, a request may end. *)
LEMMA Short ==
    ASSUME NEW q, Own(q), q.pc \in Working
    PROVE  q.len > 0 => q.got < q.len
BY VerifiedAssumption DEF Own, Local, Records, Sent, Working

LEMMA HitKeeps ==
    ASSUME Inv, NEW r \in Requests, rq[r].pc \in {"stat", "hash"}, Hit(r),
           file' \in {"none", "right", "rotten", "short"}, checked' = TRUE,
           file' \in {"none", "right"}
    PROVE  Inv'
<1> DEFINE new == [rq[r] EXCEPT !.pc = "send"]
<1>1. Own(rq[r]) /\ rq[r].pc \in Working /\ ~rq[r].started
  BY DEF Inv, Own, Sent, Working
<1>2. Own(new) /\ new.pc = "send"
  <2>1. Own(new)
    BY <1>1, Onward DEF Working
  <2> QED
    BY <1>1, <2>1 DEF Own, Local, Records
<1> HIDE DEF new
<1>3. CASE inflight = r
  <2>1. Settle(r, new, TRUE)
    BY <1>3 DEF Hit, new
  <2> QED
    BY <1>2, <1>3, <2>1, Settles DEF Reading
<1>4. CASE inflight # r
  <2>1. Set(r, new) /\ inflight' = inflight
    BY <1>4 DEF Hit, new
  <2> QED
    BY <1>2, <1>4, <2>1, Moves DEF Reading
<1> QED
  BY <1>3, <1>4

LEMMA MissKeeps ==
    ASSUME Inv, NEW r \in Requests, rq[r].pc \in {"stat", "rm"}, Miss(r),
           file' \in {"none", "right", "rotten", "short"}, checked' = checked,
           checked' => file' \in {"none", "right"}
    PROVE  Inv'
<1>1. Own(rq[r]) /\ rq[r].pc \in Working /\ ~rq[r].started
  BY DEF Inv, Own, Sent, Working
<1>2. ASSUME NEW pc \in Working, NEW list
      PROVE  /\ Own([rq[r] EXCEPT !.pc = pc]) /\ [rq[r] EXCEPT !.pc = pc].pc = pc
             /\ Own([rq[r] EXCEPT !.pc = pc, !.list = list])
             /\ [rq[r] EXCEPT !.pc = pc, !.list = list].pc = pc
  <2>1. Own([rq[r] EXCEPT !.pc = pc]) /\ Own([rq[r] EXCEPT !.pc = pc, !.list = list])
    BY <1>1, <1>2, Onward
  <2>2. Local(rq[r])
    BY <1>1 DEF Own
  <2> QED
    BY <2>1, <2>2 DEF Local, Records
<1>3. /\ checked \in BOOLEAN
      /\ inflight \in Requests \cup {None} /\ None \notin Requests
  BY VerifiedAssumption DEF Inv, Shared
<1>4. CASE inflight = r
  <2>1. Set(r, [rq[r] EXCEPT !.pc = "open", !.list = Trusted(r)]) /\ inflight' = inflight
    BY <1>4 DEF Miss
  <2> QED
    BY <1>2, <1>3, <1>4, <2>1, Moves DEF Working, Reading, Fetching
<1>5. CASE inflight # r /\ rq[r].ask = Head_
  <2>0. Whole # Head_
    BY DEF Whole, Head_
  <2>1. Set(r, Answered(r)) /\ inflight' = inflight
    BY <1>5, <2>0 DEF Miss
  <2>2. Own(Answered(r)) /\ Answered(r).pc = "finished"
    BY <1>1, Short, EndsInOrder DEF Answered
  <2> QED
    BY <1>3, <1>5, <2>1, <2>2, Moves DEF Reading
<1>6. CASE inflight # r /\ rq[r].ask # Head_ /\ inflight # None
  <2>1. Set(r, [rq[r] EXCEPT !.pc = "wait", !.list = <<>>]) /\ inflight' = inflight
    BY <1>6 DEF Miss
  <2> QED
    BY <1>2, <1>3, <1>6, <2>1, Moves DEF Working, Reading
<1>7. CASE rq[r].ask \notin {Head_, Whole} /\ inflight = None
  <2>1. Set(r, [rq[r] EXCEPT !.pc = "stat"]) /\ inflight' = r
    BY <1>3, <1>7 DEF Miss
  <2> QED
    BY <1>2, <1>3, <1>7, <2>1, Moves DEF Working, Reading, Fetching
<1>8. CASE rq[r].ask = Whole /\ inflight = None
  <2>0. Whole # Head_
    BY DEF Whole, Head_
  <2>1. Set(r, [rq[r] EXCEPT !.pc = "open", !.list = Trusted(r)]) /\ inflight' = r
    BY <1>3, <1>8, <2>0 DEF Miss
  <2> QED
    BY <1>2, <1>3, <1>8, <2>1, Moves DEF Working, Reading, Fetching
<1> QED
  BY <1>3, <1>4, <1>5, <1>6, <1>7, <1>8

(* A holder failed: the connection is cut or the next one is tried. *)
LEMMA FailedKeeps ==
    ASSUME Inv, NEW r \in Requests, rq[r].pc \in {"open", "read"}, NEW now, Own(now),
           now.pc \in {"open", "read"}, rq[r].started => now.started, Failed(r, now),
           file' = file, checked' = checked
    PROVE  Inv'
<1>1. inflight = r /\ now.pc \in Working
  BY DEF Inv, Shared, OneFetch, Working
<1>2. /\ file \in {"none", "right", "rotten", "short"} /\ checked \in BOOLEAN
      /\ checked => file \in {"none", "right"}
  BY DEF Inv, Shared, CheckedIsRight
<1>3. CASE now.started
  <2>1. Settle(r, Ends(now, "cut"), FALSE)
    BY <1>3 DEF Failed
  <2>2. Own(Ends(now, "cut")) /\ Ends(now, "cut").pc = "cut"
    BY <1>1, Short, EndsInOrder
  <2> QED
    BY <1>1, <1>2, <2>1, <2>2, Settles DEF Reading
<1>4. CASE ~now.started
  <2> DEFINE new == [now EXCEPT !.pc = "open", !.list = Tail(@)]
  <2>1. Set(r, new) /\ inflight' = inflight
    BY <1>4 DEF Failed
  <2>2. Own(new)
    BY <1>1, <1>4, Onward DEF Working
  <2>3. new.pc = "open"
    BY DEF Own, Local, Records
  <2> QED
    BY <1>1, <1>2, <2>1, <2>2, <2>3, Moves DEF Reading, Fetching
<1> QED
  BY <1>3, <1>4

-----------------------------------------------------------------------------
(* The actions. *)

(* A request that has just arrived. *)
LEMMA Fresh ==
    ASSUME NEW pc \in {"stat", "wait", "finished"}, NEW ask \in Asks, NEW l
    PROVE  /\ Own([Idle EXCEPT !.pc = pc, !.ask = ask, !.list = l])
           /\ [Idle EXCEPT !.pc = pc, !.ask = ask, !.list = l].pc = pc
           /\ Own([Idle EXCEPT !.pc = pc, !.ask = ask])
           /\ [Idle EXCEPT !.pc = pc, !.ask = ask].pc = pc
<1> 0 \in 0 .. Size
  BY VerifiedAssumption
<1>1. PICK q : q = Idle
  OBVIOUS
<1>2. /\ q.started = FALSE /\ q.from = 0 /\ q.len = 0 /\ q.got = 0
  BY <1>1 DEF Idle
<1>3. q \in Records({q.list})
  BY <1>1 DEF Idle, Records, Ended, Asks
<1> DEFINE new == [q EXCEPT !.pc = pc, !.ask = ask]
           newer == [q EXCEPT !.pc = pc, !.ask = ask, !.list = l]
<1>4. /\ new.pc = pc /\ new.list = q.list /\ new.started = FALSE
      /\ new.from = 0 /\ new.len = 0 /\ new.got = 0
  BY <1>2, <1>3 DEF Records
<1>5. /\ newer.pc = pc /\ newer.list = l /\ newer.started = FALSE
      /\ newer.from = 0 /\ newer.len = 0 /\ newer.got = 0
  BY <1>2, <1>3 DEF Records
<1>6. Local(new)
  <2>1. new \in Records({q.list})
    BY <1>3 DEF Records, Ended, Working
  <2> QED
    BY <1>4, <2>1 DEF Local
<1>7. Local(newer)
  <2>1. newer \in Records({l})
    BY <1>3 DEF Records, Ended, Working
  <2> QED
    BY <1>5, <2>1 DEF Local
<1>8. Sent(new)
  BY <1>4 DEF Sent
<1>9. Sent(newer)
  BY <1>5 DEF Sent
<1> QED
  BY <1>1, <1>4, <1>5, <1>6, <1>7, <1>8, <1>9 DEF Own

LEMMA ArriveKeeps ==
    ASSUME Inv, NEW r \in Requests, NEW ask \in Asks, NEW list, Arrive(r, ask, list)
    PROVE  Inv'
<1>1. /\ inflight \in Requests \cup {None} /\ None \notin Requests
      /\ 0 \in 0 .. Size /\ 0 \in Nat /\ inflight # r
      /\ file' = file /\ checked' = checked /\ inflight' = inflight
  BY VerifiedAssumption DEF Inv, Shared, Arrive, Ended, Fetching
<1>2. CASE inflight = None
  <2>0. PICK l : l = IF ask = Head_ THEN <<>> ELSE list
    OBVIOUS
  <2> DEFINE new == [Idle EXCEPT !.pc = "stat", !.ask = ask, !.list = l]
  <2>1. Set(r, new)
    BY <1>2, <2>0 DEF Arrive
  <2>2. "stat" \in {"stat", "wait", "finished"}
    OBVIOUS
  <2>3. Own([Idle EXCEPT !.pc = "stat", !.ask = ask, !.list = l])
    BY ONLY <2>2, ask \in Asks, Fresh, Zenon
  <2>4. [Idle EXCEPT !.pc = "stat", !.ask = ask, !.list = l].pc = "stat"
    BY DEF Idle
  <2> QED
    BY <1>1, <1>2, <2>1, <2>3, <2>4, Moves DEF Reading, Inv, Shared, CheckedIsRight
<1>3. CASE inflight # None /\ ask = Head_
  <2> DEFINE new == [Idle EXCEPT !.pc = "finished", !.ask = ask]
  <2>1. Set(r, new)
    BY <1>3 DEF Arrive
  <2>2. Own(new) /\ new.pc = "finished"
    BY Fresh
  <2> QED
    BY <1>1, <1>3, <2>1, <2>2, Moves DEF Reading, Inv, Shared, CheckedIsRight
<1>4. CASE inflight # None /\ ask # Head_
  <2> DEFINE new == [Idle EXCEPT !.pc = "wait", !.ask = ask]
  <2>1. Set(r, new)
    BY <1>4 DEF Arrive
  <2>2. Own(new) /\ new.pc = "wait"
    BY Fresh
  <2> QED
    BY <1>1, <1>4, <2>1, <2>2, Moves DEF Reading, Inv, Shared, CheckedIsRight
<1> QED
  BY <1>2, <1>3, <1>4

LEMMA StatKeeps ==
    ASSUME Inv, NEW r \in Requests, Stat(r)
    PROVE  Inv'
<1>1. /\ rq[r].pc = "stat" /\ file' = file /\ checked' = checked
      /\ file \in {"none", "right", "rotten", "short"} /\ checked \in BOOLEAN
      /\ checked => file \in {"none", "right"}
  BY DEF Stat, At, Inv, Shared, CheckedIsRight
<1>2. CASE file \in {"none", "short"}
  <2>1. Miss(r)
    BY <1>2 DEF Stat
  <2> QED
    BY <1>1, <2>1, MissKeeps
<1>3. CASE file \in {"right", "rotten"} /\ checked
  <2>1. Hit(r)
    BY <1>3 DEF Stat
  <2> QED
    BY <1>1, <1>3, <2>1, HitKeeps
<1>4. CASE file \in {"right", "rotten"} /\ ~checked
  <2> DEFINE new == [rq[r] EXCEPT !.pc = "hash"]
  <2>1. Set(r, new) /\ inflight' = inflight
    BY <1>4 DEF Stat
  <2>2. Own(rq[r]) /\ ~rq[r].started
    BY <1>1 DEF Inv, Own, Sent
  <2>3. Own(new)
    BY <1>1, <2>2, Onward DEF Working
  <2>4. new.pc = "hash"
    BY <2>2 DEF Own, Local, Records
  <2>5. inflight \in Requests \cup {None}
    BY DEF Inv, Shared
  <2> QED
    BY <1>1, <2>1, <2>3, <2>4, <2>5, Moves DEF Reading, Fetching
<1> QED
  BY <1>1, <1>2, <1>3, <1>4

LEMMA HashKeeps ==
    ASSUME Inv, NEW r \in Requests, Hash(r)
    PROVE  Inv'
<1>1. /\ rq[r].pc = "hash" /\ file' = file /\ checked' = (checked \/ file = "right")
      /\ file \in {"none", "right", "rotten", "short"} /\ checked \in BOOLEAN
      /\ checked => file \in {"none", "right"}
  BY DEF Hash, At, Inv, Shared, CheckedIsRight
<1>2. Own(rq[r]) /\ ~rq[r].started /\ rq[r].pc \in Working
  BY <1>1 DEF Inv, Own, Sent, Working
<1>3. CASE file = "right"
  <2>1. Hit(r)
    BY <1>3 DEF Hash
  <2> QED
    BY <1>1, <1>3, <2>1, HitKeeps
<1>4. CASE file \in {"rotten", "short"}
  <2> DEFINE new == [rq[r] EXCEPT !.pc = "rm"]
  <2>1. Set(r, new) /\ inflight' = inflight
    BY <1>4 DEF Hash
  <2>2. Own(new)
    BY <1>2, Onward DEF Working
  <2>3. new.pc = "rm"
    BY <1>2 DEF Own, Local, Records
  <2> QED
    BY <1>1, <1>4, <2>1, <2>2, <2>3, Moves DEF Reading, Fetching
<1>5. CASE file = "none"
  <2>1. Own(Refused(r)) /\ Refused(r).pc = "refused"
    BY <1>2, Short, EndsInOrder DEF Refused
  <2>2. CASE inflight = r
    <3>1. Settle(r, Refused(r), FALSE)
      BY <1>5, <2>2 DEF Hash
    <3> QED
      BY <1>1, <1>5, <2>1, <2>2, <3>1, Settles DEF Reading
  <2>3. CASE inflight # r
    <3>1. Set(r, Refused(r)) /\ inflight' = inflight
      BY <1>5, <2>3 DEF Hash
    <3> QED
      BY <1>1, <1>5, <2>1, <2>3, <3>1, Moves DEF Reading
  <2> QED
    BY <2>2, <2>3
<1> QED
  BY <1>1, <1>3, <1>4, <1>5

LEMMA RmKeeps ==
    ASSUME Inv, NEW r \in Requests, Rm(r)
    PROVE  Inv'
BY MissKeeps DEF Rm, At, Inv, Shared

LEMMA OpenKeeps ==
    ASSUME Inv, NEW r \in Requests, Open(r)
    PROVE  Inv'
<1>1. rq[r].pc = "open" /\ file' = file /\ checked' = checked
  BY DEF Open, At
<1>2. Own(rq[r]) /\ ~rq[r].started /\ rq[r].pc \in Working
  BY <1>1 DEF Inv, Own, Sent, Working
<1>3. CASE Failed(r, rq[r])
  BY <1>1, <1>2, <1>3, FailedKeeps
<1>4. CASE Set(r, [rq[r] EXCEPT !.pc = "read", !.n = 0, !.good = 0]) /\ inflight' = inflight
  <2> 0 \in 0 .. Size
    BY VerifiedAssumption
  <2> DEFINE q == [rq[r] EXCEPT !.pc = "read"]
             new == [q EXCEPT !.n = 0, !.good = 0]
  <2>1. Own(q) /\ q.pc = "read"
    <3>1. Own(q)
      BY <1>2, Onward DEF Working
    <3> QED
      BY <1>2, <3>1 DEF Own, Local, Records
  <2> HIDE DEF q
  <2>2. /\ new.pc = q.pc /\ new.ask = q.ask /\ new.list = q.list
        /\ new.started = q.started /\ new.from = q.from /\ new.len = q.len
        /\ new.got = q.got /\ new.right = q.right
    BY <2>1 DEF Own, Local, Records
  <2>3. Local(new)
    <3>1. q \in Records({q.list})
      BY <2>1 DEF Own, Local
    <3>2. new \in Records({q.list})
      BY <3>1 DEF Records
    <3> QED
      BY <2>2, <3>2 DEF Local
  <2>4. Sent(new)
    BY <2>1, <2>2 DEF Own, Sent
  <2>5. [rq[r] EXCEPT !.pc = "read", !.n = 0, !.good = 0] = new
    BY <1>2 DEF Own, Local, Records, q
  <2>6. Set(r, new) /\ Own(new) /\ new.pc = "read" /\ inflight' = inflight
    BY <1>4, <2>1, <2>2, <2>3, <2>4, <2>5 DEF Own
  <2>7. inflight = r
    BY <1>1 DEF Inv, Shared, OneFetch
  <2> HIDE DEF new
  <2> QED
    BY <1>1, <2>6, <2>7, Moves DEF Inv, Shared, CheckedIsRight, Reading, Fetching
<1> QED
  BY <1>3, <1>4 DEF Open

LEMMA ExhaustedKeeps ==
    ASSUME Inv, NEW r \in Requests, Exhausted(r)
    PROVE  Inv'
<1>1. /\ rq[r].pc = "open" /\ Own(rq[r]) /\ inflight = r
      /\ file' = file /\ checked' = checked /\ Settle(r, Refused(r), FALSE)
  BY DEF Exhausted, At, Inv, Shared, OneFetch
<1>2. Own(Refused(r)) /\ Refused(r).pc = "refused"
  BY <1>1, Short, EndsInOrder DEF Refused, Working
<1> QED
  BY <1>1, <1>2, Settles DEF Inv, Shared, CheckedIsRight, Reading

LEMMA BreakKeeps ==
    ASSUME Inv, NEW r \in Requests, Break(r)
    PROVE  Inv'
BY FailedKeeps DEF Break, At, Inv

LEMMA DrainKeeps ==
    ASSUME Inv, NEW r \in Requests, Drain(r)
    PROVE  Inv'
<1> DEFINE new == [rq[r] EXCEPT !.pc = "read"]
<1>1. /\ rq[r].pc = "drain" /\ Own(rq[r]) /\ inflight = r /\ Set(r, new)
      /\ file' = file /\ checked' = checked /\ inflight' = inflight
  BY DEF Drain, At, Inv, Shared, OneFetch
<1>2. /\ new.pc = "read" /\ new.ask = rq[r].ask /\ new.list = rq[r].list
      /\ new.started = rq[r].started /\ new.from = rq[r].from /\ new.len = rq[r].len
      /\ new.got = rq[r].got /\ new.right = rq[r].right
  BY <1>1 DEF Own, Local, Records
<1>3. Local(new)
  BY <1>1, <1>2 DEF Own, Local, Records, Working
<1>4. Sent(new)
  BY <1>1, <1>2 DEF Own, Sent, Working
<1> HIDE DEF new
<1> QED
  BY <1>1, <1>2, <1>3, <1>4, Moves DEF Inv, Shared, CheckedIsRight, Reading, Fetching, Own

LEMMA GoneKeeps ==
    ASSUME Inv, NEW r \in Requests, ClientGone(r)
    PROVE  Inv'
<1> DEFINE new == [rq[r] EXCEPT !.here = FALSE]
<1>1. /\ Own(rq[r]) /\ Set(r, new) /\ rq[r].pc \in Working
      /\ file' = file /\ checked' = checked /\ inflight' = inflight
  BY DEF ClientGone, Inv
<1>2. /\ new.pc = rq[r].pc /\ new.ask = rq[r].ask /\ new.list = rq[r].list
      /\ new.started = rq[r].started /\ new.from = rq[r].from /\ new.len = rq[r].len
      /\ new.got = rq[r].got /\ new.right = rq[r].right
  BY <1>1 DEF Own, Local, Records
<1>3. Local(new)
  BY <1>1, <1>2 DEF Own, Local, Records
<1>4. Sent(new)
  BY <1>1, <1>2 DEF Own, Sent
<1> HIDE DEF new
<1>5. /\ new.pc \in Reading => inflight = r
      /\ new.pc = "wait" => inflight \notin {None, r}
      /\ inflight = r => new.pc \in Fetching
      /\ new.pc = "send" => checked
  BY <1>2, VerifiedAssumption DEF Inv, Shared, OneFetch, Reading
<1>6. /\ file \in {"none", "right", "rotten", "short"} /\ checked \in BOOLEAN
      /\ checked => file \in {"none", "right"}
  BY DEF Inv, Shared, CheckedIsRight
<1> QED
  BY <1>1, <1>3, <1>4, <1>5, <1>6, Moves DEF Own

LEMMA RestartKeeps ==
    ASSUME Inv, Restart
    PROVE  Inv'
<1>1. /\ checked' = FALSE /\ inflight' = None
      /\ file' \in {"none", "right", "rotten", "short"}
  BY DEF Inv, Shared, Restart
<1>2. /\ rq' = [r \in Requests |-> IF rq[r].pc \in Working
                                   THEN Ends(rq[r], "cut") ELSE rq[r]]
      /\ \A r \in Requests : rq'[r] = IF rq[r].pc \in Working
                                       THEN Ends(rq[r], "cut") ELSE rq[r]
  BY DEF Restart
<1>3. ASSUME NEW r \in Requests
      PROVE  Own(rq'[r]) /\ rq'[r].pc \in Ended
  <2>1. Own(rq[r]) /\ rq[r].pc \in Ended \cup Working
    BY DEF Inv, Own, Local, Records
  <2>2. CASE rq[r].pc \in Working
    BY <1>2, <2>1, <2>2, Short, EndsInOrder DEF Ended
  <2>3. CASE rq[r].pc \notin Working
    BY <1>2, <2>1, <2>3
  <2> QED
    BY <2>2, <2>3
<1>4. Shared'
  BY <1>1, <1>3 DEF Shared, CheckedIsRight, OneFetch, Ended
<1> QED
  BY <1>2, <1>3, <1>4 DEF Inv

(* One unit lands, and in a streaming fetch one more than HOLD goes out. *)
LEMMA LandedInOrder ==
    ASSUME NEW r \in Requests, Own(rq[r]), rq[r].pc = "read", ~TooMuch(r),
           NEW right \in BOOLEAN
    PROVE  LET q == Landed(r, right)
           IN  /\ Own(q) /\ q.pc = "read" /\ q.started = rq[r].started
               /\ q.ask = rq[r].ask /\ q.from = rq[r].from /\ q.got = rq[r].got
<1> DEFINE q == Landed(r, right)
           more == IF right /\ rq[r].good = rq[r].n THEN rq[r].good + 1 ELSE rq[r].good
<1>1. /\ rq[r] \in Records({rq[r].list}) /\ Sent(rq[r]) /\ Size \in Nat
      /\ rq[r].n \in 0 .. Size /\ rq[r].good \in 0 .. Size
  BY VerifiedAssumption DEF Own, Local, Records
<1>2. rq[r].n + 1 \in 0 .. Size /\ more \in 0 .. Size
  BY <1>1 DEF TooMuch
<1>3. q = [rq[r] EXCEPT !.n = rq[r].n + 1, !.good = more]
  BY <1>1 DEF Landed, Records
<1>4. \A x, y \in 0 .. Size : [rq[r] EXCEPT !.n = x, !.good = y] \in Records({rq[r].list})
  BY <1>1 DEF Records
<1> HIDE DEF more
<1>5. q \in Records({rq[r].list})
  <2>1. [rq[r] EXCEPT !.n = rq[r].n + 1, !.good = more] \in Records({rq[r].list})
    BY <1>2, <1>4, Zenon
  <2>2. QED  BY <1>3, <2>1, Zenon
<1>6. /\ q.pc = rq[r].pc /\ q.ask = rq[r].ask /\ q.list = rq[r].list
      /\ q.started = rq[r].started /\ q.from = rq[r].from /\ q.len = rq[r].len
      /\ q.got = rq[r].got /\ q.right = rq[r].right
  BY <1>1, <1>3 DEF Records
<1> HIDE DEF q
<1>7. Local(q)
  BY <1>5, <1>6 DEF Local
<1>8. Sent(q)
  BY <1>1, <1>6 DEF Sent
<1> QED
  BY <1>6, <1>7, <1>8 DEF Own, q

LEMMA ReleasedInOrder ==
    ASSUME NEW r \in Requests, Own(rq[r]), rq[r].pc = "read", ~TooMuch(r), Passes(r),
           NEW right \in BOOLEAN
    PROVE  LET q == Released(r, right)
           IN  Own(q) /\ q.pc = "read" /\ q.started
<1> DEFINE l == Landed(r, right)
           out == IF rq[r].here THEN rq[r].n + 1 - Hold ELSE l.got
           ok == l.good >= rq[r].n + 1 - Hold
           q == Released(r, right)
<1>1. /\ Own(l) /\ l.pc = "read" /\ l.started = rq[r].started
      /\ l.ask = Whole /\ l.from = rq[r].from /\ l.got = rq[r].got
  BY LandedInOrder DEF Passes, Streaming
<1>2. q = [l EXCEPT !.started = TRUE, !.len = Size, !.got = out, !.right = ok]
  BY <1>1 DEF Released, Own, Local, Records
<1>3. /\ Size \in Nat /\ Size \in 0 .. Size /\ out \in 0 .. Size /\ out < Size
      /\ ok \in BOOLEAN /\ rq[r].from = 0
  <2>1. /\ rq[r].n \in 0 .. Size /\ rq[r].got \in 0 .. Size /\ l.good \in 0 .. Size
        /\ Size \in Nat \ {0} /\ Hold \in Nat \ {0}
    BY <1>1, VerifiedAssumption DEF Own, Local, Records
  <2>2. /\ rq[r].from = 0 /\ rq[r].got < Size
    BY <2>1 DEF Own, Sent, Working
  <2>3. rq[r].n + 1 - Hold \in 0 .. Size /\ rq[r].n + 1 - Hold < Size
    BY <2>1 DEF TooMuch, Passes
  <2> HIDE DEF l
  <2> QED
    BY <1>1, <2>1, <2>2, <2>3
<1> HIDE DEF l, out, ok
<1>4. l \in Records({l.list})
  BY <1>1 DEF Own, Local
<1>5. \A x, y \in 0 .. Size, z \in BOOLEAN :
        [l EXCEPT !.started = TRUE, !.len = x, !.got = y, !.right = z] \in Records({l.list})
  BY <1>4 DEF Records
<1>6. /\ q.pc = "read" /\ q.ask = Whole /\ q.list = l.list /\ q.started = TRUE
      /\ q.from = 0 /\ q.len = Size /\ q.got = out
  BY <1>1, <1>2, <1>3, <1>4 DEF Records
<1>7. Local(q)
  <2>1. q \in Records({l.list})
    <3> HIDE DEF q
    <3> QED BY <1>2, <1>3, <1>5
  <2> QED
    BY <1>6, <2>1 DEF Local
<1>8. Sent(q)
  BY <1>3, <1>6 DEF Sent, Working
<1> QED
  BY <1>6, <1>7, <1>8 DEF Own

LEMMA ChunkKeeps ==
    ASSUME Inv, NEW r \in Requests, NEW right \in BOOLEAN, NEW full \in BOOLEAN,
           Chunk(r, right, full)
    PROVE  Inv'
<1>1. /\ rq[r].pc = "read" /\ Own(rq[r]) /\ inflight = r
      /\ file' = file /\ checked' = checked
  BY DEF Chunk, At, Inv, Shared, OneFetch
<1>2. /\ file \in {"none", "right", "rotten", "short"} /\ checked \in BOOLEAN
      /\ checked => file \in {"none", "right"}
  BY DEF Inv, Shared, CheckedIsRight
<1>3. CASE TooMuch(r) /\ Failed(r, rq[r])
  BY <1>1, <1>3, FailedKeeps
<1>4. CASE ~TooMuch(r) /\ ~Passes(r) /\ Set(r, Landed(r, right)) /\ inflight' = inflight
  <2>1. Own(Landed(r, right)) /\ Landed(r, right).pc = "read"
    BY <1>1, <1>4, LandedInOrder
  <2> QED
    BY <1>1, <1>2, <1>4, <2>1, Moves DEF Reading, Fetching
<1>5. CASE /\ ~TooMuch(r) /\ Passes(r) /\ rq[r].here
           /\ Set(r, [Released(r, right) EXCEPT !.pc = IF full THEN "drain" ELSE @])
           /\ inflight' = inflight
  <2> DEFINE q == Released(r, right)
             pc == IF full THEN "drain" ELSE q.pc
             new == [q EXCEPT !.pc = pc]
  <2>1. Own(q) /\ q.pc = "read" /\ q.started
    BY <1>1, <1>5, ReleasedInOrder
  <2> HIDE DEF q
  <2>2. pc \in {"read", "drain"} /\ pc \in Working
    BY <2>1 DEF Working
  <2>3. new = [q EXCEPT !.pc = IF full THEN "drain" ELSE @]
    OBVIOUS
  <2> HIDE DEF pc
  <2>4. q \in Records({q.list}) /\ Sent(q)
    BY <2>1 DEF Own, Local
  <2>5. /\ new.pc = pc /\ new.ask = q.ask /\ new.list = q.list
        /\ new.started = q.started /\ new.from = q.from /\ new.len = q.len
        /\ new.got = q.got /\ new.right = q.right
    BY <2>4 DEF Records
  <2>6. Local(new)
    <3>1. new \in Records({q.list})
      BY <2>2, <2>4 DEF Records
    <3> QED
      BY <2>5, <3>1 DEF Local
  <2>7. Sent(new)
    BY <2>1, <2>2, <2>4, <2>5 DEF Sent, Working
  <2>8. Set(r, new) /\ Own(new) /\ new.pc \in {"read", "drain"}
    BY <1>5, <2>2, <2>3, <2>5, <2>6, <2>7 DEF Own, q
  <2> HIDE DEF new
  <2> QED
    BY <1>1, <1>2, <1>5, <2>8, Moves DEF Reading, Fetching
<1>6. CASE ~TooMuch(r) /\ Passes(r) /\ ~rq[r].here /\ Failed(r, Released(r, right))
  <2>1. Own(Released(r, right)) /\ Released(r, right).pc = "read" /\ Released(r, right).started
    BY <1>1, <1>6, ReleasedInOrder
  <2> QED
    BY <1>1, <1>6, <2>1, FailedKeeps
<1> QED
  BY <1>3, <1>4, <1>5, <1>6 DEF Chunk

(* Sent of a request that has ended is about its last answer only. *)
LEMMA AnswerInOrder ==
    ASSUME NEW q, q \in Records({q.list}), NEW pc \in {"finished", "refused", "cut"},
           q.len > 0 /\ q.got = q.len =>
              q.right /\ q.from .. q.from + q.len - 1 = Wanted(q.ask)
    PROVE  Own(Ends(q, pc)) /\ Ends(q, pc).pc = pc
<1> 0 \in 0 .. Size
  BY VerifiedAssumption
<1>2. /\ Ends(q, pc).pc = pc /\ Ends(q, pc).ask = q.ask /\ Ends(q, pc).list = <<>>
      /\ Ends(q, pc).started = FALSE
      /\ Ends(q, pc).from = q.from /\ Ends(q, pc).len = q.len /\ Ends(q, pc).got = q.got
      /\ Ends(q, pc).right = q.right
  BY DEF Ends, Records
<1>3. Ends(q, pc) \in Records({<<>>})
  BY DEF Ends, Records, Ended
<1>4. Local(Ends(q, pc))
  BY <1>2, <1>3 DEF Local
<1>5. Sent(Ends(q, pc))
  BY <1>2 DEF Sent, Working
<1> QED
  BY <1>2, <1>4, <1>5 DEF Own

(* Everything there is, is what a plain GET asks for. *)
LEMMA WholeIsWanted == 0 .. 0 + Size - 1 = Wanted(Whole)
BY VerifiedAssumption DEF Wanted, Whole

LEMMA EndKeeps ==
    ASSUME Inv, NEW r \in Requests, End(r)
    PROVE  Inv'
<1>1. rq[r].pc = "read" /\ Own(rq[r]) /\ inflight = r
  BY DEF End, At, Inv, Shared, OneFetch
<1>2. CASE ~Verified(r)
  <2>1. Failed(r, rq[r]) /\ file' = file /\ checked' = checked
    BY <1>2 DEF End
  <2> QED
    BY <1>1, <2>1, FailedKeeps
<1>3. CASE Verified(r) /\ Streaming(r) /\ rq[r].here
  <2> DEFINE q == [rq[r] EXCEPT !.len = Size, !.got = Size, !.right = rq[r].good >= Size]
  <2>1. file' = "right" /\ checked' = TRUE /\ Settle(r, Ends(q, "finished"), TRUE)
    BY <1>3 DEF End
  <2>2. /\ rq[r] \in Records({rq[r].list}) /\ rq[r].from = 0 /\ rq[r].ask = Whole
        /\ Size \in 0 .. Size /\ (rq[r].good >= Size) = TRUE
    BY <1>1, <1>3, VerifiedAssumption DEF Own, Local, Records, Sent, Working, Verified, Streaming
  <2>3. /\ q.from = 0 /\ q.len = Size /\ q.got = Size /\ q.right = TRUE /\ q.ask = Whole
        /\ q.list = rq[r].list
    BY <2>2 DEF Records
  <2>4. q \in Records({rq[r].list})
    BY <2>2 DEF Records
  <2> HIDE DEF q
  <2>5. Own(Ends(q, "finished")) /\ Ends(q, "finished").pc = "finished"
    BY <2>3, <2>4, AnswerInOrder, WholeIsWanted
  <2> QED
    BY <1>1, <2>1, <2>5, Settles DEF Reading
<1>4. CASE Verified(r) /\ Streaming(r) /\ ~rq[r].here
  <2>1. file' = "right" /\ checked' = TRUE /\ Settle(r, Ends(rq[r], "cut"), TRUE)
    BY <1>4 DEF End
  <2>2. Own(Ends(rq[r], "cut")) /\ Ends(rq[r], "cut").pc = "cut"
    BY <1>1, Short, EndsInOrder DEF Working
  <2> QED
    BY <1>1, <2>1, <2>2, Settles DEF Reading
<1>5. CASE Verified(r) /\ ~Streaming(r)
  <2> DEFINE new == [rq[r] EXCEPT !.pc = "send"]
  <2>1. file' = "right" /\ checked' = TRUE /\ Settle(r, new, TRUE)
    BY <1>5 DEF End
  <2>2. ~rq[r].started
    BY <1>1, <1>5 DEF Own, Sent, Streaming
  <2>3. Own(new)
    BY <1>1, <2>2, Onward DEF Working
  <2>4. new.pc = "send"
    BY <1>1 DEF Own, Local, Records
  <2> HIDE DEF new
  <2> QED
    BY <1>1, <2>1, <2>3, <2>4, Settles DEF Reading
<1> QED
  BY <1>2, <1>3, <1>4, <1>5

(* sendFile reads a file that is the right one or gone: `checked` says so. *)
LEMMA SendFileKeeps ==
    ASSUME Inv, NEW r \in Requests, SendFile(r)
    PROVE  Inv'
<1> DEFINE from == FirstOf(rq[r].ask)
           to == LastOf(rq[r].ask)
           nothing == from > to \/ from >= Size
           send == [rq[r] EXCEPT !.from = from, !.len = to - from + 1,
                                 !.right = file = "right"]
           all == [send EXCEPT !.got = to - from + 1]
<1>1. /\ rq[r].pc = "send" /\ Own(rq[r]) /\ inflight # r
      /\ file' = file /\ checked' = checked /\ inflight' = inflight
      /\ file \in {"none", "right"} /\ checked \in BOOLEAN
      /\ inflight \in Requests \cup {None} /\ None \notin Requests
  BY VerifiedAssumption DEF SendFile, At, Inv, Shared, CheckedIsRight, Fetching
<1>2. ASSUME NEW new, Set(r, new), Own(new), new.pc \in {"finished", "refused", "cut"}
      PROVE  Inv'
  BY <1>1, <1>2, Moves DEF Reading
<1>3. CASE nothing
  <2>1. Set(r, Refused(r))
    BY <1>3 DEF SendFile
  <2>2. Own(Refused(r)) /\ Refused(r).pc = "refused"
    BY <1>1, Short, EndsInOrder DEF Refused, Working
  <2> QED
    BY <1>2, <2>1, <2>2
<1>4. CASE ~nothing /\ rq[r].ask = Head_
  <2>1. Set(r, Answered(r))
    BY <1>4 DEF SendFile
  <2>2. Own(Answered(r)) /\ Answered(r).pc = "finished"
    BY <1>1, Short, EndsInOrder DEF Answered, Working
  <2> QED
    BY <1>2, <2>1, <2>2
<1>5. CASE ~nothing /\ rq[r].ask # Head_
  <2>1. /\ rq[r] \in Records({rq[r].list}) /\ rq[r].got = 0 /\ rq[r].ask \in Asks
    BY <1>1 DEF Own, Local, Records, Sent, Working
  <2>2. FirstOf(rq[r].ask) \in Int /\ LastOf(rq[r].ask) \in Int /\ Size \in Nat
    BY <2>1, RangeIsInt
  <2>3. /\ from \in Nat /\ to \in 0 .. Size - 1 /\ from <= to
        /\ from .. to = Wanted(rq[r].ask)
    BY <1>5, <2>1, <2>2, RangeIsWanted
  <2> HIDE DEF from, to
  <2>4. to - from + 1 \in 0 .. Size /\ to - from + 1 > 0 /\ from + (to - from + 1) - 1 = to
    BY <2>2, <2>3
  <2>5. /\ send \in Records({rq[r].list}) /\ send.from = from /\ send.len = to - from + 1
        /\ send.list = rq[r].list /\ send.got = 0 /\ send.ask = rq[r].ask
        /\ send.right = (file = "right")
    <3>1. \A x \in 0 .. Size, y \in BOOLEAN :
             [rq[r] EXCEPT !.from = from, !.len = x, !.right = y] \in Records({rq[r].list})
      BY <2>1, <2>3 DEF Records
    <3>2. send \in Records({rq[r].list})
      <4>1. (file = "right") \in BOOLEAN
        OBVIOUS
      <4> QED
        BY <2>4, <3>1, <4>1
    <3> QED
      BY <2>1, <3>2 DEF Records
  <2>6. CASE file = "none" \/ ~rq[r].here
    <3>1. Set(r, Ends(send, "cut"))
      BY <1>5, <2>6 DEF SendFile, from, to
    <3> HIDE DEF send
    <3>2. Own(Ends(send, "cut")) /\ Ends(send, "cut").pc = "cut"
      BY <2>4, <2>5, AnswerInOrder
    <3> QED
      BY <1>2, <3>1, <3>2
  <2>7. CASE file # "none" /\ rq[r].here
    <3>1. Set(r, Ends(all, "finished"))
      BY <1>5, <2>7 DEF SendFile, from, to
    <3>2. file = "right"
      BY <1>1, <2>7
    <3> HIDE DEF send
    <3>3. /\ all \in Records({rq[r].list}) /\ all.from = from /\ all.len = to - from + 1
          /\ all.list = rq[r].list /\ all.got = to - from + 1 /\ all.ask = rq[r].ask
          /\ all.right = TRUE
      <4>1. \A x \in 0 .. Size : [send EXCEPT !.got = x] \in Records({rq[r].list})
        BY <2>5 DEF Records
      <4> QED
        BY <2>4, <2>5, <3>2, <4>1 DEF Records
    <3> HIDE DEF all
    <3>4. Own(Ends(all, "finished")) /\ Ends(all, "finished").pc = "finished"
      BY <2>3, <2>4, <3>3, AnswerInOrder
    <3> QED
      BY <1>2, <3>1, <3>4
  <2> QED
    BY <2>6, <2>7
<1> QED
  BY <1>3, <1>4, <1>5

-----------------------------------------------------------------------------
LEMMA InitInv == Init => Inv
<1> SUFFICES ASSUME Init PROVE Inv
  OBVIOUS
<1>1. /\ rq = [r \in Requests |-> Idle] /\ checked = FALSE /\ inflight = None
      /\ file \in {"none", "right", "rotten", "short"}
  BY DEF Init
<1>2. Own(Idle) /\ Idle.pc = "idle"
  <2> 0 \in 0 .. Size
    BY VerifiedAssumption
  <2>1. Idle \in Records({Idle.list})
    BY DEF Idle, Records, Ended, Asks
  <2>2. Sent(Idle)
    BY DEF Idle, Sent, Working
  <2> QED
    BY <2>1, <2>2 DEF Own, Local, Idle
<1> QED
  BY <1>1, <1>2 DEF Inv, Shared, CheckedIsRight, OneFetch

LEMMA NextInv == Inv /\ [Next]_vars => Inv'
<1> SUFFICES ASSUME Inv, [Next]_vars PROVE Inv'
  OBVIOUS
<1>1. ASSUME NEW r \in Requests, Arrival(r) PROVE Inv'
  BY <1>1, ArriveKeeps DEF Arrival
<1>2. ASSUME NEW r \in Requests, Step(r) PROVE Inv'
  BY <1>2, StatKeeps, HashKeeps, RmKeeps, OpenKeeps, ExhaustedKeeps, BreakKeeps, EndKeeps,
     ChunkKeeps, DrainKeeps, SendFileKeeps DEF Step
<1>3. ASSUME NEW r \in Requests, ClientGone(r) PROVE Inv'
  BY <1>3, GoneKeeps
<1>4. CASE Restart
  BY <1>4, RestartKeeps
<1>5. CASE UNCHANGED vars
  BY <1>5 DEF vars, Inv, Shared, CheckedIsRight, OneFetch
<1> QED
  BY <1>1, <1>2, <1>3, <1>4, <1>5 DEF Next

(* A client of the edge never finishes a wrong file: whatever holders send,  *)
(* clients do, the disk holds and restarts lose, one that has every byte it  *)
(* was promised has the bytes it asked for (streamVerified, sendFile).       *)
THEOREM EdgeNeverFinishesWrong == Spec => []NeverFinishesWrong
<1>1. Inv => NeverFinishesWrong
  BY DEF Inv, Own, Sent, NeverFinishesWrong
<1> QED
  BY InitInv, NextInv, <1>1, PTL DEF Spec

(* The cache is answered from without hashing only while its file is right. *)
THEOREM EdgeCheckedIsRight == Spec => []CheckedIsRight
<1>1. Inv => CheckedIsRight
  BY DEF Inv, Shared
<1> QED
  BY InitInv, NextInv, <1>1, PTL DEF Spec

(* However many clients ask, one fetch of the file runs at a time, and who  *)
(* waits, waits for one that is there (inflight of verified-bytes.mjs).     *)
THEOREM EdgeOneFetch == Spec => []OneFetch
<1>1. Inv => OneFetch
  BY DEF Inv, Shared
<1> QED
  BY InitInv, NextInv, <1>1, PTL DEF Spec
-----------------------------------------------------------------------------
(* Induction over the naturals, for sets. *)

(* A set of naturals that is not empty has a least element. *)
LEMMA LeastNat ==
  ASSUME NEW T \in SUBSET Nat, T # {}
  PROVE  \E m \in T : \A k \in T : m <= k
<1> DEFINE R == {ss \in Nat \X Nat : ss[1] < ss[2]}
<1>1. R = OpToRel(<, Nat)
  BY Zenon DEF OpToRel
<1>2. IsWellFoundedOn(R, Nat)
  BY <1>1, NatLessThanWellFounded, Zenon
<1> HIDE DEF R
<1>3. PICK m \in T : \A y \in T : ~(<<y, m>> \in R)
  BY <1>2, WFMin
<1>4. ASSUME NEW y \in T PROVE m <= y
  <2>1. m \in Nat /\ y \in Nat /\ <<y, m>> \notin R
    BY <1>3
  <2>2. <<y, m>> \in Nat \X Nat /\ <<y, m>>[1] = y /\ <<y, m>>[2] = m
    BY <2>1
  <2>3. ~(y < m)
    BY <2>1, <2>2 DEF R
  <2>4. QED  BY <2>1, <2>3
<1>5. QED  BY <1>4

(* A set that holds 0 and, with each natural, the next one, holds them all. *)
LEMMA NatSetInduction ==
  ASSUME NEW T, 0 \in T, \A n \in Nat : n \in T => n + 1 \in T
  PROVE  Nat \subseteq T
<1> SUFFICES ASSUME ~(Nat \subseteq T) PROVE FALSE
  OBVIOUS
<1> DEFINE U == {n \in Nat : n \notin T}
<1>1. PICK m \in U : \A k \in U : m <= k
  BY LeastNat
<1>2. m # 0 /\ m - 1 \in Nat /\ m - 1 \notin U
  BY <1>1
<1>3. QED  BY <1>1, <1>2

-----------------------------------------------------------------------------
(* The lists of holders. *)

(* One step of the filter, and a function that makes n of them. *)
FilterStep(s, kept, before, k) ==
    IF k = 0 THEN <<>> ELSE IF s[k] \in kept THEN Append(before, s[k]) ELSE before
UpTo(f, s, kept, n) == f = [k \in 0 .. n |-> FilterStep(s, kept, f[k - 1], k)]

LEMMA FilterStepZero == ASSUME NEW s, NEW kept, NEW b PROVE FilterStep(s, kept, b, 0) = <<>>
  BY DEF FilterStep

LEMMA UpToExists == ASSUME NEW s, NEW kept PROVE \A n \in Nat : \E f : UpTo(f, s, kept, n)
<1> DEFINE T == {n \in Nat : \E f : UpTo(f, s, kept, n)}
<1>1. 0 \in T
  <2> DEFINE f == [k \in 0 .. 0 |-> FilterStep(s, kept, <<>>, k)]
  <2>1. f = [k \in 0 .. 0 |-> FilterStep(s, kept, f[k - 1], k)]
    <3>1. \A k \in 0 .. 0 : FilterStep(s, kept, <<>>, k) = FilterStep(s, kept, f[k - 1], k)
      BY FilterStepZero
    <3>2. QED  BY <3>1
  <2>2. UpTo(f, s, kept, 0)
    BY <2>1 DEF UpTo
  <2>3. QED  BY <2>2
<1>2. ASSUME NEW n \in Nat, n \in T PROVE n + 1 \in T
  <2>1. PICK f : UpTo(f, s, kept, n)
    BY <1>2
  <2> DEFINE g == [k \in 0 .. n + 1 |-> FilterStep(s, kept, f[k - 1], k)]
  <2>2. ASSUME NEW k \in 0 .. n PROVE g[k] = f[k]
    <3>1. f = [j \in 0 .. n |-> FilterStep(s, kept, f[j - 1], j)]
      BY <2>1 DEF UpTo
    <3>2. f[k] = FilterStep(s, kept, f[k - 1], k)
      BY <3>1
    <3>3. k \in 0 .. n + 1
      BY <1>2
    <3>4. QED  BY <3>2, <3>3
  <2>3. ASSUME NEW k \in 0 .. n + 1
        PROVE  g[k] = FilterStep(s, kept, g[k - 1], k)
    <3>1. g[k] = FilterStep(s, kept, f[k - 1], k)
      OBVIOUS
    <3>2. k # 0 => k - 1 \in 0 .. n
      BY <1>2
    <3> HIDE DEF g
    <3>3. CASE k = 0
      BY <3>1, <3>3, FilterStepZero
    <3>4. CASE k # 0
      <4>1. g[k - 1] = f[k - 1]
        BY <2>2, <3>2, <3>4
      <4>2. QED  BY <3>1, <4>1
    <3>5. QED  BY <3>3, <3>4
  <2>4. g = [k \in 0 .. n + 1 |-> FilterStep(s, kept, g[k - 1], k)]
    <3> DEFINE h == [k \in 0 .. n + 1 |-> FilterStep(s, kept, g[k - 1], k)]
    <3>1. \A k \in 0 .. n + 1 : g[k] = h[k]
      BY <2>3
    <3>2. g = [k \in 0 .. n + 1 |-> g[k]] /\ h = [k \in 0 .. n + 1 |-> h[k]]
      OBVIOUS
    <3> HIDE DEF g, h
    <3>3. g = h
      BY <3>1, <3>2
    <3>4. QED  BY <3>3 DEF h
  <2> HIDE DEF g
  <2>5. UpTo(g, s, kept, n + 1)
    BY <2>4 DEF UpTo
  <2>6. QED  BY <2>5, <1>2
<1>3. QED  BY <1>1, <1>2, NatSetInduction

LEMMA FilterIs ==
  ASSUME NEW s, NEW kept, Len(s) \in Nat
  PROVE  \E f : UpTo(f, s, kept, Len(s)) /\ Filter(s, kept) = f[Len(s)]
<1> DEFINE step(f) == [k \in 0 .. Len(s) |->
                          IF k = 0 THEN <<>>
                          ELSE IF s[k] \in kept THEN Append(f[k - 1], s[k]) ELSE f[k - 1]]
           g == CHOOSE f : f = step(f)
<1>1. Filter(s, kept) = g[Len(s)]
  BY Zenon DEF Filter
<1>2. PICK f : UpTo(f, s, kept, Len(s))
  BY UpToExists
<1>3. f = step(f)
  BY <1>2 DEF UpTo, FilterStep
<1>4. g = step(g)
  BY <1>3, Zenon
<1> HIDE DEF g
<1>5. UpTo(g, s, kept, Len(s))
  BY <1>4 DEF UpTo, FilterStep
<1>6. QED  BY <1>1, <1>5

(* No holder stands in a list twice. *)
NoTwice(s) == \A i, j \in 1 .. Len(s) : s[i] = s[j] => i = j

(* What a filter returns comes from the list, is to be kept, and nothing in it *)
(* stands there twice if nothing did in the list.                              *)
LEMMA FilterFacts ==
    ASSUME NEW S, NEW s \in Seq(S), NEW kept
    PROVE  /\ Filter(s, kept) \in Seq(S)
           /\ \A i \in 1 .. Len(Filter(s, kept)) : Filter(s, kept)[i] \in kept
           /\ NoTwice(s) => NoTwice(Filter(s, kept))
<1>0. Len(s) \in Nat
  OBVIOUS
<1>1. PICK f : UpTo(f, s, kept, Len(s)) /\ Filter(s, kept) = f[Len(s)]
  BY <1>0, FilterIs
<1>2. \A k \in 0 .. Len(s) : f[k] = FilterStep(s, kept, f[k - 1], k)
  BY <1>1 DEF UpTo
<1> DEFINE Good(k) == /\ f[k] \in Seq(S)
                      /\ \A i \in 1 .. Len(f[k]) : f[k][i] \in kept /\ \E j \in 1 .. k : f[k][i] = s[j]
                      /\ NoTwice(s) => NoTwice(f[k])
           T == {n \in Nat : n <= Len(s) => Good(n)}
<1>3. 0 \in T
  <2>1. f[0] = <<>>
    BY <1>0, <1>2, FilterStepZero
  <2>2. <<>> \in Seq(S) /\ Len(<<>>) = 0 /\ 1 .. 0 = {}
    OBVIOUS
  <2>3. Good(0)
    BY <2>1, <2>2 DEF NoTwice
  <2>4. QED  BY <2>3
<1>4. ASSUME NEW n \in Nat, n \in T PROVE n + 1 \in T
  <2> SUFFICES ASSUME n + 1 <= Len(s) PROVE Good(n + 1)
    OBVIOUS
  <2>1. Good(n)
    BY <1>4, <1>0
  <2>2. n + 1 \in 1 .. Len(s) /\ n + 1 # 0 /\ (n + 1) - 1 = n /\ \A j \in 1 .. n : j \in 1 .. n + 1 /\ j \in 1 .. Len(s) /\ j # n + 1
    BY <1>0
  <2>3. f[n + 1] = IF s[n + 1] \in kept THEN Append(f[n], s[n + 1]) ELSE f[n]
    BY <1>2, <2>2 DEF FilterStep
  <2>4. CASE s[n + 1] \notin kept
    <3>1. f[n + 1] = f[n]
      BY <2>3, <2>4
    <3>2. QED  BY <2>1, <2>2, <3>1
  <2>5. CASE s[n + 1] \in kept
    <3> DEFINE t == f[n]
               x == s[n + 1]
               u == Append(t, x)
    <3>1. t \in Seq(S) /\ x \in S /\ f[n + 1] = u /\ x \in kept
      BY <2>1, <2>2, <2>3, <2>5
    <3>2. /\ \A i \in 1 .. Len(t) : t[i] \in kept /\ \E j \in 1 .. n : t[i] = s[j]
          /\ NoTwice(s) => NoTwice(t)
      BY <2>1
    <3> HIDE DEF t, x
    <3>3. /\ u \in Seq(S) /\ Len(u) = Len(t) + 1 /\ Len(t) \in Nat
          /\ \A i \in 1 .. Len(t) : u[i] = t[i]
          /\ u[Len(t) + 1] = x
      BY <3>1
    <3> HIDE DEF u
    <3>4. \A i \in 1 .. Len(u) : i \in 1 .. Len(t) \/ i = Len(t) + 1
      BY <3>3
    <3>5. ASSUME NEW i \in 1 .. Len(u) PROVE u[i] \in kept /\ \E j \in 1 .. n + 1 : u[i] = s[j]
      <4>1. CASE i \in 1 .. Len(t)
        BY <4>1, <2>2, <3>2, <3>3
      <4>2. CASE i = Len(t) + 1
        <5>1. u[i] = s[n + 1] /\ n + 1 \in 1 .. n + 1
          BY <4>2, <3>3 DEF x
        <5>2. QED  BY <5>1, <2>5
      <4>3. QED  BY <4>1, <4>2, <3>4
    <3>6. ASSUME NoTwice(s), NEW i \in 1 .. Len(u), NEW j \in 1 .. Len(u), u[i] = u[j] PROVE i = j
      <4>1. \A k \in 1 .. Len(t) : t[k] # x
        <5>1. ASSUME NEW k \in 1 .. Len(t), t[k] = x PROVE FALSE
          <6>1. PICK m \in 1 .. n : t[k] = s[m]
            BY <3>2
          <6>2. s[m] = s[n + 1] /\ m # n + 1 /\ m \in 1 .. Len(s)
            BY <6>1, <5>1, <2>2 DEF x
          <6>3. QED  BY <6>2, <3>6, <2>2 DEF NoTwice
        <5>2. QED  BY <5>1
      <4>2. CASE i \in 1 .. Len(t) /\ j \in 1 .. Len(t)
        BY <4>2, <3>2, <3>3, <3>6 DEF NoTwice
      <4>3. CASE i \in 1 .. Len(t) /\ j = Len(t) + 1
        BY <4>1, <4>3, <3>3, <3>6
      <4>4. CASE i = Len(t) + 1 /\ j \in 1 .. Len(t)
        BY <4>1, <4>4, <3>3, <3>6
      <4>5. CASE i = Len(t) + 1 /\ j = Len(t) + 1
        BY <4>5
      <4>6. QED  BY <3>4, <4>2, <4>3, <4>4, <4>5
    <3>7. NoTwice(s) => NoTwice(u)
      BY <3>6 DEF NoTwice
    <3>8. QED  BY <3>1, <3>3, <3>5, <3>7
  <2>6. QED  BY <2>4, <2>5
<1>5. Len(s) \in T
  BY <1>0, <1>3, <1>4, NatSetInduction
<1>6. Good(Len(s))
  BY <1>0, <1>5
<1>7. QED  BY <1>1, <1>6

(* The holders a request comes with. *)
LEMMA HoldersOnce ==
    ASSUME NEW healthy, NEW pinned
    PROVE  HoldersFor(healthy, pinned) \in Seq(Kinds) /\ NoTwice(HoldersFor(healthy, pinned))
<1> DEFINE s == Filter(Order, healthy \cap pinned)
           t == Filter(Order, pinned \ healthy)
           u == s \o t
<1>1. Order \in Seq(Kinds) /\ NoTwice(Order)
  BY VerifiedAssumption DEF NoTwice
<1>2. s \in Seq(Kinds) /\ NoTwice(s) /\ \A i \in 1 .. Len(s) : s[i] \in healthy
  BY <1>1, FilterFacts
<1>3. t \in Seq(Kinds) /\ NoTwice(t) /\ \A i \in 1 .. Len(t) : t[i] \notin healthy
  BY <1>1, FilterFacts
<1>4. HoldersFor(healthy, pinned) = u
  BY DEF HoldersFor
<1> HIDE DEF s, t
<1>5. /\ u \in Seq(Kinds) /\ Len(u) = Len(s) + Len(t) /\ Len(s) \in Nat /\ Len(t) \in Nat
      /\ \A i \in 1 .. Len(s) + Len(t) : u[i] = IF i <= Len(s) THEN s[i] ELSE t[i - Len(s)]
  BY <1>2, <1>3, ConcatProperties
<1> HIDE DEF u
<1>6. ASSUME NEW i \in 1 .. Len(u), NEW j \in 1 .. Len(u), u[i] = u[j] PROVE i = j
  <2>1. /\ i <= Len(s) => i \in 1 .. Len(s) /\ u[i] = s[i]
        /\ ~(i <= Len(s)) => i - Len(s) \in 1 .. Len(t) /\ u[i] = t[i - Len(s)]
    BY <1>5
  <2>2. /\ j <= Len(s) => j \in 1 .. Len(s) /\ u[j] = s[j]
        /\ ~(j <= Len(s)) => j - Len(s) \in 1 .. Len(t) /\ u[j] = t[j - Len(s)]
    BY <1>5
  <2>3. CASE i <= Len(s) /\ j <= Len(s)
    BY <2>1, <2>2, <2>3, <1>2, <1>6 DEF NoTwice
  <2>4. CASE ~(i <= Len(s)) /\ ~(j <= Len(s))
    <3>1. i - Len(s) = j - Len(s)
      BY <2>1, <2>2, <2>4, <1>3, <1>6 DEF NoTwice
    <3>2. QED  BY <3>1, <1>5
  <2>5. CASE i <= Len(s) /\ ~(j <= Len(s))
    BY <2>1, <2>2, <2>5, <1>2, <1>3, <1>6
  <2>6. CASE ~(i <= Len(s)) /\ j <= Len(s)
    BY <2>1, <2>2, <2>6, <1>2, <1>3, <1>6
  <2>7. QED  BY <2>3, <2>4, <2>5, <2>6
<1>7. QED  BY <1>4, <1>5, <1>6 DEF NoTwice

(* The first holder of a list is not among the rest. *)
LEMMA TailOnce ==
    ASSUME NEW s \in Seq(Kinds), s # <<>>, NoTwice(s)
    PROVE  /\ Tail(s) \in Seq(Kinds) /\ NoTwice(Tail(s))
           /\ \A i \in 1 .. Len(Tail(s)) : Tail(s)[i] # Head(s) /\ \E j \in 1 .. Len(s) : Tail(s)[i] = s[j]
<1> DEFINE t == Tail(s)
<1>1. /\ Len(s) \in Nat \ {0} /\ Head(s) = s[1] /\ t \in Seq(Kinds) /\ Len(t) = Len(s) - 1
      /\ \A i \in 1 .. Len(t) : t[i] = s[i + 1]
  BY HeadTailProperties
<1> HIDE DEF t
<1>2. \A i \in 1 .. Len(t) : i + 1 \in 1 .. Len(s) /\ i + 1 # 1 /\ 1 \in 1 .. Len(s)
  BY <1>1
<1>3. \A i \in 1 .. Len(t) : t[i] # s[1]
  BY <1>1, <1>2 DEF NoTwice
<1>4. ASSUME NEW i \in 1 .. Len(t), NEW j \in 1 .. Len(t), t[i] = t[j] PROVE i = j
  <2>1. s[i + 1] = s[j + 1]
    BY <1>1, <1>4
  <2>2. i + 1 = j + 1
    BY <1>2, <2>1 DEF NoTwice
  <2>3. QED  BY <2>2, <1>1
<1>5. QED  BY <1>1, <1>2, <1>3, <1>4 DEF NoTwice, t

-----------------------------------------------------------------------------
(* Liars. *)

Clean(s, bad) == \A i \in 1 .. Len(s) : s[i] \notin bad

(* A list holds a kind once; the list of the fetch that runs holds no liar,    *)
(* and while a holder is read it is the first of it.                           *)
ListOk(q, bad) ==
    /\ q.list \in Seq(Kinds) /\ NoTwice(q.list)
    /\ q.pc \in Reading => Clean(q.list, bad)
    /\ q.pc \in {"read", "drain"} => q.list # <<>>
Lists == \A r \in Requests : ListOk(rq[r], liars)

(* One request moves, alone or with those that waited for its fetch. *)
Goes(r, new) == Set(r, new) \/ \E good \in BOOLEAN : Settle(r, new, good)

LEMMA ListsMove ==
    ASSUME Inv, Lists, NEW r \in Requests, NEW new, Goes(r, new), ListOk(new, liars'),
           liars' = liars \/ inflight = r
    PROVE  Lists'
<1>1. rq'[r] = new
  BY DEF Goes, Set, Settle, Inv
<1>2. ASSUME NEW q \in Requests, q # r PROVE ListOk(rq'[q], liars')
  <2>1. Local(rq[q]) /\ ListOk(rq[q], liars)
    BY DEF Inv, Own, Lists
  <2>2. rq[q].pc \in Reading => liars' = liars
    BY <1>2 DEF Inv, Shared, OneFetch, Reading
  <2>3. CASE rq'[q] = rq[q]
    BY <2>1, <2>2, <2>3 DEF ListOk, Reading
  <2>4. CASE rq'[q] = [rq[q] EXCEPT !.pc = "send"]
    <3>1. rq'[q].pc = "send" /\ rq'[q].list = rq[q].list
      BY <2>1, <2>4 DEF Local, Records
    <3>2. QED  BY <2>1, <3>1 DEF ListOk, Reading
  <2>5. CASE rq'[q] = Refused(q)
    <3>1. rq'[q].pc = "refused" /\ rq'[q].list = <<>>
      BY <2>1, <2>5 DEF Local, Records, Refused, Ends
    <3>2. QED  BY <3>1 DEF ListOk, Reading, NoTwice
  <2>6. CASE Set(r, new)
    BY <1>2, <2>3, <2>6 DEF Set, Inv
  <2>7. ASSUME NEW good \in BOOLEAN, Settle(r, new, good)
        PROVE  rq'[q] \in {rq[q], [rq[q] EXCEPT !.pc = "send"], Refused(q)}
    BY <1>2, <2>7 DEF Settle
  <2>8. QED  BY <2>3, <2>4, <2>5, <2>6, <2>7 DEF Goes
<1>3. QED  BY <1>1, <1>2 DEF Lists

(* The list is kept and nobody begins to read. *)
LEMMA SameList ==
    ASSUME NEW q, NEW new, NEW bad, ListOk(q, bad), new.list = q.list,
           new.pc \in Reading => q.pc \in Reading,
           new.pc \in {"read", "drain"} => q.list # <<>>
    PROVE  ListOk(new, bad)
BY DEF ListOk

LEMMA EmptyList ==
    ASSUME NEW new, NEW bad, new.list = <<>>, new.pc \notin {"read", "drain"}
    PROVE  ListOk(new, bad)
BY DEF ListOk, NoTwice, Clean

LEMMA EndsList ==
    ASSUME NEW q, Local(q), NEW pc \in {"finished", "refused", "cut"}, NEW bad
    PROVE  ListOk(Ends(q, pc), bad)
<1>1. Ends(q, pc).pc = pc /\ Ends(q, pc).list = <<>>
  BY DEF Ends, Local, Records
<1>2. QED  BY <1>1, EmptyList

LEMMA AtRequest ==
    ASSUME Inv, Lists, NEW r \in Requests
    PROVE  Local(rq[r]) /\ ListOk(rq[r], liars) /\ (rq[r].pc \in Reading => inflight = r)
BY DEF Inv, Own, Lists, Shared, OneFetch, Reading

LEMMA HitLists ==
    ASSUME Inv, Lists, NEW r \in Requests, Hit(r), liars' = liars
    PROVE  Lists'
<1> DEFINE new == [rq[r] EXCEPT !.pc = "send"]
<1>1. Goes(r, new)
  BY DEF Hit, Goes
<1>2. new.pc = "send" /\ new.list = rq[r].list
  BY AtRequest DEF Local, Records
<1> HIDE DEF new
<1>3. ListOk(new, liars)
  BY <1>2, AtRequest, SameList DEF Reading
<1>4. QED  BY <1>1, <1>3, ListsMove

LEMMA MissSets ==
    ASSUME NEW r \in Requests, Miss(r)
    PROVE  \/ Set(r, [rq[r] EXCEPT !.pc = "open", !.list = Trusted(r)])
           \/ Set(r, Answered(r))
           \/ Set(r, [rq[r] EXCEPT !.pc = "wait", !.list = <<>>])
           \/ Set(r, [rq[r] EXCEPT !.pc = "stat"])
<1>1. Whole # Head_
  BY DEF Whole, Head_
<1>2. CASE inflight = r
  BY <1>2 DEF Miss
<1>3. CASE inflight # r /\ rq[r].ask = Head_
  BY <1>1, <1>3 DEF Miss
<1>4. CASE inflight # r /\ rq[r].ask # Head_ /\ inflight # None
  BY <1>4 DEF Miss
<1>5. CASE inflight # r /\ rq[r].ask \notin {Head_, Whole} /\ inflight = None
  BY <1>5 DEF Miss
<1>6. CASE inflight # r /\ rq[r].ask = Whole /\ inflight = None
  BY <1>1, <1>6 DEF Miss
<1>7. QED  BY <1>2, <1>3, <1>4, <1>5, <1>6

(* A fetch begins with the holders that have not lied. *)
LEMMA MissLists ==
    ASSUME Inv, Lists, NEW r \in Requests, Miss(r), liars' = liars
    PROVE  Lists'
<1>1. Local(rq[r]) /\ ListOk(rq[r], liars)
  BY AtRequest
<1>2. CASE Set(r, [rq[r] EXCEPT !.pc = "open", !.list = Trusted(r)])
  <2> DEFINE new == [rq[r] EXCEPT !.pc = "open", !.list = Trusted(r)]
  <2>1. new.pc = "open" /\ new.list = Trusted(r)
    BY <1>1 DEF Local, Records
  <2>2. /\ Trusted(r) \in Seq(Kinds) /\ NoTwice(Trusted(r))
        /\ \A i \in 1 .. Len(Trusted(r)) : Trusted(r)[i] \notin liars
    BY <1>1, FilterFacts DEF Trusted, ListOk
  <2> HIDE DEF new
  <2>3. ListOk(new, liars)
    BY <2>1, <2>2 DEF ListOk, Clean
  <2>4. QED  BY <1>2, <2>3, ListsMove DEF Goes, new
<1>3. CASE Set(r, Answered(r))
  <2>1. ListOk(Answered(r), liars)
    BY <1>1, EndsList DEF Answered
  <2>2. QED  BY <1>3, <2>1, ListsMove DEF Goes
<1>4. CASE Set(r, [rq[r] EXCEPT !.pc = "wait", !.list = <<>>])
  <2> DEFINE new == [rq[r] EXCEPT !.pc = "wait", !.list = <<>>]
  <2>1. new.pc = "wait" /\ new.list = <<>>
    BY <1>1 DEF Local, Records
  <2> HIDE DEF new
  <2>2. QED  BY <1>4, <2>1, EmptyList, ListsMove DEF Goes, new
<1>5. CASE Set(r, [rq[r] EXCEPT !.pc = "stat"])
  <2> DEFINE new == [rq[r] EXCEPT !.pc = "stat"]
  <2>1. new.pc = "stat" /\ new.list = rq[r].list
    BY <1>1 DEF Local, Records
  <2> HIDE DEF new
  <2>2. ListOk(new, liars)
    BY <1>1, <2>1, SameList DEF Reading
  <2>3. QED  BY <1>5, <2>2, ListsMove DEF Goes, new
<1>6. QED  BY <1>2, <1>3, <1>4, <1>5, MissSets

(* A holder that failed, or lied, leaves the list. *)
LEMMA FailedLists ==
    ASSUME Inv, Lists, NEW r \in Requests, rq[r].pc \in {"open", "read"}, rq[r].list # <<>>,
           NEW now, Local(now), now.list = rq[r].list, Failed(r, now),
           liars' \in {liars, liars \cup {Head(rq[r].list)}}
    PROVE  Lists'
<1> DEFINE s == rq[r].list
           cut == Ends(now, "cut")
           new == [now EXCEPT !.pc = "open", !.list = Tail(@)]
<1>1. ListOk(rq[r], liars) /\ inflight = r
  BY AtRequest DEF Reading
<1>2. CASE Settle(r, cut, FALSE)
  <2>1. ListOk(cut, liars')
    BY EndsList
  <2> HIDE DEF cut
  <2>2. QED  BY <1>1, <1>2, <2>1, ListsMove DEF Goes
<1>3. CASE Set(r, new)
  <2>1. new.pc = "open" /\ new.list = Tail(s)
    BY DEF Local, Records
  <2>2. /\ s \in Seq(Kinds) /\ NoTwice(s) /\ Clean(s, liars) /\ s # <<>>
    BY <1>1 DEF ListOk, Reading
  <2> HIDE DEF s
  <2>3. /\ Tail(s) \in Seq(Kinds) /\ NoTwice(Tail(s))
        /\ \A i \in 1 .. Len(Tail(s)) : Tail(s)[i] # Head(s) /\ Tail(s)[i] \notin liars
    BY <2>2, TailOnce DEF Clean
  <2>4. Clean(Tail(s), liars')
    BY <2>3 DEF Clean, s
  <2> HIDE DEF new
  <2>5. ListOk(new, liars')
    BY <2>1, <2>3, <2>4 DEF ListOk
  <2>6. QED  BY <1>1, <1>3, <2>5, ListsMove DEF Goes
<1>4. QED  BY <1>2, <1>3 DEF Failed

LEMMA ArriveLists ==
    ASSUME Inv, Lists, NEW r \in Requests, Arrival(r)
    PROVE  Lists'
<1>1. PICK ask \in Asks, healthy \in SUBSET Kinds, pinned \in {Kinds} \cup {{k} : k \in Kinds} :
         Arrive(r, ask, HoldersFor(healthy, pinned))
  BY DEF Arrival
<1> DEFINE l == HoldersFor(healthy, pinned)
           first == IF ask = Head_ THEN <<>> ELSE l
           looks == [Idle EXCEPT !.pc = "stat", !.ask = ask, !.list = first]
           over == [Idle EXCEPT !.pc = "finished", !.ask = ask]
           waits == [Idle EXCEPT !.pc = "wait", !.ask = ask]
<1>2. liars' = liars /\ (Set(r, looks) \/ Set(r, over) \/ Set(r, waits))
  BY <1>1 DEF Arrive
<1>3. first \in Seq(Kinds) /\ NoTwice(first)
  <2>1. <<>> \in Seq(Kinds) /\ NoTwice(<<>>)
    BY DEF NoTwice
  <2>2. QED  BY <2>1, HoldersOnce
<1> HIDE DEF first
<1>4. /\ looks.pc = "stat" /\ looks.list = first
      /\ over.pc = "finished" /\ over.list = <<>>
      /\ waits.pc = "wait" /\ waits.list = <<>>
  BY DEF Idle
<1> HIDE DEF looks, over, waits
<1>5. ListOk(looks, liars) /\ ListOk(over, liars) /\ ListOk(waits, liars)
  BY <1>3, <1>4, EmptyList DEF ListOk, Reading
<1>6. QED  BY <1>2, <1>5, ListsMove DEF Goes

LEMMA CacheLists ==
    ASSUME Inv, Lists, NEW r \in Requests, Stat(r) \/ Hash(r) \/ Rm(r)
    PROVE  Lists'
<1>1. Local(rq[r]) /\ ListOk(rq[r], liars) /\ liars' = liars
  BY AtRequest DEF Stat, Hash, Rm
<1>2. ASSUME NEW pc \in {"hash", "rm"}, Set(r, [rq[r] EXCEPT !.pc = pc]) PROVE Lists'
  <2> DEFINE new == [rq[r] EXCEPT !.pc = pc]
  <2>1. new.pc = pc /\ new.list = rq[r].list
    BY <1>1 DEF Local, Records
  <2> HIDE DEF new
  <2>2. ListOk(new, liars)
    BY <1>1, <2>1, SameList DEF Reading
  <2>3. QED  BY <1>1, <1>2, <2>2, ListsMove DEF Goes, new
<1>3. ASSUME Goes(r, Refused(r)) PROVE Lists'
  <2>1. ListOk(Refused(r), liars)
    BY <1>1, EndsList DEF Refused
  <2>2. QED  BY <1>1, <1>3, <2>1, ListsMove
<1>4. \/ Hit(r) \/ Miss(r) \/ Goes(r, Refused(r))
      \/ \E pc \in {"hash", "rm"} : Set(r, [rq[r] EXCEPT !.pc = pc])
  <2>1. file \in {"none", "right", "rotten", "short"} /\ checked \in BOOLEAN
    BY DEF Inv, Shared
  <2>2. CASE Stat(r)
    BY <2>1, <2>2 DEF Stat
  <2>3. CASE Hash(r)
    BY <2>1, <2>3 DEF Hash, Goes
  <2>4. CASE Rm(r)
    BY <2>4 DEF Rm
  <2>5. QED  BY <2>2, <2>3, <2>4
<1>5. QED  BY <1>1, <1>2, <1>3, <1>4, HitLists, MissLists

LEMMA OpenLists ==
    ASSUME Inv, Lists, NEW r \in Requests, Open(r)
    PROVE  Lists'
<1> DEFINE new == [rq[r] EXCEPT !.pc = "read", !.n = 0, !.good = 0]
<1>1. /\ Local(rq[r]) /\ ListOk(rq[r], liars) /\ rq[r].pc = "open" /\ rq[r].list # <<>>
      /\ liars' = liars /\ (Set(r, new) \/ Failed(r, rq[r]))
  BY AtRequest DEF Open, At
<1>2. new.pc = "read" /\ new.list = rq[r].list
  BY <1>1 DEF Local, Records
<1> HIDE DEF new
<1>3. ListOk(new, liars)
  BY <1>1, <1>2, SameList DEF Reading
<1>4. QED  BY <1>1, <1>3, ListsMove, FailedLists DEF Goes

LEMMA StopLists ==
    ASSUME Inv, Lists, NEW r \in Requests, Exhausted(r) \/ SendFile(r)
    PROVE  Lists'
<1>1. Local(rq[r]) /\ ListOk(rq[r], liars) /\ liars' = liars
  BY AtRequest DEF Exhausted, SendFile
<1>2. ASSUME NEW q, Local(q), NEW pc \in {"finished", "refused", "cut"}, Goes(r, Ends(q, pc)) PROVE Lists'
  <2>1. ListOk(Ends(q, pc), liars)
    BY <1>2, EndsList
  <2>2. QED  BY <1>1, <1>2, <2>1, ListsMove
<1>3. PICK q : Local(q) /\ \E pc \in {"finished", "refused", "cut"} : Goes(r, Ends(q, pc))
  <2>1. CASE Exhausted(r)
    BY <1>1, <2>1 DEF Exhausted, Goes, Refused
  <2>2. CASE SendFile(r)
    <3> DEFINE from == FirstOf(rq[r].ask)
               to == LastOf(rq[r].ask)
               send == [rq[r] EXCEPT !.from = from, !.len = to - from + 1, !.right = file = "right"]
               whole == [send EXCEPT !.got = to - from + 1]
    <3>1. CASE Set(r, Refused(r))
      BY <1>1, <3>1 DEF Refused, Goes
    <3>2. CASE Set(r, Answered(r))
      BY <1>1, <3>2 DEF Answered, Goes
    <3>3. CASE /\ ~(from > to \/ from >= Size)
               /\ Set(r, Ends(send, "cut")) \/ Set(r, Ends(whole, "finished"))
      <4>1. Local(send) /\ Local(whole)
        <5>1. rq[r].ask \in Asks /\ rq[r] \in Records({rq[r].list})
          BY <1>1 DEF Local, Records
        <5>2. from \in Int /\ to \in Int /\ Size \in Nat
          BY <5>1, RangeIsInt
        <5>3. from \in Nat /\ to \in 0 .. Size - 1 /\ from <= to
          BY <3>3, <5>1, <5>2, RangeIsWanted
        <5> HIDE DEF from, to
        <5>4. to - from + 1 \in 0 .. Size
          BY <5>2, <5>3
        <5> DEFINE n == to - from + 1
                   ok == file = "right"
        <5> HIDE DEF n, ok
        <5>5. /\ send = [rq[r] EXCEPT !.from = from, !.len = n, !.right = ok]
              /\ whole = [send EXCEPT !.got = n]
          BY DEF n, ok
        <5>6. n \in 0 .. Size /\ ok \in BOOLEAN
          BY <5>4 DEF n, ok
        <5> HIDE DEF send, whole
        <5>7. send \in Records({rq[r].list}) /\ send.list = rq[r].list
          BY <5>1, <5>3, <5>5, <5>6 DEF Records
        <5>8. whole \in Records({rq[r].list}) /\ whole.list = rq[r].list
          BY <5>5, <5>6, <5>7 DEF Records
        <5>9. QED  BY <5>7, <5>8 DEF Local
      <4>2. QED  BY <3>3, <4>1 DEF Goes
    <3>4. QED  BY <2>2, <3>1, <3>2, <3>3 DEF SendFile
  <2>3. QED  BY <2>1, <2>2
<1>4. QED  BY <1>2, <1>3

LEMMA ChunkLists ==
    ASSUME Inv, Lists, NEW r \in Requests, NEW right \in BOOLEAN, NEW full \in BOOLEAN, Chunk(r, right, full)
    PROVE  Lists'
<1> DEFINE one == Landed(r, right)
           out == Released(r, right)
           new == [out EXCEPT !.pc = IF full THEN "drain" ELSE @]
<1>1. /\ Own(rq[r]) /\ ListOk(rq[r], liars) /\ rq[r].pc = "read" /\ rq[r].list # <<>> /\ liars' = liars
      /\ rq[r] \in Records({rq[r].list})
  BY AtRequest DEF Inv, Chunk, At, ListOk, Own, Local
<1>2. one.pc = "read" /\ one.list = rq[r].list
  BY <1>1 DEF Landed, Records
<1>3. out.pc = "read" /\ out.list = rq[r].list
  BY <1>1 DEF Landed, Released, Records
<1>4. CASE Failed(r, rq[r])
  BY <1>1, <1>4, FailedLists DEF Own
<1>5. CASE Set(r, one)
  <2> HIDE DEF one
  <2>1. ListOk(one, liars)
    BY <1>1, <1>2, SameList DEF Reading
  <2>2. QED  BY <1>1, <1>5, <2>1, ListsMove DEF Goes
<1>6. CASE ~TooMuch(r) /\ Passes(r) /\ Set(r, new)
  <2>1. Own(out)
    BY <1>1, <1>6, ReleasedInOrder
  <2> HIDE DEF out
  <2>2. new.pc \in {"read", "drain"} /\ new.list = rq[r].list
    BY <1>3, <2>1 DEF Own, Local, Records
  <2> HIDE DEF new
  <2>3. ListOk(new, liars)
    BY <1>1, <2>2, SameList DEF Reading
  <2>4. QED  BY <1>1, <1>6, <2>3, ListsMove DEF Goes
<1>7. CASE ~TooMuch(r) /\ Passes(r) /\ Failed(r, out)
  <2>1. Own(out)
    BY <1>1, <1>7, ReleasedInOrder
  <2> HIDE DEF out
  <2>2. QED  BY <1>1, <1>3, <1>7, <2>1, FailedLists DEF Own
<1>8. QED  BY <1>4, <1>5, <1>6, <1>7 DEF Chunk

LEMMA EndLists ==
    ASSUME Inv, Lists, NEW r \in Requests, End(r)
    PROVE  Lists'
<1>1. /\ Local(rq[r]) /\ ListOk(rq[r], liars) /\ rq[r].pc = "read" /\ rq[r].list # <<>>
  BY AtRequest DEF End, At, ListOk
<1>2. CASE ~Verified(r)
  BY <1>1, <1>2, FailedLists DEF End
<1>3. CASE Verified(r)
  <2> DEFINE all == [rq[r] EXCEPT !.len = Size, !.got = Size, !.right = rq[r].good >= Size]
             sends == [rq[r] EXCEPT !.pc = "send"]
  <2>1. liars' = liars /\ (Goes(r, Ends(all, "finished")) \/ Goes(r, Ends(rq[r], "cut")) \/ Goes(r, sends))
    BY <1>3 DEF End, Goes
  <2>2. Local(all)
    <3>1. Size \in 0 .. Size /\ (rq[r].good >= Size) \in BOOLEAN
      BY VerifiedAssumption
    <3>2. all \in Records({rq[r].list}) /\ all.list = rq[r].list
      BY <1>1, <3>1 DEF Local, Records
    <3>3. QED  BY <3>2 DEF Local
  <2>3. ListOk(Ends(all, "finished"), liars) /\ ListOk(Ends(rq[r], "cut"), liars)
    BY <1>1, <2>2, EndsList
  <2>4. sends.pc = "send" /\ sends.list = rq[r].list
    BY <1>1 DEF Local, Records
  <2> HIDE DEF all, sends
  <2>5. ListOk(sends, liars)
    BY <1>1, <2>4, SameList DEF Reading
  <2>6. QED  BY <2>1, <2>3, <2>5, ListsMove
<1>4. QED  BY <1>2, <1>3

LEMMA PauseLists ==
    ASSUME Inv, Lists, NEW r \in Requests, Drain(r) \/ Break(r) \/ ClientGone(r)
    PROVE  Lists'
<1>1. Local(rq[r]) /\ ListOk(rq[r], liars) /\ liars' = liars
  BY AtRequest DEF Drain, Break, ClientGone
<1>2. CASE Drain(r)
  <2> DEFINE new == [rq[r] EXCEPT !.pc = "read"]
  <2>1. Set(r, new) /\ rq[r].pc = "drain" /\ rq[r].list # <<>>
    BY <1>1, <1>2 DEF Drain, At, ListOk
  <2>2. new.pc = "read" /\ new.list = rq[r].list
    BY <1>1 DEF Local, Records
  <2> HIDE DEF new
  <2>3. ListOk(new, liars)
    BY <1>1, <2>1, <2>2, SameList DEF Reading
  <2>4. QED  BY <1>1, <2>1, <2>3, ListsMove DEF Goes
<1>3. CASE Break(r)
  BY <1>1, <1>3, FailedLists DEF Break, At, ListOk
<1>4. CASE ClientGone(r)
  <2> DEFINE new == [rq[r] EXCEPT !.here = FALSE]
  <2>1. Set(r, new)
    BY <1>4 DEF ClientGone
  <2>2. new.pc = rq[r].pc /\ new.list = rq[r].list
    BY <1>1 DEF Local, Records
  <2> HIDE DEF new
  <2>3. ListOk(new, liars)
    BY <1>1, <2>2, SameList DEF ListOk
  <2>4. QED  BY <1>1, <2>1, <2>3, ListsMove DEF Goes
<1>5. QED  BY <1>2, <1>3, <1>4

LEMMA RestartLists ==
    ASSUME Inv, Lists, Restart
    PROVE  Lists'
<1>1. ASSUME NEW r \in Requests PROVE ListOk(rq'[r], liars')
  <2>1. Local(rq[r]) /\ ListOk(rq[r], liars)
    BY AtRequest
  <2>2. rq'[r] = (IF rq[r].pc \in Working THEN Ends(rq[r], "cut") ELSE rq[r]) /\ liars' = {}
    BY DEF Restart
  <2>3. CASE rq[r].pc \in Working
    BY <2>1, <2>2, <2>3, EndsList
  <2>4. CASE rq[r].pc \notin Working
    BY <2>1, <2>2, <2>4 DEF ListOk, Clean
  <2>5. QED  BY <2>3, <2>4
<1>2. QED  BY <1>1 DEF Lists

LEMMA InitLists == Init => Lists
<1> SUFFICES ASSUME Init PROVE Lists
  OBVIOUS
<1>1. Idle.pc = "idle" /\ Idle.list = <<>>
  BY DEF Idle
<1>2. ListOk(Idle, liars)
  BY <1>1, EmptyList
<1>3. QED  BY <1>2 DEF Init, Lists

LEMMA NextLists == Inv /\ Lists /\ [Next]_vars => Lists'
<1> SUFFICES ASSUME Inv, Lists, [Next]_vars PROVE Lists'
  OBVIOUS
<1>1. ASSUME NEW r \in Requests, Step(r) PROVE Lists'
  BY <1>1, CacheLists, OpenLists, StopLists, ChunkLists, EndLists, PauseLists DEF Step
<1>2. CASE UNCHANGED vars
  BY <1>2 DEF vars, Lists
<1>3. QED  BY <1>1, <1>2, ArriveLists, PauseLists, RestartLists DEF Next

(* Only a list that is not empty is read from. *)
LEMMA ReadsOneOf ==
    ASSUME Inv, Lists, [Next]_vars, NEW r \in Requests, At(r, "open"), rq'[r].pc = "read"
    PROVE  rq[r].list # <<>>
<1> SUFFICES ASSUME rq[r].list = <<>> PROVE FALSE
  OBVIOUS
<1>1. rq[r].pc = "open" /\ Local(rq[r])
  BY AtRequest DEF At
<1>2. ASSUME NEW q \in Requests, NEW new, Goes(q, new), q # r PROVE FALSE
  BY <1>1, <1>2 DEF Goes, Set, Settle, At, Inv
<1>3. ASSUME NEW q \in Requests, Arrival(q) \/ Step(q) \/ ClientGone(q) PROVE q = r
  <2>1. \E new : Goes(q, new)
    <3>1. ASSUME Hit(q) \/ Miss(q) PROVE \E new : Goes(q, new)
      <4>1. CASE Hit(q)
        BY <4>1 DEF Hit, Goes
      <4>2. CASE Miss(q)
        BY <4>2, MissSets DEF Goes
      <4>3. QED  BY <3>1, <4>1, <4>2
    <3>2. ASSUME NEW now, Failed(q, now) PROVE \E new : Goes(q, new)
      BY <3>2 DEF Failed, Goes
    <3>3. file \in {"none", "right", "rotten", "short"} /\ checked \in BOOLEAN
      BY DEF Inv, Shared
    <3>4. CASE Arrival(q)
      BY <3>4 DEF Arrival, Arrive, Goes
    <3>5. CASE Stat(q)
      BY <3>1, <3>3, <3>5 DEF Stat, Goes
    <3>6. CASE Hash(q)
      BY <3>1, <3>3, <3>6 DEF Hash, Goes
    <3>7. CASE Rm(q)
      BY <3>1, <3>7 DEF Rm
    <3>8. CASE Open(q)
      BY <3>2, <3>8 DEF Open, Goes
    <3>9. CASE Exhausted(q)
      BY <3>9 DEF Exhausted, Goes
    <3>10. CASE Break(q)
      BY <3>2, <3>10 DEF Break
    <3>11. CASE End(q)
      BY <3>2, <3>11 DEF End, Goes
    <3>12. ASSUME NEW right \in BOOLEAN, NEW full \in BOOLEAN, Chunk(q, right, full) PROVE \E new : Goes(q, new)
      BY <3>2, <3>12 DEF Chunk, Goes
    <3>13. CASE Drain(q)
      BY <3>13 DEF Drain, Goes
    <3>14. CASE SendFile(q)
      BY <3>14 DEF SendFile, Goes
    <3>15. CASE ClientGone(q)
      BY <3>15 DEF ClientGone, Goes
    <3>16. QED
      BY <1>3, <3>4, <3>5, <3>6, <3>7, <3>8, <3>9, <3>10, <3>11, <3>12, <3>13, <3>14, <3>15 DEF Step
  <2>2. QED  BY <1>2, <2>1
<1>4. CASE Arrival(r)
  BY <1>1, <1>4 DEF Arrival, Arrive, Ended
<1>5. CASE Step(r)
  <2>1. Exhausted(r)
    BY <1>1, <1>5 DEF Step, Stat, Hash, Rm, Open, Break, End, Chunk, Drain, SendFile, At
  <2>2. rq'[r] = Refused(r)
    BY <2>1 DEF Exhausted, Settle
  <2>3. Refused(r).pc = "refused"
    BY <1>1 DEF Refused, Ends, Local, Records
  <2>4. QED  BY <2>2, <2>3
<1>6. CASE ClientGone(r)
  <2>1. rq' = [rq EXCEPT ![r] = [rq[r] EXCEPT !.here = FALSE]]
    BY <1>6 DEF ClientGone, Set
  <2>2. rq'[r].pc = "open"
    BY <1>1, <2>1 DEF Inv, Local, Records
  <2>3. QED  BY <2>2
<1>7. CASE Restart
  <2>1. rq'[r] = Ends(rq[r], "cut")
    BY <1>1, <1>7 DEF Restart, Working
  <2>2. rq'[r].pc = "cut"
    BY <1>1, <2>1 DEF Ends, Local, Records
  <2>3. QED  BY <2>2
<1>8. CASE UNCHANGED vars
  BY <1>1, <1>8 DEF vars
<1>9. QED  BY <1>3, <1>4, <1>5, <1>6, <1>7, <1>8 DEF Next

(* No fetch reads from a holder that this process has caught lying about the *)
(* file, whichever request caught it: the list is filtered when a fetch      *)
(* begins, and whoever lies later is the one that fetch reads and then drops *)
(* (liars of verified-bytes.mjs).                                            *)
THEOREM EdgeSkipsLiars == Spec => LiarsSkipped
<1>1. Inv /\ Lists /\ [Next]_vars
        => \A r \in Requests : At(r, "open") /\ rq'[r].pc = "read" => Head(rq[r].list) \notin liars
  <2> SUFFICES ASSUME Inv, Lists, [Next]_vars, NEW r \in Requests, At(r, "open"), rq'[r].pc = "read"
               PROVE  Head(rq[r].list) \notin liars
    OBVIOUS
  <2> DEFINE s == rq[r].list
  <2>1. s # <<>>
    BY ReadsOneOf
  <2>2. s \in Seq(Kinds) /\ Clean(s, liars)
    BY AtRequest DEF ListOk, At, Reading
  <2> HIDE DEF s
  <2>3. Len(s) \in Nat \ {0} /\ Head(s) = s[1]
    BY <2>1, <2>2
  <2>4. QED  BY <2>2, <2>3 DEF Clean, s
<1>2. QED  BY InitInv, NextInv, InitLists, NextLists, <1>1, PTL DEF Spec, LiarsSkipped
=============================================================================
