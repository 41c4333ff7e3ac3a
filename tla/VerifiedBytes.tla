--------------------------- MODULE VerifiedBytes ---------------------------
(***************************************************************************)
(* The verifying edge of the model hub (deploy/verified-bytes.mjs, called  *)
(* from serveVerified of deploy/hub-resolve.mjs): one file, fetched from    *)
(* holders nobody trusts, passed on to a client while it lands, kept in a   *)
(* cache, and asked for by several clients at once.                        *)
(*                                                                         *)
(* All state of the code is kept per sha256, so one file is enough.  Bytes  *)
(* are counted in units (HOLD and the size are multiples of one); of a run  *)
(* of units it only matters whether they all are the file's own.  Hashing   *)
(* is assumed free of collisions.  A step ends where the code awaits.       *)
(***************************************************************************)
EXTENDS Filtering, FiniteSets

CONSTANTS
    Requests,   \* requests that can be in flight at once
    Kinds,      \* holder kinds
    Order,      \* ORDER of hub-resolve: the kinds, best first
    Size,       \* the size the index names
    Hold,       \* HOLD
    Ranges,     \* Range headers clients send, see Wanted
    MaxAsks,    \* bound: requests that ever arrive
    MaxKills,   \* bound: restarts of the process
    None        \* no request

ASSUME VerifiedAssumption ==
    /\ Kinds # {} /\ Order \in Seq(Kinds)
    /\ \A i, j \in 1 .. Len(Order) : Order[i] = Order[j] => i = j
    /\ Size \in Nat \ {0} /\ Hold \in Nat \ {0}
    /\ MaxAsks \in Nat /\ MaxKills \in Nat
    /\ None \notin Requests
    /\ Ranges \subseteq [type : {"span", "from", "last"}, a : Nat, b : Nat]

VARIABLES
    file,       \* <cache>/sha256/<hex>: "none", "right", "rotten" or "short"
    checked,    \* whether `checked` has the file
    liars,      \* liars.get(hex)
    inflight,   \* the request whose promise inflight.get(hex) is, or None
    rq,         \* requests: local state and what the client has received
    asks,       \* requests that have arrived
    kills       \* restarts so far

vars == <<file, checked, liars, inflight, rq, asks, kills>>

Whole == [type |-> "whole", a |-> 0, b |-> 0]
Head_ == [type |-> "head", a |-> 0, b |-> 0]
Asks == Ranges \cup {Whole, Head_}

Ended == {"idle", "finished", "refused", "cut"}
Working == {"stat", "hash", "rm", "wait", "open", "read", "drain", "send"}

(* `list` is the holders still to try, `n` how much the current one has sent  *)
(* and `good` how much of that, from its start, is the file's; `from`, `len`  *)
(* and `got` are the range promised to the client and the units it has,       *)
(* `right` whether they are the file's; `here` is whether the client is still *)
(* connected.                                                                 *)
Idle == [pc |-> "idle", ask |-> Whole, list |-> <<>>, n |-> 0, good |-> 0,
         started |-> FALSE, from |-> 0, len |-> 0, got |-> 0, right |-> TRUE,
         here |-> TRUE]

Init ==
    /\ file \in {"none", "right", "rotten", "short"}
    /\ checked = FALSE /\ liars = {} /\ inflight = None
    /\ rq = [r \in Requests |-> Idle]
    /\ asks = 0 /\ kills = 0

At(r, pc) == rq[r].pc = pc
Set(r, new) == rq' = [rq EXCEPT ![r] = new]
Streaming(r) == rq[r].ask = Whole

-----------------------------------------------------------------------------
(* holders of hub-resolve: those found healthy first, each part in ORDER; one *)
(* kind only when the client pinned it.                                       *)
HoldersFor(healthy, pinned) ==
    Filter(Order, healthy \cap pinned) \o Filter(Order, pinned \ healthy)

(* sendFile's reading of a Range header. *)
FirstOf(ask) ==
    CASE ask.type \in {"span", "from"} -> ask.a
      [] ask.type = "last" -> IF ask.a < Size THEN Size - ask.a ELSE 0
      [] OTHER -> 0
LastOf(ask) ==
    IF ask.type = "span" /\ ask.b < Size THEN ask.b ELSE Size - 1

(* The handler of a request returns: its local state goes, the client keeps *)
(* what it has.  It is answered without a body, or refused with an error.   *)
Ends(now, pc) == [now EXCEPT !.pc = pc, !.list = <<>>, !.n = 0, !.good = 0,
                             !.started = FALSE, !.here = TRUE]
Answered(r) == Ends(rq[r], "finished")
Refused(r) == Ends(rq[r], "refused")

(* inflight's promise settles: `mine` is the new state of the request behind *)
(* it, and those that wait for it go on to the file or are refused.          *)
(* variant for mutation: an error is not passed on to those who wait *)
SettleAlone(r, mine, good) ==
    /\ inflight' = None
    /\ rq' = [q \in Requests |->
                 IF q = r THEN mine
                 ELSE IF At(q, "wait") /\ good THEN [rq[q] EXCEPT !.pc = "send"] ELSE rq[q]]
Settle(r, mine, good) ==
    /\ inflight' = None
    /\ rq' = [q \in Requests |->
                 IF q = r THEN mine
                 ELSE IF ~At(q, "wait") THEN rq[q]
                 ELSE IF good THEN [rq[q] EXCEPT !.pc = "send"] ELSE Refused(q)]

-----------------------------------------------------------------------------
(* A request arrives with the holders of its model.  When the file is being *)
(* fetched it waits for that; otherwise it looks into the cache first.      *)
Arrive(r, ask, list) ==
    /\ rq[r].pc \in Ended /\ asks < MaxAsks
    /\ asks' = asks + 1
    /\ Set(r, IF inflight = None THEN [Idle EXCEPT !.pc = "stat", !.ask = ask,
                                                 !.list = IF ask = Head_ THEN <<>> ELSE list]
              ELSE IF ask = Head_ THEN [Idle EXCEPT !.pc = "finished", !.ask = ask]
              ELSE [Idle EXCEPT !.pc = "wait", !.ask = ask])
    /\ UNCHANGED <<file, checked, liars, inflight, kills>>

(* cached() found a good copy. *)
Hit(r) ==
    IF inflight = r THEN Settle(r, [rq[r] EXCEPT !.pc = "send"], TRUE)
    ELSE Set(r, [rq[r] EXCEPT !.pc = "send"]) /\ UNCHANGED inflight

(* The holders that have not lied about this file. *)
(* variant for mutation: everyone is asked again *)
TrustedAll(r) == rq[r].list
Trusted(r) == Filter(rq[r].list, Kinds \ liars)

(* cached() found none.  In a fetch, the holders are next.  In             *)
(* streamVerified the map is read again: a HEAD is answered, a request      *)
(* that meets a fetch joins it, a Range starts one that streams to nobody,  *)
(* a plain GET starts one that streams to its own client.                   *)
(* variant for mutation: the map is not read again after the await *)
MissStale(r) ==
    IF rq[r].ask = Head_ THEN Set(r, Answered(r)) /\ UNCHANGED inflight
    ELSE Set(r, [rq[r] EXCEPT !.pc = "open", !.list = Trusted(r)]) /\ inflight' = r
Miss(r) ==
    IF inflight = r
    THEN Set(r, [rq[r] EXCEPT !.pc = "open", !.list = Trusted(r)]) /\ UNCHANGED inflight
    ELSE CASE rq[r].ask = Head_ -> Set(r, Answered(r)) /\ UNCHANGED inflight
           [] rq[r].ask # Head_ /\ inflight # None ->
                Set(r, [rq[r] EXCEPT !.pc = "wait", !.list = <<>>]) /\ UNCHANGED inflight
           [] rq[r].ask \notin {Head_, Whole} /\ inflight = None ->
                Set(r, [rq[r] EXCEPT !.pc = "stat"]) /\ inflight' = r
           [] rq[r].ask = Whole /\ inflight = None ->
                Set(r, [rq[r] EXCEPT !.pc = "open", !.list = Trusted(r)]) /\ inflight' = r

(* cached(): stat, hash unless this process has checked the file, remove it *)
(* when it is not what its name says.                                       *)
Stat(r) ==
    /\ At(r, "stat")
    /\ CASE file \in {"none", "short"} -> Miss(r)
         [] file \in {"right", "rotten"} /\ checked -> Hit(r)
         [] file \in {"right", "rotten"} /\ ~checked ->
              Set(r, [rq[r] EXCEPT !.pc = "hash"]) /\ UNCHANGED inflight
    /\ UNCHANGED <<file, checked, liars, asks, kills>>

(* A file that another request removed meanwhile cannot be read: the error *)
(* ends the request, and the fetch if it was one's.                        *)
(* variant for mutation: the file counts as checked before it is compared *)
HashEarly(r) ==
    /\ At(r, "hash")
    /\ checked' = TRUE
    /\ IF file = "right" THEN Hit(r)
       ELSE Set(r, [rq[r] EXCEPT !.pc = "rm"]) /\ UNCHANGED inflight
    /\ UNCHANGED <<file, liars, asks, kills>>
Hash(r) ==
    /\ At(r, "hash")
    /\ checked' = (checked \/ file = "right")
    /\ CASE file = "right" -> Hit(r)
         [] file \in {"rotten", "short"} ->
              Set(r, [rq[r] EXCEPT !.pc = "rm"]) /\ UNCHANGED inflight
         [] file = "none" ->
              IF inflight = r THEN Settle(r, Refused(r), FALSE)
              ELSE Set(r, Refused(r)) /\ UNCHANGED inflight
    /\ UNCHANGED <<file, liars, asks, kills>>

Rm(r) ==
    /\ At(r, "rm")
    /\ file' = "none"
    /\ Miss(r)
    /\ UNCHANGED <<checked, liars, asks, kills>>

-----------------------------------------------------------------------------
(* The fetch: verified's loop over the holders, or streamVerified's. *)

(* fetchOne came back without a file.  Once bytes went out the connection is *)
(* cut; before that the next holder is tried.                                *)
Failed(r, now) ==
    IF rq[r].started \/ now.started
    THEN Settle(r, Ends(now, "cut"), FALSE)
    ELSE Set(r, [now EXCEPT !.pc = "open", !.list = Tail(@)]) /\ UNCHANGED inflight

(* The holder answers, or does not. *)
Open(r) ==
    /\ At(r, "open") /\ rq[r].list # <<>>
    /\ \/ Set(r, [rq[r] EXCEPT !.pc = "read", !.n = 0, !.good = 0]) /\ UNCHANGED inflight
       \/ Failed(r, rq[r])
    /\ UNCHANGED <<file, checked, liars, asks, kills>>

Exhausted(r) ==
    /\ At(r, "open") /\ rq[r].list = <<>>
    /\ Settle(r, Refused(r), FALSE)
    /\ UNCHANGED <<file, checked, liars, asks, kills>>

(* One more unit from the holder, the file's own or not.  A unit too many   *)
(* is an error.  All but the last Hold units go out to the client of a      *)
(* plain GET, with the headers before the first; `full` is res.write        *)
(* returning false, after which the loop waits for "drain".                 *)
Landed(r, right) ==
    [rq[r] EXCEPT !.n = @ + 1, !.good = IF right /\ @ = rq[r].n THEN @ + 1 ELSE @]
Released(r, right) ==
    [Landed(r, right) EXCEPT !.started = TRUE, !.len = Size,
                             !.got = IF rq[r].here THEN rq[r].n + 1 - Hold ELSE @,
                             !.right = Landed(r, right).good >= rq[r].n + 1 - Hold]

TooMuch(r) == rq[r].n + 1 > Size
Passes(r) == Streaming(r) /\ rq[r].n + 1 > Hold

Chunk(r, right, full) ==
    /\ At(r, "read")
    /\ \/ TooMuch(r) /\ Failed(r, rq[r])
       \/ ~TooMuch(r) /\ ~Passes(r) /\ Set(r, Landed(r, right)) /\ UNCHANGED inflight
       \/ /\ ~TooMuch(r) /\ Passes(r) /\ rq[r].here
          /\ Set(r, [Released(r, right) EXCEPT !.pc = IF full THEN "drain" ELSE @])
          /\ UNCHANGED inflight
       \/ ~TooMuch(r) /\ Passes(r) /\ ~rq[r].here /\ Failed(r, Released(r, right))
    /\ UNCHANGED <<file, checked, liars, asks, kills>>

(* The client has taken what was written. *)
Drain(r) ==
    /\ At(r, "drain") /\ rq[r].here
    /\ Set(r, [rq[r] EXCEPT !.pc = "read"])
    /\ UNCHANGED <<file, checked, liars, inflight, asks, kills>>

(* The transfer breaks off or its hour is over.  (The write stream has no   *)
(* error listener: a write the disk refuses ends the process, see Restart.) *)
Break(r) ==
    /\ At(r, "read")
    /\ Failed(r, rq[r])
    /\ UNCHANGED <<file, checked, liars, asks, kills>>

(* The holder's last byte: the file is renamed into the cache and the rest *)
(* goes out, or the holder is noted as a liar.                             *)
(* variant for mutation: the length is compared and the hash is not *)
VerifiedLength(r) == rq[r].n = Size
Verified(r) == rq[r].n = Size /\ rq[r].good = Size
End(r) ==
    /\ At(r, "read")
    /\ IF Verified(r)
       THEN /\ file' = "right" /\ checked' = TRUE
            /\ Settle(r, IF Streaming(r)
                         THEN IF rq[r].here
                              THEN Ends([rq[r] EXCEPT !.len = Size, !.got = Size,
                                                      !.right = rq[r].good >= Size], "finished")
                              ELSE Ends(rq[r], "cut")
                         ELSE [rq[r] EXCEPT !.pc = "send"], TRUE)
            /\ UNCHANGED liars
       ELSE /\ liars' = liars \cup {Head(rq[r].list)}
            /\ Failed(r, rq[r])
            /\ UNCHANGED <<file, checked>>
    /\ UNCHANGED <<asks, kills>>

-----------------------------------------------------------------------------
(* sendFile: the range of the cached file, or 416; a file that is gone cuts *)
(* the connection after its headers.                                        *)
SendFile(r) ==
    LET from == FirstOf(rq[r].ask)
        to == LastOf(rq[r].ask)
        send == [rq[r] EXCEPT !.from = from, !.len = to - from + 1,
                              !.right = file = "right"]
    IN  /\ At(r, "send")
        /\ CASE from > to \/ from >= Size -> Set(r, Refused(r))
             [] ~(from > to \/ from >= Size) /\ rq[r].ask = Head_ -> Set(r, Answered(r))
             [] OTHER -> IF file = "none" \/ ~rq[r].here
                         THEN Set(r, Ends(send, "cut"))
                         ELSE Set(r, Ends([send EXCEPT !.got = to - from + 1], "finished"))
        /\ UNCHANGED <<file, checked, liars, inflight, asks, kills>>

(* A client goes away; the server notices when it next writes. *)
ClientGone(r) ==
    /\ rq[r].pc \in Working /\ rq[r].here
    /\ Set(r, [rq[r] EXCEPT !.here = FALSE])
    /\ UNCHANGED <<file, checked, liars, inflight, asks, kills>>

(* The process is restarted.  While it is down the cached file may rot or *)
(* be edited; nothing else of it is kept.                                 *)
Restart ==
    /\ kills < MaxKills /\ kills' = kills + 1
    /\ file' \in {file} \cup (IF file = "none" THEN {} ELSE {"rotten", "short"})
    /\ checked' = FALSE /\ liars' = {} /\ inflight' = None
    /\ rq' = [r \in Requests |-> IF rq[r].pc \in Working
                                 THEN Ends(rq[r], "cut") ELSE rq[r]]
    /\ UNCHANGED asks

Step(r) ==
    \/ Stat(r) \/ Hash(r) \/ Rm(r)
    \/ Open(r) \/ Exhausted(r) \/ Break(r) \/ End(r)
    \/ \E right, full \in BOOLEAN : Chunk(r, right, full)
    \/ Drain(r) \/ SendFile(r)

Arrival(r) ==
    \E ask \in Asks, healthy \in SUBSET Kinds, pinned \in {Kinds} \cup {{k} : k \in Kinds} :
        Arrive(r, ask, HoldersFor(healthy, pinned))

Next ==
    \/ \E r \in Requests : Arrival(r) \/ Step(r) \/ ClientGone(r)
    \/ Restart

Spec == Init /\ [][Next]_vars

(* The server runs its ready work, and a connected client reads on. *)
FairSpec == Spec /\ \A r \in Requests : WF_vars(Step(r))

-----------------------------------------------------------------------------
(* The units a client asked for, by what a Range means. *)
Wanted(ask) ==
    {i \in 0 .. Size - 1 :
        CASE ask.type = "span" -> ask.a <= i /\ i <= ask.b
          [] ask.type = "from" -> ask.a <= i
          [] ask.type = "last" -> Size - ask.a <= i
          [] OTHER -> TRUE}

(* "The client can never finish a wrong file": a client that has as many     *)
(* bytes as it was promised has the bytes of the file, and the part of it    *)
(* it asked for, whatever holders, other clients, the disk and restarts did. *)
NeverFinishesWrong ==
    \A r \in Requests :
        rq[r].len > 0 /\ rq[r].got = rq[r].len =>
            /\ rq[r].right
            /\ rq[r].from .. rq[r].from + rq[r].len - 1 = Wanted(rq[r].ask)

(* The cache answers without hashing only while the file is the right one:  *)
(* `checked` is never set for, or left over, a file with other bytes.       *)
CheckedIsRight == checked => file \in {"none", "right"}

(* "One fetch per file, however many clients ask": a request that reads from *)
(* a holder is the one the inflight map names, so no two fetches of a file   *)
(* run at once and nobody waits for a fetch that is not there.               *)
OneFetch ==
    \A r \in Requests :
        /\ rq[r].pc \in {"open", "read", "drain"} => inflight = r
        /\ rq[r].pc = "wait" => inflight # None /\ inflight # r

(* A holder noted as a liar is not read again for this file. *)
LiarsSkipped ==
    [][\A r \in Requests :
         At(r, "open") /\ rq'[r].pc = "read" => Head(rq[r].list) \notin liars]_vars

(* Every request ends, unless some client goes away while the server waits *)
(* for it to drain.                                                        *)
Abandoned == \E r \in Requests : At(r, "drain") /\ ~rq[r].here
EveryoneAnswered ==
    []~Abandoned => \A r \in Requests : (rq[r].pc \in Working) ~> (rq[r].pc \in Ended)
=============================================================================
