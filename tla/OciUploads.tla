----------------------------- MODULE OciUploads -----------------------------
(***************************************************************************)
(* Blob uploads (src/oci_store/uploads.rs, the routes of                   *)
(* src/modules/oci/uploads.rs and body.rs, and the upload calls of the     *)
(* vendored Kappa store): sessions opened, appended to, finished,          *)
(* cancelled and purged by concurrent requests, and resumed after a kill.  *)
(*                                                                         *)
(* A request is a process; each of its actions is one store call or one    *)
(* durable step of a call, because that is where tokio may run another     *)
(* request and where a kill may come.  upload_append holds the session's   *)
(* lock throughout and is one action; a kill inside it tears the frame     *)
(* (Torn).  Time is kept as ages that saturate at AgeCap: an age is        *)
(* now - touched_ms.                                                       *)
(***************************************************************************)
EXTENDS Naturals, Sequences, FiniteSets, OciVolume

CONSTANTS
    Requests,      \* request processes that can be in flight at once
    Purger,        \* the timer task that purges expired uploads
    Ids,           \* upload ids (fresh UUIDs, each given out once)
    Repos,
    Byte,          \* byte values
    Bodies,        \* request bodies
    Claims,        \* digests a client may claim for its upload
    FrameSize,     \* FRAME
    MaxAge,        \* storage.maintenance.uploadpurging.age
    RowInterval,   \* ROW_WRITE_INTERVAL_MS
    MaxRequests,   \* bound: requests that ever arrive
    MaxKills,      \* bound: kills of the server
    DiskErrors,    \* whether a write or rename to the disk may fail
    None           \* no upload, no repository

Actors == Requests \cup {Purger}
AgeCap == MaxAge + RowInterval
Ages == 0 .. AgeCap

ASSUME UploadsAssumption ==
    /\ Purger \notin Requests
    /\ None \notin Ids \cup Repos
    /\ Bodies \subseteq Seq(Byte)
    /\ Claims \subseteq [alg : {"sha256", "sha512", "blake3"}, of : Seq(Byte)]
    /\ FrameSize \in Nat \ {0}
    /\ MaxAge \in Nat
    /\ RowInterval \in Nat \ {0}
    /\ MaxRequests \in Nat
    /\ MaxKills \in Nat
    /\ DiskErrors \in BOOLEAN

VARIABLES
    vol,       \* blob files and links.redb, see OciVolume
    staged,    \* staging files: id -> bytes
    rows,      \* UPLOADS rows: id -> [repo, age]
    up,        \* whether the server runs
    live,      \* the ids in the `sessions` map
    sess,      \* session objects: id -> [repo, received, hash, age, written]
    kappa,     \* Kappa's upload_sessions: id -> offset
    req,       \* the requests in flight: actor -> local state
    used,      \* ids given out
    arrived,   \* requests that have arrived
    kills,     \* kills so far
    acks,      \* history: the chunks answered with 202
    idle       \* history: time since a session was begun or appended to

durable == <<vol, staged, rows>>
volatile == <<up, live, sess, kappa>>
history == <<used, arrived, kills, acks, idle>>
vars == <<durable, volatile, req, history>>

-----------------------------------------------------------------------------
(* Local state of a request.  `hash` is the running blake3: the set of the *)
(* one byte string hashed so far, or empty when it is not known.           *)
NoClaim == Digest("sha256", <<>>)
Idle == [op |-> "none", pc |-> "idle", id |-> None, repo |-> None, body |-> <<>>,
         from |-> 0, rest |-> <<>>, at |-> 0, claim |-> NoClaim, newly |-> FALSE,
         hash |-> {}, todo |-> {}]

At(a, pc) == up /\ req[a].pc = pc
Set(a, r) == req' = [req EXCEPT ![a] = r]
Goto(a, pc) == Set(a, [req[a] EXCEPT !.pc = pc])
End(a) == Set(a, Idle)

NextFrame(rest) == SubSeq(rest, 1, IF Len(rest) < FrameSize THEN Len(rest) ELSE FrameSize)
AfterFrame(rest) == SubSeq(rest, Len(NextFrame(rest)) + 1, Len(rest))
Older(age) == IF age < AgeCap THEN age + 1 ELSE AgeCap

Init ==
    /\ vol = EmptyVolume
    /\ staged = NoRows /\ rows = NoRows
    /\ up = TRUE /\ live = {} /\ sess = NoRows /\ kappa = NoRows
    /\ req = [a \in Actors |-> Idle]
    /\ used = {} /\ arrived = 0 /\ kills = 0 /\ acks = {} /\ idle = NoRows

-----------------------------------------------------------------------------
(* Requests arrive. *)

Arrive(a, r) ==
    /\ At(a, "idle") /\ a \in Requests /\ arrived < MaxRequests
    /\ arrived' = arrived + 1
    /\ Set(a, r)

(* POST, with the whole blob and its digest when `claims` is not empty: the *)
(* store's upload_begin creates the staging file and Kappa's session.       *)
Start(a, id, r, body, claims) ==
    /\ id \notin used
    /\ Arrive(a, [Idle EXCEPT !.op = IF claims = {} THEN "begin" ELSE "put",
                              !.pc = "begin_row", !.id = id, !.repo = r,
                              !.body = body, !.rest = body,
                              !.claim = IF claims = {} THEN NoClaim
                                        ELSE CHOOSE c \in claims : TRUE])
    /\ used' = used \cup {id}
    /\ staged' = Put(staged, id, <<>>)
    /\ kappa' = Put(kappa, id, 0)
    /\ UNCHANGED <<vol, rows, up, live, sess, kills, acks, idle>>

(* PATCH, PUT and DELETE of a session; each first reads its status. *)
Patch(a, id, r, body) ==
    /\ id \in used
    /\ Arrive(a, [Idle EXCEPT !.op = "patch", !.pc = "status", !.id = id, !.repo = r,
                              !.body = body, !.rest = body])
    /\ UNCHANGED <<durable, volatile, used, kills, acks, idle>>

Finish(a, id, r, body, claim) ==
    /\ id \in used
    /\ Arrive(a, [Idle EXCEPT !.op = "put", !.pc = "status", !.id = id, !.repo = r,
                              !.body = body, !.rest = body, !.claim = claim])
    /\ UNCHANGED <<durable, volatile, used, kills, acks, idle>>

Cancel(a, id, r) ==
    /\ id \in used
    /\ Arrive(a, [Idle EXCEPT !.op = "cancel", !.pc = "status", !.id = id, !.repo = r])
    /\ UNCHANGED <<durable, volatile, used, kills, acks, idle>>

-----------------------------------------------------------------------------
(* upload_begin after the staging file: row, repository, session. *)

BeginRow(a) ==
    /\ At(a, "begin_row")
    /\ rows' = Put(rows, req[a].id, [repo |-> req[a].repo, age |-> 0])
    /\ idle' = Put(idle, req[a].id, 0)
    /\ Goto(a, "begin_repo")
    /\ UNCHANGED <<vol, staged, volatile, used, arrived, kills, acks>>

BeginRepo(a) ==
    /\ At(a, "begin_repo")
    /\ vol' = RepoTouch(vol, req[a].repo)
    /\ Goto(a, "begin_session")
    /\ UNCHANGED <<staged, rows, volatile, history>>

(* The session carries the time of its row, so it starts with its age. *)
BeginSession(a) ==
    /\ At(a, "begin_session")
    /\ sess' = Put(sess, req[a].id,
                   [repo |-> req[a].repo, received |-> 0, hash |-> {<<>>},
                    age |-> rows[req[a].id].age, written |-> rows[req[a].id].age])
    /\ live' = live \cup {req[a].id}
    /\ IF req[a].op = "begin" THEN End(a) ELSE Goto(a, "frame")
    /\ UNCHANGED <<durable, up, kappa, history>>

-----------------------------------------------------------------------------
(* Streaming a body into a session. *)

(* session_of: an unknown id, or an id of another repository, ends the     *)
(* request; otherwise the session's total is where the body goes.          *)
Status(a) ==
    LET id == req[a].id IN
    /\ At(a, "status")
    /\ IF id \in live /\ sess[id].repo = req[a].repo
       THEN Set(a, [req[a] EXCEPT !.from = sess[id].received,
                                  !.at = sess[id].received,
                                  !.pc = IF req[a].op = "cancel" THEN "remove" ELSE "frame"])
       ELSE End(a)
    /\ UNCHANGED <<durable, volatile, history>>

(* A Content-Range that does not start at the total is refused. *)
RangeRefused(a) ==
    /\ At(a, "status") /\ req[a].op = "patch" /\ req[a].id \in live
    /\ End(a)
    /\ UNCHANGED <<durable, volatile, history>>

(* The framer has the next frame: upload_append looks the session up. *)
Frame(a) ==
    /\ At(a, "frame") /\ req[a].rest # <<>>
    /\ IF req[a].id \in live THEN Goto(a, "append") ELSE End(a)
    /\ UNCHANGED <<durable, volatile, history>>

(* The body has ended: a chunk is answered, a PUT goes on to finish. *)
BodyEnds(a) ==
    /\ At(a, "frame") /\ req[a].rest = <<>>
    /\ IF req[a].op = "put"
       THEN Goto(a, "remove") /\ UNCHANGED acks
       ELSE /\ End(a)
            /\ acks' = acks \cup {[id |-> req[a].id, from |-> req[a].from,
                                   body |-> req[a].body]}
    /\ UNCHANGED <<durable, volatile, used, arrived, kills, idle>>

(* The client goes away while the handler waits for its body, or between   *)
(* the body and the answer; a store call under way still runs to its end,  *)
(* and what was appended stays.                                            *)
ClientGone(a) ==
    /\ At(a, "frame")
    /\ End(a)
    /\ UNCHANGED <<durable, volatile, history>>

(* Variant for mutation: the session is there, its total is not compared. *)
AppendAnywhere(a) == req[a].id \in DOMAIN kappa

(* Whether the append under way will reach the disk: the session object and *)
(* Kappa both stand where the request thinks.  A finish or cancel that ran  *)
(* since the lookup has taken Kappa's session away.                         *)
AppendAccepted(a) ==
    LET id == req[a].id IN
    id \in DOMAIN kappa /\ sess[id].received = req[a].at /\ kappa[id] = req[a].at

(* Variant for mutation: the row is never rewritten. *)
RowNeverDue(id) == FALSE

RowDue(id) == sess[id].written >= RowInterval

(* The session after a frame that brings it to `total`. *)
Appended(s, frame, total, due) ==
    [repo |-> s.repo, received |-> total, hash |-> {bytes \o frame : bytes \in s.hash},
     age |-> 0, written |-> IF due THEN 0 ELSE s.written]

(* upload_append under the session's lock; the row is rewritten at most    *)
(* every RowInterval.                                                      *)
AppendFrame(a) ==
    LET id == req[a].id
        frame == NextFrame(req[a].rest)
        total == req[a].at + Len(frame)
    IN
    /\ At(a, "append")
    /\ IF AppendAccepted(a)
       THEN /\ staged' = [staged EXCEPT ![id] = @ \o frame]
            /\ kappa' = [kappa EXCEPT ![id] = total]
            /\ sess' = [sess EXCEPT ![id] = Appended(@, frame, total, RowDue(id))]
            /\ rows' = IF RowDue(id)
                       THEN Put(rows, id, [repo |-> sess[id].repo, age |-> 0])
                       ELSE rows
            /\ idle' = [idle EXCEPT ![id] = 0]
            /\ Set(a, [req[a] EXCEPT !.pc = "frame", !.at = total,
                                     !.rest = AfterFrame(req[a].rest)])
       ELSE /\ End(a)
            /\ UNCHANGED <<staged, kappa, sess, rows, idle>>
    /\ UNCHANGED <<vol, up, live, used, arrived, kills, acks>>

(* A write that fails part-way: the first bytes are in the file, neither   *)
(* total has moved, and the client gets an error.                          *)
AppendFrameFails(a) ==
    LET id == req[a].id
        frame == NextFrame(req[a].rest)
    IN
    /\ DiskErrors
    /\ At(a, "append") /\ AppendAccepted(a)
    /\ \E n \in 0 .. Len(frame) - 1 :
          staged' = [staged EXCEPT ![id] = @ \o SubSeq(frame, 1, n)]
    /\ End(a)
    /\ UNCHANGED <<vol, rows, volatile, history>>

-----------------------------------------------------------------------------
(* upload_finish and upload_cancel. *)

(* The session leaves the map first: of two that race, one wins.  A finish *)
(* that lost is UnknownUpload; a cancel that lost still deletes the row.   *)
Remove(a) ==
    /\ At(a, "remove")
    /\ IF req[a].id \in live
       THEN /\ live' = live \ {req[a].id}
            /\ Goto(a, IF req[a].op = "put" THEN "complete" ELSE "abort")
       ELSE /\ UNCHANGED live
            /\ IF req[a].op = "put" THEN End(a) ELSE Goto(a, "row_delete")
    /\ UNCHANGED <<durable, up, sess, kappa, history>>

(* Variants for mutation: the hash is not compared; the link is written    *)
(* before the hash is compared.                                            *)
CompleteUnverified(a) ==
    LET id == req[a].id
        claim == req[a].claim
    IN
    /\ At(a, "complete")
    /\ kappa' = Drop(kappa, {id})
    /\ sess' = Drop(sess, {id})
    /\ staged' = Drop(staged, {id})
    /\ vol' = StoreFile(vol, claim, staged[id])
    /\ Set(a, [req[a] EXCEPT !.newly = NewlyStored(vol, claim), !.hash = sess[id].hash,
                             !.pc = "commit"])
    /\ UNCHANGED <<rows, up, live, history>>
CompleteLinksEarly(a) ==
    LET id == req[a].id
        linked == LinkAdd(vol, req[a].repo, req[a].claim, "blob")
    IN
    /\ At(a, "complete")
    /\ kappa' = Drop(kappa, {id})
    /\ sess' = Drop(sess, {id})
    /\ staged' = Drop(staged, {id})
    /\ vol' = IF staged[id] = req[a].claim.of
              THEN StoreFile(linked, req[a].claim, staged[id]) ELSE linked
    /\ Goto(a, "row_delete")
    /\ UNCHANGED <<rows, up, live, history>>

(* Kappa's upload_complete: its session goes, the staged bytes are hashed, *)
(* and either renamed to their address or, on a mismatch, deleted.         *)
Complete(a) ==
    LET id == req[a].id
        claim == req[a].claim
    IN
    /\ At(a, "complete")
    /\ kappa' = Drop(kappa, {id})
    /\ sess' = Drop(sess, {id})
    /\ staged' = Drop(staged, {id})
    /\ IF staged[id] = claim.of
       THEN /\ vol' = StoreFile(vol, claim, staged[id])
            /\ Set(a, [req[a] EXCEPT !.newly = NewlyStored(vol, claim),
                                     !.hash = sess[id].hash,
                                     !.repo = sess[id].repo,
                                     !.pc = IF NeedsHardLink(claim) THEN "hard_link" ELSE "commit"])
       ELSE /\ Goto(a, "row_delete")
            /\ UNCHANGED vol
    /\ UNCHANGED <<rows, up, live, history>>

(* The store fails before the rename: the staging file and the row stay,   *)
(* with no session, until the next start.                                  *)
CompleteFails(a) ==
    /\ DiskErrors
    /\ At(a, "complete")
    /\ kappa' = Drop(kappa, {req[a].id})
    /\ sess' = Drop(sess, {req[a].id})
    /\ End(a)
    /\ UNCHANGED <<durable, up, live, history>>

(* A hard link that cannot be made is ignored. *)
HardLink(a) ==
    /\ At(a, "hard_link")
    /\ \/ vol' = HardLinkSha256(vol, req[a].claim)
       \/ DiskErrors /\ UNCHANGED vol
    /\ Goto(a, "commit")
    /\ UNCHANGED <<staged, rows, volatile, history>>

(* The other name of the published bytes: Kappa's sha256 for a blake3      *)
(* push; else the running blake3; else, after a restart lost it, the       *)
(* blake3 of the stored file.                                              *)
OtherName(stored, hash, bytes) ==
    IF stored.alg = "blake3" THEN Digest("sha256", bytes)
    ELSE IF hash # {} THEN Digest("blake3", CHOOSE h \in hash : TRUE)
    ELSE Digest("blake3", bytes)

Commit(a) ==
    LET stored == req[a].claim IN
    /\ At(a, "commit")
    /\ vol' = CommitFinishedUpload(vol, req[a].repo, stored,
                 OtherName(stored, req[a].hash, vol.files[stored]), req[a].newly)
    /\ rows' = Drop(rows, {req[a].id})
    /\ End(a)
    /\ UNCHANGED <<staged, volatile, history>>

(* Variant for mutation: the staging file stays. *)
AbortKeepsFile(a) ==
    /\ At(a, "abort")
    /\ kappa' = Drop(kappa, {req[a].id})
    /\ sess' = Drop(sess, {req[a].id})
    /\ Goto(a, "row_delete")
    /\ UNCHANGED <<durable, up, live, history>>

Abort(a) ==
    LET id == req[a].id IN
    /\ At(a, "abort")
    /\ kappa' = Drop(kappa, {id})
    /\ sess' = Drop(sess, {id})
    /\ staged' = Drop(staged, {id})
    /\ Goto(a, "row_delete")
    /\ UNCHANGED <<vol, rows, up, live, history>>

RowDelete(a) ==
    /\ At(a, "row_delete")
    /\ rows' = Drop(rows, {req[a].id})
    /\ IF req[a].op = "purge" THEN Goto(a, "purge") ELSE End(a)
    /\ UNCHANGED <<vol, staged, volatile, history>>

-----------------------------------------------------------------------------
(* purge_expired_uploads: the list is made first, then each is cancelled. *)

(* Variant for mutation: a resumed session never expires. *)
ExpiredUnlessResumed == {id \in live : sess[id].age > MaxAge /\ sess[id].hash # {}}

ExpiredUploads == {id \in live : sess[id].age > MaxAge}

PurgeScan ==
    /\ At(Purger, "idle") /\ ExpiredUploads # {}
    /\ Set(Purger, [Idle EXCEPT !.op = "purge", !.pc = "purge", !.todo = ExpiredUploads])
    /\ UNCHANGED <<durable, volatile, history>>

PurgeNext ==
    /\ At(Purger, "purge")
    /\ IF req[Purger].todo = {} THEN End(Purger)
       ELSE \E id \in req[Purger].todo :
              Set(Purger, [req[Purger] EXCEPT !.id = id, !.pc = "remove",
                                              !.todo = @ \ {id}])
    /\ UNCHANGED <<durable, volatile, history>>

-----------------------------------------------------------------------------
(* Kill, restart, time. *)

(* What a kill can leave in the staging files: a frame being written may   *)
(* be there in part or, unacknowledged, in whole.                          *)
Torn ==
    {staged} \cup
    UNION {{[staged EXCEPT ![req[a].id] = @ \o SubSeq(req[a].rest, 1, n)] :
              n \in 1 .. Len(NextFrame(req[a].rest))} :
           a \in {b \in Actors : req[b].pc = "append" /\ AppendAccepted(b)}}

Kill ==
    /\ up /\ kills < MaxKills
    /\ kills' = kills + 1
    /\ staged' \in Torn
    /\ up' = FALSE
    /\ live' = {} /\ sess' = NoRows /\ kappa' = NoRows
    /\ req' = [a \in Actors |-> Idle]
    /\ UNCHANGED <<vol, rows, used, arrived, acks, idle>>

(* Variants for mutation: a resumed session hashes on from nothing; it     *)
(* forgets its repository.                                                 *)
RestartWith(hash, repo(_)) ==
    LET both == DOMAIN rows \cap DOMAIN staged IN
    /\ ~up
    /\ up' = TRUE
    /\ rows' = Drop(rows, DOMAIN rows \ both)
    /\ staged' = Drop(staged, DOMAIN staged \ both)
    /\ kappa' = [id \in both |-> Len(staged[id])]
    /\ sess' = [id \in both |-> [repo |-> repo(id), received |-> Len(staged[id]),
                                 hash |-> hash, age |-> rows[id].age,
                                 written |-> rows[id].age]]
    /\ live' = both
    /\ UNCHANGED <<vol, req, history>>
RestartFreshHash == RestartWith({<<>>}, LAMBDA id : rows[id].repo)
RestartNoRepo == RestartWith({}, LAMBDA id : None)

(* resume_uploads: a row needs its staging file and a file its row.  The   *)
(* total is the file's length and the running hash is not known.           *)
Restart ==
    LET both == DOMAIN rows \cap DOMAIN staged IN
    /\ ~up
    /\ up' = TRUE
    /\ rows' = Drop(rows, DOMAIN rows \ both)
    /\ staged' = Drop(staged, DOMAIN staged \ both)
    /\ kappa' = [id \in both |-> Len(staged[id])]
    /\ sess' = [id \in both |-> [repo |-> rows[id].repo, received |-> Len(staged[id]),
                                 hash |-> {}, age |-> rows[id].age,
                                 written |-> rows[id].age]]
    /\ live' = both
    /\ UNCHANGED <<vol, req, history>>

Tick ==
    /\ rows' = [id \in DOMAIN rows |-> [rows[id] EXCEPT !.age = Older(@)]]
    /\ sess' = [id \in DOMAIN sess |-> [sess[id] EXCEPT !.age = Older(@),
                                                          !.written = Older(@)]]
    /\ idle' = [id \in DOMAIN idle |-> Older(idle[id])]
    /\ UNCHANGED <<vol, staged, up, live, kappa, req, used, arrived, kills, acks>>

-----------------------------------------------------------------------------
Arrival ==
    \E a \in Requests, id \in Ids, r \in Repos :
       \/ Start(a, id, r, <<>>, {})
       \/ \E body \in Bodies, claim \in Claims : Start(a, id, r, body, {claim})
       \/ \E body \in Bodies : Patch(a, id, r, body)
       \/ \E body \in Bodies, claim \in Claims : Finish(a, id, r, body, claim)
       \/ Cancel(a, id, r)

(* The client's side of a request under way. *)
Client(a) == RangeRefused(a) \/ ClientGone(a)

(* The server's side: one store call, or one durable step of it. *)
Serve(a) ==
    \/ BeginRow(a) \/ BeginRepo(a) \/ BeginSession(a)
    \/ Status(a) \/ Frame(a) \/ BodyEnds(a) \/ AppendFrame(a) \/ AppendFrameFails(a)
    \/ Remove(a) \/ Complete(a) \/ CompleteFails(a) \/ HardLink(a) \/ Commit(a)
    \/ Abort(a) \/ RowDelete(a)

Purge == PurgeScan \/ PurgeNext

Next ==
    \/ Arrival
    \/ \E a \in Actors : Client(a) \/ Serve(a)
    \/ Purge
    \/ Kill
    \/ Restart
    \/ Tick

Spec == Init /\ [][Next]_vars

(* The server runs its own steps, the purge timer fires, a supervisor      *)
(* restarts the server and time passes.  Nothing is asked of clients: a    *)
(* body may stall forever (Frame is not fair) and none need ever finish.   *)
Working(a) == Serve(a) /\ req[a].pc # "frame"
Fairness ==
    /\ \A a \in Actors : WF_vars(Working(a))
    /\ WF_vars(Purge)
    /\ WF_vars(Restart)
    /\ WF_vars(Tick)

FairSpec == Spec /\ Fairness

-----------------------------------------------------------------------------
(* Properties. *)

Digests == [alg : {"sha256", "sha512", "blake3"}, of : Seq(Byte)]
Local == [op : {"none", "begin", "put", "patch", "cancel", "purge"},
          pc : {"idle", "begin_row", "begin_repo", "begin_session", "status", "frame",
                "append", "remove", "complete", "hard_link", "commit", "abort",
                "row_delete", "purge"},
          id : Ids \cup {None}, repo : Repos \cup {None},
          body : Seq(Byte), from : Nat, rest : Seq(Byte), at : Nat, claim : Digests,
          newly : BOOLEAN, hash : SUBSET Seq(Byte), todo : SUBSET Ids]
Session == [repo : Repos, received : Nat, hash : SUBSET Seq(Byte), age : Ages, written : Ages]

(* The types of the upload state: tables keyed by upload ids, staged and    *)
(* stored bytes are byte strings, totals are naturals.                      *)
TypeOK ==
    /\ \A d \in DOMAIN vol.files : d \in Digests /\ vol.files[d] \in Seq(Byte)
    /\ \A key \in DOMAIN vol.links : key \in Repos \X Digests
    /\ \A d \in DOMAIN vol.aliases : d \in Digests /\ vol.aliases[d] \in Digests
    /\ \A id \in DOMAIN staged : id \in Ids /\ staged[id] \in Seq(Byte)
    /\ \A id \in DOMAIN rows : id \in Ids /\ rows[id] \in [repo : Repos, age : Ages]
    /\ \A id \in DOMAIN sess : id \in Ids /\ sess[id] \in Session
    /\ \A id \in DOMAIN kappa : id \in Ids /\ kappa[id] \in Nat
    /\ live \in SUBSET Ids
    /\ up \in BOOLEAN
    /\ req \in [Actors -> Local]

(* Hash on write (FR-020): whatever the interleaving of appends, finishes,  *)
(* torn frames and resumed sessions, a file under an address holds the      *)
(* bytes of that address (upload_finish, Kappa's upload_complete).          *)
HashOnWrite == \A d \in DOMAIN vol.files : vol.files[d] = d.of

(* A link is committed only after its bytes are in place, so no kill and no *)
(* failed finish leaves a linked blob that cannot be read.                  *)
LinkedIsStored == \A key \in DOMAIN vol.links : key[2] \in DOMAIN vol.files

(* The alias recorded by a finish names the same bytes, also when the       *)
(* session was resumed and its running blake3 was lost (upload_finish,      *)
(* step 2; SessionState.blake3).  Without disk errors.                      *)
AliasNamesSameBytes ==
    \A d \in DOMAIN vol.aliases : vol.aliases[d].of = d.of /\ vol.aliases[d] # d

(* A chunk answered 202 stays where the answer said, for as long as the     *)
(* session has a staging file: no racing request and no restart moves,      *)
(* overwrites or cuts it (the per-session lock and the offset check).       *)
AcksInPlace ==
    \A ack \in acks : ack.id \in DOMAIN staged =>
        /\ ack.from + Len(ack.body) <= Len(staged[ack.id])
        /\ SubSeq(staged[ack.id], ack.from + 1, ack.from + Len(ack.body)) = ack.body

(* When no request is in flight, the session map, Kappa's sessions, the     *)
(* UPLOADS rows and the staging files name the same uploads: nothing leaks  *)
(* and nothing is half there, after any kill and restart.                   *)
QuietAgree ==
    (up /\ \A a \in Actors : req[a].pc = "idle") =>
        /\ live = DOMAIN sess /\ live = DOMAIN kappa
        /\ live = DOMAIN rows /\ live = DOMAIN staged

(* A session that looks expired has really been idle for nearly that long:  *)
(* the row a restart reads is at most ROW_WRITE_INTERVAL_MS behind.         *)
ExpiryNearlyTrue ==
    \A id \in live : sess[id].age > MaxAge => idle[id] + RowInterval > MaxAge

(* An abandoned upload does not hold disk space for ever: once requests     *)
(* have stopped arriving, purging empties the staging area, whatever was    *)
(* killed in the middle.                                                    *)
StagingDrains == <>[](DOMAIN staged = {} /\ DOMAIN rows = {})
=============================================================================
