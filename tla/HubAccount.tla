----------------------------- MODULE HubAccount -----------------------------
(***************************************************************************)
(* deploy/hub-account.mjs: the records that signed-in people write.  Each   *)
(* App's thread (likes, comments) is one file, written through a queue; each *)
(* person's own record (saved models, requests, wallet) is one file, read   *)
(* and written by every request for itself.  A file is written to a         *)
(* neighbour and renamed.                                                   *)
(*                                                                         *)
(* A request stands here once it is accepted: its token verified, within    *)
(* the rate, its body parsed.  Those turned away before that, and reads,    *)
(* change no file.  Text, handles and times are left out; a comment's id is *)
(* the number of the request that made it.  A file that is there can be     *)
(* read: loadApp and load take any read error for an empty record.          *)
(***************************************************************************)
EXTENDS Filtering, SequencesExt

CONSTANTS
    Persons, Apps, Models,
    Asks,           \* requests that may come, see AskType
    MaxAsks,        \* bound: how many come
    MaxFaults,      \* bound: how often a write, rename or append fails or the process dies
    MAX_COMMENTS, MAX_SAVED, MAX_REQUESTS,
    Thread          \* comments of each App's thread at the start

Reqs == 1 .. MaxAsks
Reaction == {-1, 0, 1}
AppOps == {"react", "comment", "commentReact", "delete"}
AskType == [op : AppOps \cup {"wallet", "save", "unsave", "request", "publisher"}, who : Persons,
            at : Apps \cup {""}, value : Reaction, cid : Nat, model : Models \cup {""}]

(* parent is 0 for a comment at the top *)
CommentType == [id : Nat, parent : Nat, author : Persons, reactions : [Persons -> Reaction]]
AppRecord == [reactions : [Persons -> Reaction], comments : Seq(CommentType)]
UserRecord == [wallet : Reaction, saved : Seq(Models), requests : Seq(Models)]

ASSUME AccountAssumption ==
    /\ Asks \subseteq AskType /\ Asks # {} /\ MaxAsks \in Nat /\ MaxFaults \in Nat
    /\ MAX_COMMENTS \in Nat /\ MAX_SAVED \in Nat /\ MAX_REQUESTS \in Nat
    /\ Thread \in [Apps -> Seq(CommentType)]
    /\ \A a \in Asks : (a.op \in AppOps) = (a.at \in Apps)
    /\ \A a \in Asks : a.op \in {"save", "unsave", "request"} => a.model \in Models

Comments == UNION {{Thread[a][k] : k \in DOMAIN Thread[a]} : a \in Apps}

(* The threads at the start are ones the service has written: not too long,  *)
(* an id (a random UUID) is of one comment and of none that is still to be   *)
(* made, and a reply hangs below a comment at the top of the same thread.     *)
ASSUME ThreadAssumption ==
    /\ \A a \in Apps : Len(Thread[a]) <= MAX_COMMENTS
    /\ \A c \in Comments : c.id \notin Reqs \cup {0}
    /\ \A c, d \in Comments : c.id = d.id => c = d
    /\ \A a \in Apps : \A k \in DOMAIN Thread[a] :
          Thread[a][k].parent # 0 =>
              \E j \in DOMAIN Thread[a] : Thread[a][j].id = Thread[a][k].parent /\ Thread[a][j].parent = 0

VARIABLES
    appFile,    \* the thread of each App
    userFile,   \* the record of each person
    log,        \* lines of requested.jsonl and publisher-requests.jsonl, as sets
    queues,     \* the jobs of each App, the first one running
    req,        \* each request
    arrived,    \* requests that have come
    mixed,      \* persons who had two account requests under way at once
    faults      \* failures and kills so far

vars == <<appFile, userFile, log, queues, req, arrived, mixed, faults>>

NoReactions == [p \in Persons |-> 0]
NoRecord == [none |-> TRUE]
BlankUser == [wallet |-> 0, saved |-> <<>>, requests |-> <<>>]
NoReq == [ask |-> CHOOSE a \in Asks : TRUE, pc |-> "free", record |-> NoRecord, ans |-> 0, under |-> 0]

Init ==
    /\ appFile = [a \in Apps |-> [reactions |-> NoReactions, comments |-> Thread[a]]]
    /\ userFile = [p \in Persons |-> BlankUser]
    /\ log = {} /\ queues = [a \in Apps |-> <<>>]
    /\ req = [r \in Reqs |-> NoReq] /\ arrived = 0
    /\ mixed = {} /\ faults = 0

IsApp(r) == req[r].ask.op \in AppOps
Under(r) == req[r].pc \notin {"free", "done", "lost"}

-----------------------------------------------------------------------------
(* What a request makes of the record it has loaded: the record, whether it *)
(* is written, and the answer.                                              *)

Keep(record, ans) == [record |-> record, write |-> FALSE, ans |-> ans, under |-> 0]
Write(record, ans) == [record |-> record, write |-> TRUE, ans |-> ans, under |-> 0]

Find(record, cid) ==
    LET at == {k \in DOMAIN record.comments : record.comments[k].id = cid}
    IN  IF at = {} THEN 0 ELSE CHOOSE k \in at : \A j \in at : k <= j

React(record, a) == [record EXCEPT !.reactions[a.who] = a.value]

(* variant for mutation: a reply to a reply hangs below the reply *)
ParentDeep(target) == target.id
(* A reply to a reply joins the same thread, one level deep. *)
Parent(target) == IF target.parent # 0 THEN target.parent ELSE target.id

(* variant for mutation: one comment too many *)
FullAbove(record) == Len(record.comments) > MAX_COMMENTS
Full(record) == Len(record.comments) >= MAX_COMMENTS

Comment(record, a, r) ==
    LET k == Find(record, a.cid)
        parent == IF a.cid = 0 THEN 0 ELSE Parent(record.comments[k])
        c == [id |-> r, parent |-> parent, author |-> a.who, reactions |-> NoReactions]
    IN  IF Full(record) \/ (a.cid # 0 /\ k = 0) THEN Keep(record, 409)
        ELSE [Write([record EXCEPT !.comments = Append(@, c)], 201) EXCEPT !.under = parent]

CommentReact(record, a) ==
    LET k == Find(record, a.cid)
    IN  IF k = 0 THEN Keep(record, 404)
        ELSE Write([record EXCEPT !.comments[k].reactions[a.who] = a.value], 200)

Delete(record, a) ==
    LET k == Find(record, a.cid)
    IN  IF k = 0 THEN Keep(record, 404)
        ELSE IF record.comments[k].author # a.who THEN Keep(record, 403)
        ELSE Write([record EXCEPT !.comments =
                        Filter(@, {c \in ToSet(@) : c.id # a.cid /\ c.parent # a.cid})], 200)

Save(record, a) ==
    IF Len(record.saved) >= MAX_SAVED THEN Keep(record, 409)
    ELSE Write(IF Contains(record.saved, a.model) THEN record
               ELSE [record EXCEPT !.saved = <<a.model>> \o @], 200)

(* variant for mutation: the filtered list is not put back *)
UnsaveNone(record, a) == record
Unsave(record, a) == [record EXCEPT !.saved = Filter(@, Models \ {a.model})]

Request(record, a) ==
    IF Len(record.requests) >= MAX_REQUESTS THEN Keep(record, 409)
    ELSE IF Contains(record.requests, a.model) THEN Keep(record, 200)
    ELSE Write([record EXCEPT !.requests = <<a.model>> \o @], 200)

Apply(record, a, r) ==
    CASE a.op = "react" -> Write(React(record, a), 200)
      [] a.op = "comment" -> Comment(record, a, r)
      [] a.op = "commentReact" -> CommentReact(record, a)
      [] a.op = "delete" -> Delete(record, a)
      [] a.op = "wallet" -> Write([record EXCEPT !.wallet = a.value], 200)
      [] a.op = "save" -> Save(record, a)
      [] a.op = "unsave" -> Write(Unsave(record, a), 200)
      [] a.op = "request" -> Request(record, a)
      [] a.op = "publisher" -> Keep(record, 202)

Line(a) == [op |-> a.op, who |-> a.who, model |-> a.model]
Logs(a, wrote) == (a.op = "request" /\ wrote) \/ a.op = "publisher"

-----------------------------------------------------------------------------
(* A request is accepted; one about an App joins its queue. *)
Arrive(a) ==
    LET r == arrived + 1
        other(s) == Under(s) /\ ~IsApp(s) /\ req[s].ask.who = a.who
    IN  /\ arrived < MaxAsks
        /\ arrived' = r
        /\ req' = [req EXCEPT ![r].ask = a, ![r].pc = "load"]
        /\ queues' = IF a.at \in Apps THEN [queues EXCEPT ![a.at] = Append(@, r)] ELSE queues
        /\ mixed' = IF a.at \notin Apps /\ \E s \in Reqs : other(s) THEN mixed \cup {a.who} ELSE mixed
        /\ UNCHANGED <<appFile, userFile, log, faults>>

(* variant for mutation: a job does not wait for the one before it *)
TurnAtOnce(r) == TRUE
(* A job of an App runs when the one before it has ended. *)
Turn(r) == IsApp(r) => Head(queues[req[r].ask.at]) = r

(* The file is read, and the record in memory changed for the write to a     *)
(* neighbour of the file; nobody else sees that record.                      *)
Load(r) ==
    LET record == IF IsApp(r) THEN appFile[req[r].ask.at] ELSE userFile[req[r].ask.who]
        did == Apply(record, req[r].ask, r)
        pc == IF did.write THEN "written" ELSE IF Logs(req[r].ask, FALSE) THEN "append" ELSE "answer"
    IN  /\ req[r].pc = "load" /\ Turn(r)
        /\ req' = [req EXCEPT ![r].pc = pc, ![r].ans = did.ans, ![r].under = did.under,
                              ![r].record = IF did.write THEN did.record ELSE NoRecord]
        /\ UNCHANGED <<appFile, userFile, log, queues, arrived, mixed, faults>>

Rename(r) ==
    /\ req[r].pc = "written"
    /\ IF IsApp(r) THEN appFile' = [appFile EXCEPT ![req[r].ask.at] = req[r].record] /\ UNCHANGED userFile
                   ELSE userFile' = [userFile EXCEPT ![req[r].ask.who] = req[r].record] /\ UNCHANGED appFile
    /\ req' = [req EXCEPT ![r].pc = IF Logs(req[r].ask, TRUE) THEN "append" ELSE "answer", ![r].record = NoRecord]
    /\ UNCHANGED <<log, queues, arrived, mixed, faults>>

AppendLine(r) ==
    /\ req[r].pc = "append"
    /\ log' = log \cup {Line(req[r].ask)}
    /\ req' = [req EXCEPT ![r].pc = "answer"]
    /\ UNCHANGED <<appFile, userFile, queues, arrived, mixed, faults>>

(* The request ends, and its job: the next one in the queue may run. *)
Dequeue(r) ==
    queues' = IF IsApp(r) THEN [queues EXCEPT ![req[r].ask.at] = Filter(@, Reqs \ {r})] ELSE queues
Ended(r, ans) == req' = [req EXCEPT ![r].pc = "done", ![r].record = NoRecord, ![r].ans = ans]

Answer(r) ==
    /\ req[r].pc = "answer"
    /\ Ended(r, req[r].ans) /\ Dequeue(r)
    /\ UNCHANGED <<appFile, userFile, log, arrived, mixed, faults>>

(* variant for mutation: a job that failed stays at the head of its queue *)
AfterFailStuck(r) == UNCHANGED queues
(* queues holds run.catch(...): a job that failed lets the next one run. *)
AfterFail(r) == Dequeue(r)

(* A write, a rename or an append fails: 500. *)
Fail(r) ==
    /\ req[r].pc \in {"written", "append"} /\ faults < MaxFaults
    /\ faults' = faults + 1
    /\ Ended(r, 500) /\ AfterFail(r)
    /\ UNCHANGED <<appFile, userFile, log, arrived, mixed>>

(* The process dies and is started again: requests under way are lost. *)
Crash ==
    /\ faults < MaxFaults /\ faults' = faults + 1
    /\ req' = [r \in Reqs |-> IF Under(r) THEN [req[r] EXCEPT !.pc = "lost", !.record = NoRecord] ELSE req[r]]
    /\ queues' = [a \in Apps |-> <<>>]
    /\ UNCHANGED <<appFile, userFile, log, arrived, mixed>>

Serve(r) == Load(r) \/ Rename(r) \/ AppendLine(r) \/ Answer(r)

Next ==
    \/ \E a \in Asks : Arrive(a)
    \/ \E r \in Reqs : Serve(r) \/ Fail(r)
    \/ Crash

Spec == Init /\ [][Next]_vars
(* The event loop runs what is ready, and the disk answers. *)
FairSpec == Spec /\ \A r \in Reqs : WF_vars(Serve(r))

-----------------------------------------------------------------------------
(* Types; a thread holds at most MAX_COMMENTS comments and a saved list at   *)
(* most MAX_SAVED models, however many requests are under way.               *)
TypeOK ==
    /\ \A a \in Apps : appFile[a] \in AppRecord /\ Len(appFile[a].comments) <= MAX_COMMENTS
    /\ \A p \in Persons : userFile[p] \in UserRecord /\ Len(userFile[p].saved) <= MAX_SAVED
    /\ arrived \in 0 .. MaxAsks /\ mixed \subseteq Persons
    /\ \A a \in Apps : \A k \in DOMAIN queues[a] : Under(queues[a][k])

(* Who wrote the comment that a request made or a thread began with, and      *)
(* whether that person has asked for it to be deleted.                        *)
AuthorOf(id) == IF id \in Reqs THEN req[id].ask.who ELSE (CHOOSE c \in Comments : c.id = id).author
DeletedByAuthor(id) ==
    \E d \in Reqs : /\ req[d].pc # "free" /\ req[d].ask.op = "delete" /\ req[d].ask.cid = id
                    /\ req[d].ask.who = AuthorOf(id)

(* The line of a request that somebody's append has still to write, or was    *)
(* cut off from writing.                                                      *)
Unlogged(line) ==
    \E s \in Reqs : /\ Line(req[s].ask) = line
                    /\ req[s].pc \in {"append", "lost"} \/ (req[s].pc = "done" /\ req[s].ans = 500)

(* "Two comments arriving together cannot overwrite each other": a comment    *)
(* that was answered with 201 is in the file from then on, whatever other     *)
(* requests, failed writes and kills come between, until its author deletes   *)
(* it or the comment it answers is deleted by that one's author.  And what    *)
(* the operator reads in the two logs: a publisher request answered with 202  *)
(* is there, and so is the request for a model, also one answered with 200    *)
(* because the record has it already, unless the append that followed that    *)
(* record is still under way or was cut off.                                  *)
AckedStays ==
    \A r \in Reqs : req[r].pc = "done" =>
        /\ req[r].ans = 201 =>
              \/ Find(appFile[req[r].ask.at], r) # 0
              \/ DeletedByAuthor(r)
              \/ req[r].under # 0 /\ DeletedByAuthor(req[r].under)
        /\ req[r].ans = 202 => Line(req[r].ask) \in log
        /\ req[r].ans = 200 /\ req[r].ask.op = "request" =>
              Line(req[r].ask) \in log \/ Unlogged(Line(req[r].ask))

(* A thread shows every comment it counts: each is at the top, or below one   *)
(* that is there and is itself at the top (`thread` shows nothing else, while *)
(* `comments.length` counts all).                                             *)
AllShown ==
    \A a \in Apps : \A k \in DOMAIN appFile[a].comments :
        LET c == appFile[a].comments[k]
            p == Find(appFile[a], c.parent)
        IN  c.parent = 0 \/ (p # 0 /\ appFile[a].comments[p].parent = 0)

(* The last of a person's requests in `mine` that was answered, and the ones  *)
(* after it that were not answered or failed.                                 *)
Acked(mine) == {r \in mine : req[r].pc = "done" /\ req[r].ans = 200}
Latest(mine) == CHOOSE r \in Acked(mine) : \A s \in Acked(mine) : s <= r
Open(mine) == {r \in mine \ Acked(mine) : \A s \in Acked(mine) : s < r}

(* Account records have no queue.  For a person whose requests come one after  *)
(* the other a model is in the saved list exactly if the last answered request *)
(* about it saved it, unless a later one was cut off.                           *)
SavedKept ==
    \A p \in Persons \ mixed, m \in Models :
        LET mine == {r \in Reqs : /\ req[r].pc # "free" /\ req[r].ask.op \in {"save", "unsave"}
                                  /\ req[r].ask.who = p /\ req[r].ask.model = m}
            saved == Contains(userFile[p].saved, m)
        IN  \/ \E r \in Open(mine) : saved = (req[r].ask.op = "save")
            \/ saved = (Acked(mine) # {} /\ req[Latest(mine)].ask.op = "save")

(* Every accepted request ends in an answer, or with the process: a job that   *)
(* fails does not hold up the ones behind it.                                  *)
EveryoneAnswered == \A r \in Reqs : req[r].pc = "load" ~> req[r].pc \in {"done", "lost"}
=============================================================================
