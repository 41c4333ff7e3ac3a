-------------------------- MODULE HubAccountProofs --------------------------
(***************************************************************************)
(* Theorems about HubAccount: threads and account records keep what was     *)
(* answered for, through races, failed writes and kills.                    *)
(*                                                                         *)
(* A thread is seen as the set of its entries (who wrote what under what),   *)
(* and a request as what it will make of a file.  Requests of an App are     *)
(* written one at a time, so the record in the hands of one is made from     *)
(* the file as it is; for account records this is so while a person's        *)
(* requests come one after the other.                                        *)
(***************************************************************************)
EXTENDS HubAccount, SequenceTheorems, WellFoundedInduction, TLAPS

PCs == {"free", "load", "written", "append", "answer", "done", "lost"}
Records == AppRecord \cup UserRecord \cup {NoRecord}
ReqType == [ask : Asks, pc : PCs, record : Records, ans : Nat, under : Nat]

(* What of a comment other comments and answers rest on. *)
Entry(c) == [id |-> c.id, parent |-> c.parent, author |-> c.author]
Entries(record) == {Entry(record.comments[k]) : k \in DOMAIN record.comments}

(* The types, and which requests have come. *)
Types ==
    /\ appFile \in [Apps -> AppRecord]
    /\ \A a \in Apps : Len(appFile[a].comments) <= MAX_COMMENTS
    /\ userFile \in [Persons -> UserRecord]
    /\ \A p \in Persons : Len(userFile[p].saved) <= MAX_SAVED
    /\ arrived \in 0 .. MaxAsks /\ mixed \subseteq Persons
    /\ req \in [Reqs -> ReqType]
    /\ queues \in [Apps -> Seq(Reqs)]
    /\ \A r \in Reqs : (req[r].pc = "free") = (arrived < r)

(* An App's queue holds its requests under way, and only its head has read *)
(* the file.                                                                *)
Queued ==
    /\ \A a \in Apps, r \in Reqs :
          Contains(queues[a], r) <=> (Under(r) /\ IsApp(r) /\ req[r].ask.at = a)
    /\ \A r \in Reqs : Under(r) /\ IsApp(r) /\ req[r].pc # "load" => Head(queues[req[r].ask.at]) = r

(* At most one account request of a person is under way, the last that came. *)
Alone ==
    \A r, s \in Reqs :
        /\ ~IsApp(r) /\ ~IsApp(s) /\ r # s /\ req[s].pc # "free"
        /\ req[r].ask.who = req[s].ask.who /\ req[r].ask.who \notin mixed
        /\ Under(r)
        => s < r /\ ~Under(s)

(* Request r holds what it makes of the file as it is now. *)
Made(r, file) ==
    LET did == Apply(file, req[r].ask, r)
    IN  did.write /\ req[r].record = did.record /\ req[r].ans = did.ans /\ req[r].under = did.under

Written ==
    \A r \in Reqs :
        /\ req[r].pc = "written" /\ IsApp(r) => Made(r, appFile[req[r].ask.at])
        /\ req[r].pc = "written" /\ ~IsApp(r) =>
              /\ req[r].record \in UserRecord /\ Len(req[r].record.saved) <= MAX_SAVED
              /\ req[r].ask.who \notin mixed => Made(r, userFile[req[r].ask.who])
        /\ req[r].pc = "append" => req[r].ask.op \in {"request", "publisher"}
        /\ req[r].pc \notin {"free", "load", "lost"} /\ ~IsApp(r) => req[r].ans # 201

(* The entries of a thread: one for an id, replies one level deep, each      *)
(* accounted for by the request that made it or by the thread at the start.  *)
WellFormed(E) ==
    /\ \A e \in E : e.id # 0
    /\ \A e, d \in E : e.id = d.id => e = d
    /\ \A e \in E : e.parent # 0 => \E d \in E : d.id = e.parent /\ d.parent = 0
Known(e, a) ==
    /\ e.id \in Reqs =>
          /\ req[e.id].pc \notin {"free", "load", "written"} /\ req[e.id].ask.at = a
          /\ req[e.id].ask.who = e.author /\ req[e.id].under = e.parent
    /\ e.id \notin Reqs => \E c \in Comments : c.id = e.id /\ c.author = e.author
Threads ==
    /\ \A a \in Apps : WellFormed(Entries(appFile[a])) /\ \A e \in Entries(appFile[a]) : Known(e, a)
    /\ \A r \in Reqs : req[r].under \in Reqs => req[req[r].under].pc # "free"

(* A comment that is answered for, or about to be. *)
Kept(r) ==
    \/ \E e \in Entries(appFile[req[r].ask.at]) : e.id = r
    \/ DeletedByAuthor(r)
    \/ req[r].under # 0 /\ DeletedByAuthor(req[r].under)
Placed ==
    \A r \in Reqs : req[r].pc \in {"answer", "done"} /\ req[r].ans = 201 => IsApp(r) /\ Kept(r)

(* The saved list against the requests about model m of person p. *)
Saved(p, m) == Contains(userFile[p].saved, m)
Mine(r, p, m) ==
    /\ req[r].pc # "free" /\ req[r].ask.op \in {"save", "unsave"}
    /\ req[r].ask.who = p /\ req[r].ask.model = m
Ack(r) == req[r].pc = "done" /\ req[r].ans = 200
Says(r, p, m) == Mine(r, p, m) /\ Saved(p, m) = (req[r].ask.op = "save")
Word(p, m) ==
    \/ \E r \in Reqs : Says(r, p, m) /\ ~Ack(r) /\ \A s \in Reqs : Mine(s, p, m) /\ Ack(s) => s < r
    \/ ~Saved(p, m) /\ \A s \in Reqs : Mine(s, p, m) => ~Ack(s)
    \/ \E r \in Reqs : Says(r, p, m) /\ Ack(r) /\ \A s \in Reqs : Mine(s, p, m) /\ Ack(s) => s <= r
Words == \A p \in Persons \ mixed, m \in Models : Word(p, m)

(* An answer about to be given to a save or unsave is true. *)
Effect ==
    \A r \in Reqs :
        /\ req[r].pc = "answer" /\ req[r].ans = 200 /\ req[r].ask.op \in {"save", "unsave"}
        /\ req[r].ask.who \notin mixed
        => Saved(req[r].ask.who, req[r].ask.model) = (req[r].ask.op = "save")

Inv == Types /\ Queued /\ Alone /\ Written /\ Threads /\ Placed /\ Effect /\ Words


-----------------------------------------------------------------------------
(* Induction over the naturals, for sets. *)

(* A set of naturals that is not empty has a least element. *)
LEMMA LeastNat ==
  ASSUME NEW T \in SUBSET Nat, T # {}
  PROVE  \E m \in T : \A k \in T : m <= k
<1> DEFINE R == {ss \in Nat \X Nat : ss[1] < ss[2]}
<1>1. R = OpToRel(<, Nat)
  BY Zenon DEF OpToRel
<1>2. IsWellFoundedOn(R, Nat)
  BY <1>1, NatLessThanWellFounded, Zenon
<1> HIDE DEF R
<1>3. PICK m \in T : \A y \in T : ~(<<y, m>> \in R)
  BY <1>2, WFMin
<1>4. ASSUME NEW y \in T PROVE m <= y
  <2>1. m \in Nat /\ y \in Nat /\ <<y, m>> \notin R
    BY <1>3
  <2>2. <<y, m>> \in Nat \X Nat /\ <<y, m>>[1] = y /\ <<y, m>>[2] = m
    BY <2>1
  <2>3. ~(y < m)
    BY <2>1, <2>2 DEF R
  <2>4. QED  BY <2>1, <2>3
<1>5. QED  BY <1>4

(* A set that holds 0 and, with each natural, the next one, holds them all. *)
LEMMA NatSetInduction ==
  ASSUME NEW T, 0 \in T, \A n \in Nat : n \in T => n + 1 \in T
  PROVE  Nat \subseteq T
<1> SUFFICES ASSUME ~(Nat \subseteq T) PROVE FALSE
  OBVIOUS
<1> DEFINE U == {n \in Nat : n \notin T}
<1>1. PICK m \in U : \A k \in U : m <= k
  BY LeastNat
<1>2. m # 0 /\ m - 1 \in Nat /\ m - 1 \notin U
  BY <1>1
<1>3. QED  BY <1>1, <1>2

-----------------------------------------------------------------------------
(* What Filter returns. *)

(* One step of the filter, and a function that makes n of them. *)
FilterStep(s, kept, before, k) ==
    IF k = 0 THEN <<>> ELSE IF s[k] \in kept THEN Append(before, s[k]) ELSE before
UpTo(f, s, kept, n) == f = [k \in 0 .. n |-> FilterStep(s, kept, f[k - 1], k)]

LEMMA FilterStepZero == ASSUME NEW s, NEW kept, NEW b PROVE FilterStep(s, kept, b, 0) = <<>>
  BY DEF FilterStep

LEMMA UpToExists == ASSUME NEW s, NEW kept PROVE \A n \in Nat : \E f : UpTo(f, s, kept, n)
<1> DEFINE T == {n \in Nat : \E f : UpTo(f, s, kept, n)}
<1>1. 0 \in T
  <2> DEFINE f == [k \in 0 .. 0 |-> FilterStep(s, kept, <<>>, k)]
  <2>1. f = [k \in 0 .. 0 |-> FilterStep(s, kept, f[k - 1], k)]
    <3>1. \A k \in 0 .. 0 : FilterStep(s, kept, <<>>, k) = FilterStep(s, kept, f[k - 1], k)
      BY FilterStepZero
    <3>2. QED  BY <3>1
  <2>2. UpTo(f, s, kept, 0)
    BY <2>1 DEF UpTo
  <2>3. QED  BY <2>2
<1>2. ASSUME NEW n \in Nat, n \in T PROVE n + 1 \in T
  <2>1. PICK f : UpTo(f, s, kept, n)
    BY <1>2
  <2> DEFINE g == [k \in 0 .. n + 1 |-> FilterStep(s, kept, f[k - 1], k)]
  <2>2. ASSUME NEW k \in 0 .. n PROVE g[k] = f[k]
    <3>1. f = [j \in 0 .. n |-> FilterStep(s, kept, f[j - 1], j)]
      BY <2>1 DEF UpTo
    <3>2. f[k] = FilterStep(s, kept, f[k - 1], k)
      BY <3>1
    <3>3. k \in 0 .. n + 1
      BY <1>2
    <3>4. QED  BY <3>2, <3>3
  <2>3. ASSUME NEW k \in 0 .. n + 1
        PROVE  g[k] = FilterStep(s, kept, g[k - 1], k)
    <3>1. g[k] = FilterStep(s, kept, f[k - 1], k)
      OBVIOUS
    <3>2. k # 0 => k - 1 \in 0 .. n
      BY <1>2
    <3> HIDE DEF g
    <3>3. CASE k = 0
      BY <3>1, <3>3, FilterStepZero
    <3>4. CASE k # 0
      <4>1. g[k - 1] = f[k - 1]
        BY <2>2, <3>2, <3>4
      <4>2. QED  BY <3>1, <4>1
    <3>5. QED  BY <3>3, <3>4
  <2>4. g = [k \in 0 .. n + 1 |-> FilterStep(s, kept, g[k - 1], k)]
    <3> DEFINE h == [k \in 0 .. n + 1 |-> FilterStep(s, kept, g[k - 1], k)]
    <3>1. \A k \in 0 .. n + 1 : g[k] = h[k]
      BY <2>3
    <3>2. g = [k \in 0 .. n + 1 |-> g[k]] /\ h = [k \in 0 .. n + 1 |-> h[k]]
      OBVIOUS
    <3> HIDE DEF g, h
    <3>3. g = h
      BY <3>1, <3>2
    <3>4. QED  BY <3>3 DEF h
  <2> HIDE DEF g
  <2>5. UpTo(g, s, kept, n + 1)
    BY <2>4 DEF UpTo
  <2>6. QED  BY <2>5, <1>2
<1>3. QED  BY <1>1, <1>2, NatSetInduction

LEMMA FilterIs ==
  ASSUME NEW s, NEW kept, Len(s) \in Nat
  PROVE  \E f : UpTo(f, s, kept, Len(s)) /\ Filter(s, kept) = f[Len(s)]
<1> DEFINE step(f) == [k \in 0 .. Len(s) |->
                          IF k = 0 THEN <<>>
                          ELSE IF s[k] \in kept THEN Append(f[k - 1], s[k]) ELSE f[k - 1]]
           g == CHOOSE f : f = step(f)
<1>1. Filter(s, kept) = g[Len(s)]
  BY Zenon DEF Filter
<1>2. PICK f : UpTo(f, s, kept, Len(s))
  BY UpToExists
<1>3. f = step(f)
  BY <1>2 DEF UpTo, FilterStep
<1>4. g = step(g)
  BY <1>3, Zenon
<1> HIDE DEF g
<1>5. UpTo(g, s, kept, Len(s))
  BY <1>4 DEF UpTo, FilterStep
<1>6. QED  BY <1>1, <1>5


(* Appending one element adds it and nothing else. *)
LEMMA AppendContains ==
  ASSUME NEW S, NEW s \in Seq(S), NEW x \in S
  PROVE  /\ Append(s, x) \in Seq(S) /\ Len(Append(s, x)) = Len(s) + 1
         /\ \A y : Contains(Append(s, x), y) <=> (Contains(s, y) \/ y = x)
<1>1. /\ Append(s, x) \in Seq(S) /\ Len(Append(s, x)) = Len(s) + 1 /\ Len(s) \in Nat
      /\ \A i \in 1 .. Len(s) : Append(s, x)[i] = s[i]
      /\ Append(s, x)[Len(s) + 1] = x
  OBVIOUS
<1>2. ASSUME NEW y PROVE Contains(Append(s, x), y) <=> (Contains(s, y) \/ y = x)
  <2>1. (1 .. Len(s) + 1) = (1 .. Len(s)) \cup {Len(s) + 1}
    BY <1>1
  <2> DEFINE t == Append(s, x)
  <2>2. Contains(t, y) <=> \E i \in 1 .. Len(s) + 1 : t[i] = y
    BY <1>1 DEF Contains
  <2> HIDE DEF t
  <2>3. Contains(t, y) <=> (\E i \in 1 .. Len(s) : t[i] = y) \/ t[Len(s) + 1] = y
    BY <2>1, <2>2
  <2>4. QED  BY <1>1, <2>3 DEF Contains, t
<1>3. QED  BY <1>1, <1>2

LEMMA EmptyContains == \A y : ~Contains(<<>>, y)
  BY DEF Contains

(* A filtered sequence holds exactly what was in the sequence and is kept. *)
LEMMA FilterFacts ==
  ASSUME NEW S, NEW s \in Seq(S), NEW kept
  PROVE  /\ Filter(s, kept) \in Seq(S) /\ Len(Filter(s, kept)) <= Len(s)
         /\ \A x : Contains(Filter(s, kept), x) <=> (Contains(s, x) /\ x \in kept)
<1>0. Len(s) \in Nat
  OBVIOUS
<1>1. PICK f : UpTo(f, s, kept, Len(s)) /\ Filter(s, kept) = f[Len(s)]
  BY <1>0, FilterIs
<1>2. \A k \in 0 .. Len(s) : f[k] = FilterStep(s, kept, f[k - 1], k)
  BY <1>1 DEF UpTo
<1> DEFINE Seen(k, x) == \E i \in 1 .. k : s[i] = x
           Good(k) == /\ f[k] \in Seq(S) /\ Len(f[k]) <= k
                      /\ \A x : Contains(f[k], x) <=> (Seen(k, x) /\ x \in kept)
           T == {n \in Nat : n <= Len(s) => Good(n)}
<1>3. 0 \in T
  <2>1. f[0] = <<>>
    BY <1>0, <1>2, FilterStepZero
  <2>2. <<>> \in Seq(S) /\ Len(<<>>) <= 0
    OBVIOUS
  <2>3. \A x : ~Seen(0, x)
    OBVIOUS
  <2>4. Good(0)
    BY <2>1, <2>2, <2>3, EmptyContains
  <2>5. QED  BY <2>4
<1>4. ASSUME NEW n \in Nat, n \in T PROVE n + 1 \in T
  <2> SUFFICES ASSUME n + 1 <= Len(s) PROVE Good(n + 1)
    OBVIOUS
  <2>1. Good(n)
    BY <1>4, <1>0
  <2>2. n + 1 \in 1 .. Len(s) /\ n + 1 # 0 /\ (n + 1) - 1 = n
    BY <1>0
  <2>3. f[n + 1] = IF s[n + 1] \in kept THEN Append(f[n], s[n + 1]) ELSE f[n]
    BY <1>2, <2>2 DEF FilterStep
  <2>4. s[n + 1] \in S
    BY <2>2
  <2>5. \A x : Seen(n + 1, x) <=> (Seen(n, x) \/ x = s[n + 1])
    <3>1. (1 .. n + 1) = (1 .. n) \cup {n + 1}
      OBVIOUS
    <3>2. QED  BY <3>1
  <2> HIDE DEF Seen
  <2>6. CASE s[n + 1] \in kept
    <3>1. /\ Append(f[n], s[n + 1]) \in Seq(S) /\ Len(Append(f[n], s[n + 1])) = Len(f[n]) + 1
          /\ \A y : Contains(Append(f[n], s[n + 1]), y) <=> (Contains(f[n], y) \/ y = s[n + 1])
      BY <2>1, <2>4, AppendContains
    <3>2. Len(f[n]) \in Nat /\ Len(f[n]) <= n
      BY <2>1
    <3>3. f[n + 1] = Append(f[n], s[n + 1])
      BY <2>3, <2>6
    <3>4. Len(f[n + 1]) <= n + 1 /\ f[n + 1] \in Seq(S)
      BY <3>1, <3>2, <3>3
    <3>5. \A x : Contains(f[n + 1], x) <=> (Seen(n + 1, x) /\ x \in kept)
      BY <2>1, <2>5, <2>6, <3>1, <3>3
    <3>6. QED  BY <3>4, <3>5
  <2>7. CASE s[n + 1] \notin kept
    <3>1. f[n + 1] = f[n] /\ f[n] \in Seq(S) /\ Len(f[n]) <= n
      BY <2>1, <2>3, <2>7
    <3>2. Len(f[n + 1]) <= n + 1 /\ f[n + 1] \in Seq(S)
      BY <3>1
    <3>3. \A x : Contains(f[n + 1], x) <=> (Seen(n + 1, x) /\ x \in kept)
      BY <2>1, <2>5, <2>7, <3>1
    <3>4. QED  BY <3>2, <3>3
  <2>8. QED  BY <2>6, <2>7
<1>5. Len(s) \in T
  BY <1>0, <1>3, <1>4, NatSetInduction
<1>6. Good(Len(s))
  BY <1>0, <1>5
<1>7. \A x : Seen(Len(s), x) <=> Contains(s, x)
  BY DEF Contains
<1>8. QED  BY <1>1, <1>6, <1>7


-----------------------------------------------------------------------------
(* The constants. *)

LEMMA AskFacts ==
  \A a \in Asks : /\ a.who \in Persons /\ a.value \in Reaction /\ a.cid \in Nat
                  /\ (a.op \in AppOps) = (a.at \in Apps)
                  /\ a.op \in {"save", "unsave", "request"} => a.model \in Models
                  /\ a.op \in AppOps \cup {"wallet", "save", "unsave", "request", "publisher"}
<1>1. Asks \subseteq AskType
  BY AccountAssumption
<1>2. \A a \in AskType : /\ a.who \in Persons /\ a.value \in Reaction /\ a.cid \in Nat
                         /\ a.op \in AppOps \cup {"wallet", "save", "unsave", "request", "publisher"}
  BY DEF AskType
<1>3. QED  BY <1>1, <1>2, AccountAssumption

LEMMA ReqsFacts == MaxAsks \in Nat /\ \A r \in Reqs : r \in Nat /\ r # 0 /\ r <= MaxAsks
  BY AccountAssumption DEF Reqs

-----------------------------------------------------------------------------
(* What a request makes of a thread. *)

(* The comments of a record, as a sequence and as entries. *)
LEMMA RecordFacts ==
  ASSUME NEW record \in AppRecord
  PROVE  /\ record.reactions \in [Persons -> Reaction] /\ record.comments \in Seq(CommentType)
         /\ Len(record.comments) \in Nat /\ DOMAIN record.comments = 1 .. Len(record.comments)
         /\ \A k \in 1 .. Len(record.comments) : record.comments[k] \in CommentType
         /\ \A k \in 1 .. Len(record.comments) : Entry(record.comments[k]) \in Entries(record)
         /\ \A e \in Entries(record) : \E k \in 1 .. Len(record.comments) : e = Entry(record.comments[k])
<1>1. record.reactions \in [Persons -> Reaction] /\ record.comments \in Seq(CommentType)
  BY DEF AppRecord
<1> DEFINE s == record.comments
<1>2. Len(s) \in Nat /\ DOMAIN s = 1 .. Len(s) /\ \A k \in 1 .. Len(s) : s[k] \in CommentType
  BY <1>1
<1>3. QED  BY <1>1, <1>2 DEF Entries

LEMMA FindFacts ==
  ASSUME NEW record \in AppRecord, NEW cid
  PROVE  /\ Find(record, cid) = 0 => \A e \in Entries(record) : e.id # cid
         /\ Find(record, cid) # 0 => /\ Find(record, cid) \in 1 .. Len(record.comments)
                                     /\ record.comments[Find(record, cid)].id = cid
<1> DEFINE s == record.comments
           at == {k \in DOMAIN s : s[k].id = cid}
<1>1. DOMAIN s = 1 .. Len(s) /\ Len(s) \in Nat
  BY RecordFacts
<1>2. Find(record, cid) = IF at = {} THEN 0 ELSE CHOOSE k \in at : \A j \in at : k <= j
  BY DEF Find
<1>3. CASE at = {}
  <2>1. Find(record, cid) = 0
    BY <1>2, <1>3
  <2>2. ASSUME NEW e \in Entries(record) PROVE e.id # cid
    <3>1. PICK k \in 1 .. Len(s) : e = Entry(s[k])
      BY RecordFacts
    <3>2. s[k].id # cid
      BY <1>1, <1>3
    <3>3. QED  BY <3>1, <3>2 DEF Entry
  <2>3. QED  BY <2>1, <2>2
<1>4. CASE at # {}
  <2>1. at \in SUBSET Nat
    BY <1>1
  <2> HIDE DEF at
  <2>2. \E k \in at : \A j \in at : k <= j
    BY <1>4, <2>1, LeastNat
  <2>3. Find(record, cid) \in at
    BY <1>2, <1>4, <2>2, Zenon
  <2>4. Find(record, cid) \in 1 .. Len(s) /\ s[Find(record, cid)].id = cid
    BY <1>1, <2>3 DEF at
  <2>5. Find(record, cid) # 0
    BY <1>1, <2>4
  <2>6. QED  BY <2>4, <2>5
<1>5. QED  BY <1>3, <1>4

(* A comment with an id is found exactly if the thread has an entry of it. *)
LEMMA FindsEntry ==
  ASSUME NEW record \in AppRecord, NEW cid
  PROVE  (Find(record, cid) # 0) <=> \E e \in Entries(record) : e.id = cid
<1>1. CASE Find(record, cid) = 0
  BY <1>1, FindFacts
<1>2. CASE Find(record, cid) # 0
  <2> DEFINE k == Find(record, cid)
  <2>1. k \in 1 .. Len(record.comments) /\ record.comments[k].id = cid
    BY <1>2, FindFacts
  <2>2. Entry(record.comments[k]) \in Entries(record)
    BY <2>1, RecordFacts
  <2>3. Entry(record.comments[k]).id = cid
    BY <2>1 DEF Entry
  <2>4. QED  BY <1>2, <2>2, <2>3
<1>3. QED  BY <1>1, <1>2

(* Entries follow what the sequence of comments contains. *)
LEMMA EntriesAre ==
  ASSUME NEW record \in AppRecord
  PROVE  \A e : e \in Entries(record) <=> \E c \in CommentType : Contains(record.comments, c) /\ e = Entry(c)
<1> DEFINE s == record.comments
<1>1. DOMAIN s = 1 .. Len(s) /\ \A k \in 1 .. Len(s) : s[k] \in CommentType
  BY RecordFacts
<1> HIDE DEF s
<1>2. \A c : Contains(s, c) <=> \E k \in 1 .. Len(s) : s[k] = c
  BY DEF Contains
<1>3. QED  BY <1>1, <1>2 DEF Entries, s

(* The record with other comments. *)
LEMMA WithComments ==
  ASSUME NEW record \in AppRecord, NEW t \in Seq(CommentType)
  PROVE  [record EXCEPT !.comments = t] \in AppRecord /\ [record EXCEPT !.comments = t].comments = t
  BY DEF AppRecord

(* The three things a request can do to the entries of a thread. *)
Added(E, F, a, r, under) ==
    /\ a.op = "comment" /\ F = E \cup {[id |-> r, parent |-> under, author |-> a.who]}
    /\ under = 0 \/ \E e \in E : under = IF e.parent # 0 THEN e.parent ELSE e.id
Removed(E, F, a) ==
    /\ a.op = "delete" /\ \E e \in E : e.id = a.cid /\ e.author = a.who
    /\ F = {e \in E : e.id # a.cid /\ e.parent # a.cid}
Change(E, F, a, r, under) == F = E \/ Added(E, F, a, r, under) \/ Removed(E, F, a)

(* A record made from a thread is one again, and what it changes. *)
Fits(record, did, a, r) ==
    /\ did.write \in BOOLEAN /\ did.ans \in Nat /\ did.under \in Nat
    /\ did.write => /\ did.record \in AppRecord /\ Len(did.record.comments) <= MAX_COMMENTS
                    /\ Change(Entries(record), Entries(did.record), a, r, did.under)
    /\ did.ans = 201 \/ did.under # 0 => did.write /\ Added(Entries(record), Entries(did.record), a, r, did.under)

LEMMA KeepFits ==
  ASSUME NEW record, NEW a, NEW r, NEW ans \in Nat, ans # 201
  PROVE  Fits(record, Keep(record, ans), a, r)
  BY DEF Fits, Keep

LEMMA WriteFits ==
  ASSUME NEW record, NEW new \in AppRecord, Len(new.comments) <= MAX_COMMENTS, NEW a, NEW r,
         Change(Entries(record), Entries(new), a, r, 0)
  PROVE  Fits(record, Write(new, 200), a, r)
<1> DEFINE did == Write(new, 200)
<1>1. did.ans = 200 /\ did.under = 0 /\ did.record = new
  BY DEF Write
<1>2. did.write = TRUE
  BY Zenon DEF Write
<1> HIDE DEF did
<1>3. did.write \in BOOLEAN
  BY <1>2
<1>4. did.ans \in Nat /\ did.under \in Nat /\ ~(did.ans = 201 \/ did.under # 0)
  BY <1>1
<1>5. did.record \in AppRecord /\ Len(did.record.comments) <= MAX_COMMENTS
  BY <1>1
<1>6. Change(Entries(record), Entries(did.record), a, r, did.under)
  BY <1>1
<1>7. QED  BY <1>3, <1>4, <1>5, <1>6 DEF Fits, did

LEMMA ReactFits ==
  ASSUME NEW record \in AppRecord, Len(record.comments) <= MAX_COMMENTS, NEW a \in Asks, NEW r
  PROVE  Fits(record, Write(React(record, a), 200), a, r)
<1> DEFINE new == React(record, a)
<1>1. a.who \in Persons /\ a.value \in Reaction
  BY AskFacts
<1>2. new \in AppRecord /\ new.comments = record.comments
  BY <1>1 DEF React, AppRecord
<1> HIDE DEF new
<1>3. Entries(new) = Entries(record)
  BY <1>2 DEF Entries
<1>4. Change(Entries(record), Entries(new), a, r, 0)
  BY <1>3 DEF Change
<1>5. QED  BY <1>2, <1>4, WriteFits DEF new

LEMMA CommentReactFits ==
  ASSUME NEW record \in AppRecord, Len(record.comments) <= MAX_COMMENTS, NEW a \in Asks, NEW r
  PROVE  Fits(record, CommentReact(record, a), a, r)
<1> DEFINE k == Find(record, a.cid)
           s == record.comments
           new == [record EXCEPT !.comments[k].reactions[a.who] = a.value]
           t == [s EXCEPT ![k].reactions[a.who] = a.value]
<1>1. a.who \in Persons /\ a.value \in Reaction
  BY AskFacts
<1>2. CASE k = 0
  <2>1. CommentReact(record, a) = Keep(record, 404)
    BY <1>2 DEF CommentReact
  <2>2. QED  BY <2>1, KeepFits
<1>3. CASE k # 0
  <2>1. CommentReact(record, a) = Write(new, 200)
    BY <1>3 DEF CommentReact
  <2>2. k \in 1 .. Len(s)
    BY <1>3, FindFacts
  <2>3. s \in Seq(CommentType) /\ DOMAIN s = 1 .. Len(s) /\ Len(s) \in Nat
    BY RecordFacts
  <2> HIDE DEF k
  <2>4. s[k] \in CommentType
    BY <2>2, <2>3
  <2>5. [s[k] EXCEPT !.reactions[a.who] = a.value] \in CommentType
    BY <1>1, <2>4 DEF CommentType
  <2>6. t \in Seq(CommentType) /\ Len(t) = Len(s) /\ DOMAIN t = DOMAIN s
    BY <2>2, <2>3, <2>5
  <2>7. ASSUME NEW j \in DOMAIN s PROVE Entry(t[j]) = Entry(s[j])
    <3>1. s[j] \in CommentType
      BY <2>3
    <3>2. CASE j = k
      <4>1. t[j] = [s[k] EXCEPT !.reactions[a.who] = a.value]
        BY <3>2
      <4>2. t[j].id = s[k].id /\ t[j].parent = s[k].parent /\ t[j].author = s[k].author
        BY <2>4, <4>1 DEF CommentType
      <4>3. QED  BY <3>2, <4>2 DEF Entry
    <3>3. CASE j # k
      BY <3>3
    <3>4. QED  BY <3>2, <3>3
  <2>8. new = [record EXCEPT !.comments = t]
    BY DEF AppRecord
  <2> HIDE DEF t, new
  <2>9. new \in AppRecord /\ new.comments = t
    BY <2>6, <2>8, WithComments
  <2>10. Entries(new) = Entries(record)
    BY <2>6, <2>7, <2>9 DEF Entries
  <2>11. Change(Entries(record), Entries(new), a, r, 0)
    BY <2>10 DEF Change
  <2>12. Len(new.comments) <= MAX_COMMENTS
    BY <2>6, <2>9
  <2>13. QED  BY <2>1, <2>9, <2>11, <2>12, WriteFits
<1>4. QED  BY <1>2, <1>3


(* One comment is put at the end, at the top or one level deep. *)
LEMMA CommentFits ==
  ASSUME NEW record \in AppRecord, Len(record.comments) <= MAX_COMMENTS, NEW a \in Asks, a.op = "comment",
         NEW r \in Reqs
  PROVE  Fits(record, Comment(record, a, r), a, r)
<1> DEFINE k == Find(record, a.cid)
           s == record.comments
           parent == IF a.cid = 0 THEN 0 ELSE Parent(record.comments[k])
           c == [id |-> r, parent |-> parent, author |-> a.who, reactions |-> NoReactions]
           new == [record EXCEPT !.comments = Append(@, c)]
           did == [Write(new, 201) EXCEPT !.under = parent]
<1>1. CASE Full(record) \/ (a.cid # 0 /\ k = 0)
  <2>1. Comment(record, a, r) = Keep(record, 409)
    BY <1>1 DEF Comment
  <2>2. QED  BY <2>1, KeepFits
<1>2. CASE ~Full(record) /\ ~(a.cid # 0 /\ k = 0)
  <2>1. Comment(record, a, r) = did
    BY <1>2, Zenon DEF Comment
  <2>2. s \in Seq(CommentType) /\ Len(s) \in Nat
    BY RecordFacts
  <2>3. parent \in Nat /\ (parent = 0 \/ \E e \in Entries(record) : parent = IF e.parent # 0 THEN e.parent ELSE e.id)
    <3>1. CASE a.cid = 0
      BY <3>1
    <3>2. CASE a.cid # 0
      <4>1. k \in 1 .. Len(s)
        BY <1>2, <3>2, FindFacts
      <4>2. s[k] \in CommentType /\ Entry(s[k]) \in Entries(record)
        BY <4>1, RecordFacts
      <4> HIDE DEF k
      <4>3. s[k].id \in Nat /\ s[k].parent \in Nat
        BY <4>2 DEF CommentType
      <4>4. Entry(s[k]).id = s[k].id /\ Entry(s[k]).parent = s[k].parent
        BY DEF Entry
      <4>5. parent = IF s[k].parent # 0 THEN s[k].parent ELSE s[k].id
        BY <3>2 DEF Parent
      <4> HIDE DEF parent
      <4>6. QED  BY <4>2, <4>3, <4>4, <4>5
    <3>3. QED  BY <3>1, <3>2
  <2> HIDE DEF parent
  <2>4. a.who \in Persons /\ r \in Nat
    BY AskFacts, ReqsFacts
  <2>5. NoReactions \in [Persons -> Reaction]
    BY DEF NoReactions, Reaction
  <2>6. c \in CommentType /\ Entry(c) = [id |-> r, parent |-> parent, author |-> a.who]
    BY <2>3, <2>4, <2>5 DEF CommentType, Entry
  <2> HIDE DEF c
  <2>7. /\ Append(s, c) \in Seq(CommentType) /\ Len(Append(s, c)) = Len(s) + 1
        /\ \A y : Contains(Append(s, c), y) <=> (Contains(s, y) \/ y = c)
    BY <2>2, <2>6, AppendContains
  <2>8. new = [record EXCEPT !.comments = Append(s, c)]
    OBVIOUS
  <2> HIDE DEF new
  <2>9. new \in AppRecord /\ new.comments = Append(s, c)
    BY <2>7, <2>8, WithComments
  <2>10. Len(new.comments) <= MAX_COMMENTS
    <3>1. ~(Len(s) >= MAX_COMMENTS)
      BY <1>2 DEF Full
    <3>2. QED  BY <2>2, <2>7, <2>9, <3>1, AccountAssumption
  <2>11. Entries(new) = Entries(record) \cup {[id |-> r, parent |-> parent, author |-> a.who]}
    <3>1. \A e : e \in Entries(new) <=> \E d \in CommentType : Contains(new.comments, d) /\ e = Entry(d)
      BY <2>9, EntriesAre
    <3>2. \A e : e \in Entries(record) <=> \E d \in CommentType : Contains(record.comments, d) /\ e = Entry(d)
      BY EntriesAre
    <3>3. ASSUME NEW e PROVE e \in Entries(new) <=> (e \in Entries(record) \/ e = Entry(c))
      BY <2>6, <2>7, <2>9, <3>1, <3>2
    <3>4. Entries(new) = Entries(record) \cup {Entry(c)}
      BY <3>3
    <3>5. QED  BY <2>6, <3>4
  <2>12. did.record = new /\ did.ans = 201 /\ did.under = parent
    BY DEF Write
  <2>13. did.write = TRUE
    BY DEF Write
  <2> HIDE DEF did
  <2>14. did.write \in BOOLEAN
    BY <2>13
  <2>15. did.ans \in Nat /\ did.under \in Nat
    BY <2>3, <2>12
  <2>16. did.record \in AppRecord /\ Len(did.record.comments) <= MAX_COMMENTS
    BY <2>9, <2>10, <2>12
  <2>17. Added(Entries(record), Entries(did.record), a, r, did.under)
    BY <2>3, <2>11, <2>12 DEF Added
  <2>18. Change(Entries(record), Entries(did.record), a, r, did.under)
    BY <2>17 DEF Change
  <2>19. Fits(record, did, a, r)
    BY <2>13, <2>14, <2>15, <2>16, <2>17, <2>18 DEF Fits
  <2>20. QED  BY <2>1, <2>19
<1>3. QED  BY <1>1, <1>2

(* The comment of the one who asks goes, and what hangs below it. *)
LEMMA DeleteFits ==
  ASSUME NEW record \in AppRecord, Len(record.comments) <= MAX_COMMENTS, NEW a \in Asks, a.op = "delete", NEW r
  PROVE  Fits(record, Delete(record, a), a, r)
<1> DEFINE k == Find(record, a.cid)
           s == record.comments
           kept == {c \in ToSet(s) : c.id # a.cid /\ c.parent # a.cid}
           t == Filter(s, kept)
           new == [record EXCEPT !.comments = t]
<1>1. CASE k = 0
  <2>1. Delete(record, a) = Keep(record, 404)
    BY <1>1 DEF Delete
  <2>2. QED  BY <2>1, KeepFits
<1>2. CASE k # 0 /\ record.comments[k].author # a.who
  <2>1. Delete(record, a) = Keep(record, 403)
    BY <1>2 DEF Delete
  <2>2. QED  BY <2>1, KeepFits
<1>3. CASE k # 0 /\ record.comments[k].author = a.who
  <2>1. Delete(record, a) = Write(new, 200)
    BY <1>3 DEF Delete
  <2>2. s \in Seq(CommentType) /\ Len(s) \in Nat
    BY RecordFacts
  <2>3. k \in 1 .. Len(s) /\ s[k].id = a.cid
    BY <1>3, FindFacts
  <2>4. Entry(s[k]) \in Entries(record) /\ Entry(s[k]).id = a.cid /\ Entry(s[k]).author = a.who
    <3>1. Entry(s[k]) \in Entries(record)
      BY <2>3, RecordFacts
    <3>2. QED  BY <1>3, <2>3, <3>1 DEF Entry
  <2>5. \A x : x \in kept <=> (Contains(s, x) /\ x.id # a.cid /\ x.parent # a.cid)
    <3>1. DOMAIN s = 1 .. Len(s)
      BY <2>2
    <3>2. \A x : x \in ToSet(s) <=> Contains(s, x)
      BY <3>1 DEF ToSet, Contains
    <3>3. QED  BY <3>2
  <2> HIDE DEF kept, k
  <2>6. /\ t \in Seq(CommentType) /\ Len(t) <= Len(s)
        /\ \A x : Contains(t, x) <=> (Contains(s, x) /\ x \in kept)
    BY <2>2, FilterFacts
  <2> HIDE DEF t
  <2>7. new \in AppRecord /\ new.comments = t
    BY <2>6, WithComments
  <2> HIDE DEF new
  <2>8. Len(new.comments) <= MAX_COMMENTS
    <3>1. Len(t) \in Nat
      BY <2>6
    <3>2. QED  BY <2>2, <2>6, <2>7, <3>1, AccountAssumption
  <2>9. Entries(new) = {e \in Entries(record) : e.id # a.cid /\ e.parent # a.cid}
    <3>1. \A e : e \in Entries(new) <=> \E d \in CommentType : Contains(t, d) /\ e = Entry(d)
      BY <2>7, EntriesAre
    <3>2. \A e : e \in Entries(record) <=> \E d \in CommentType : Contains(s, d) /\ e = Entry(d)
      BY EntriesAre
    <3>3. \A d : Contains(t, d) <=> (Contains(s, d) /\ d.id # a.cid /\ d.parent # a.cid)
      BY <2>5, <2>6
    <3>4. \A d : Entry(d).id = d.id /\ Entry(d).parent = d.parent
      BY DEF Entry
    <3>5. \A e : e \in Entries(new) <=> (e \in Entries(record) /\ e.id # a.cid /\ e.parent # a.cid)
      BY <3>1, <3>2, <3>3, <3>4
    <3>6. QED  BY <3>5
  <2>10. Removed(Entries(record), Entries(new), a)
    BY <2>4, <2>9 DEF Removed
  <2>11. Change(Entries(record), Entries(new), a, r, 0)
    BY <2>10 DEF Change
  <2>12. QED  BY <2>1, <2>7, <2>8, <2>11, WriteFits
<1>4. QED  BY <1>1, <1>2, <1>3

LEMMA AppApply ==
  ASSUME NEW record \in AppRecord, Len(record.comments) <= MAX_COMMENTS, NEW a \in Asks, a.op \in AppOps,
         NEW r \in Reqs
  PROVE  Fits(record, Apply(record, a, r), a, r)
<1>1. CASE a.op = "react"
  <2>1. Apply(record, a, r) = Write(React(record, a), 200)
    BY <1>1 DEF Apply
  <2>2. QED  BY <2>1, ReactFits
<1>2. CASE a.op = "comment"
  <2>1. Apply(record, a, r) = Comment(record, a, r)
    BY <1>2 DEF Apply
  <2>2. QED  BY <1>2, <2>1, CommentFits
<1>3. CASE a.op = "commentReact"
  <2>1. Apply(record, a, r) = CommentReact(record, a)
    BY <1>3 DEF Apply
  <2>2. QED  BY <2>1, CommentReactFits
<1>4. CASE a.op = "delete"
  <2>1. Apply(record, a, r) = Delete(record, a)
    BY <1>4 DEF Apply
  <2>2. QED  BY <1>4, <2>1, DeleteFits
<1>5. QED  BY <1>1, <1>2, <1>3, <1>4 DEF AppOps


-----------------------------------------------------------------------------
(* What a request makes of a person's record. *)

LEMMA PrependContains ==
  ASSUME NEW S, NEW s \in Seq(S), NEW x \in S
  PROVE  /\ <<x>> \o s \in Seq(S) /\ Len(<<x>> \o s) = Len(s) + 1
         /\ \A y : Contains(<<x>> \o s, y) <=> (Contains(s, y) \/ y = x)
<1> DEFINE t == <<x>> \o s
<1>1. t \in Seq(S) /\ Len(t) = Len(s) + 1 /\ Len(s) \in Nat
  OBVIOUS
<1>2. t[1] = x /\ \A i \in 1 .. Len(s) : t[i + 1] = s[i]
  OBVIOUS
<1> HIDE DEF t
<1>3. ASSUME NEW y PROVE Contains(t, y) <=> (Contains(s, y) \/ y = x)
  <2>1. ASSUME Contains(t, y), y # x PROVE Contains(s, y)
    <3>1. PICK i \in 1 .. Len(t) : t[i] = y
      BY <2>1 DEF Contains
    <3>2. i # 1
      BY <1>2, <2>1, <3>1
    <3>3. i - 1 \in 1 .. Len(s) /\ (i - 1) + 1 = i
      BY <1>1, <3>2
    <3>4. s[i - 1] = t[(i - 1) + 1]
      BY <1>2, <3>3
    <3>5. s[i - 1] = y
      BY <3>1, <3>3, <3>4
    <3>6. QED  BY <3>3, <3>5 DEF Contains
  <2>2. ASSUME Contains(s, y) PROVE Contains(t, y)
    <3>1. PICK i \in 1 .. Len(s) : s[i] = y
      BY <2>2 DEF Contains
    <3>2. i + 1 \in 1 .. Len(t) /\ t[i + 1] = y
      BY <1>1, <1>2, <3>1
    <3>3. QED  BY <3>2 DEF Contains
  <2>3. Contains(t, x)
    <3>1. 1 \in 1 .. Len(t)
      BY <1>1
    <3>2. QED  BY <1>2, <3>1 DEF Contains
  <2>4. QED  BY <2>1, <2>2, <2>3
<1>4. QED  BY <1>1, <1>3 DEF t

LEMMA ContainsType ==
  ASSUME NEW S, NEW s \in Seq(S), NEW x, Contains(s, x)
  PROVE  x \in S
  BY DEF Contains

(* Whether model m is saved after request a has been carried out. *)
After(a, was, m) ==
    IF a.op = "save" THEN was \/ m = a.model
    ELSE IF a.op = "unsave" THEN was /\ m # a.model ELSE was

UserFits(record, did, a) ==
    /\ did.write \in BOOLEAN /\ did.ans \in Nat /\ did.ans # 201 /\ did.under = 0
    /\ did.write => /\ did.record \in UserRecord /\ Len(did.record.saved) <= MAX_SAVED
                    /\ \A m \in Models :
                          Contains(did.record.saved, m) <=> After(a, Contains(record.saved, m), m)
    /\ a.op \in {"save", "unsave"} /\ did.ans = 200 => did.write

LEMMA KeepUser ==
  ASSUME NEW record, NEW a, NEW ans \in Nat, ans # 201, a.op \in {"save", "unsave"} => ans # 200
  PROVE  UserFits(record, Keep(record, ans), a)
  BY DEF UserFits, Keep

LEMMA WriteUser ==
  ASSUME NEW record, NEW a, NEW new \in UserRecord, Len(new.saved) <= MAX_SAVED,
         \A m \in Models : Contains(new.saved, m) <=> After(a, Contains(record.saved, m), m)
  PROVE  UserFits(record, Write(new, 200), a)
<1> DEFINE did == Write(new, 200)
<1>1. did.ans = 200 /\ did.under = 0 /\ did.record = new
  BY DEF Write
<1>2. did.write = TRUE
  BY Zenon DEF Write
<1> HIDE DEF did
<1>3. did.write \in BOOLEAN
  BY <1>2
<1>4. did.ans \in Nat /\ did.under = 0 /\ did.ans # 201
  BY <1>1
<1>5. /\ did.record \in UserRecord /\ Len(did.record.saved) <= MAX_SAVED
      /\ \A m \in Models : Contains(did.record.saved, m) <=> After(a, Contains(record.saved, m), m)
  BY <1>1
<1>6. QED  BY <1>2, <1>3, <1>4, <1>5 DEF UserFits, did

LEMMA UserRecordFacts ==
  ASSUME NEW record \in UserRecord
  PROVE  /\ record.wallet \in Reaction /\ record.saved \in Seq(Models) /\ record.requests \in Seq(Models)
         /\ Len(record.saved) \in Nat
  BY DEF UserRecord

LEMMA WithSaved ==
  ASSUME NEW record \in UserRecord, NEW t \in Seq(Models)
  PROVE  [record EXCEPT !.saved = t] \in UserRecord /\ [record EXCEPT !.saved = t].saved = t
  BY DEF UserRecord

LEMMA SaveFits ==
  ASSUME NEW record \in UserRecord, Len(record.saved) <= MAX_SAVED, NEW a \in Asks, a.op = "save"
  PROVE  UserFits(record, Save(record, a), a)
<1> DEFINE s == record.saved
           t == <<a.model>> \o s
           new == [record EXCEPT !.saved = t]
<1>1. a.model \in Models /\ s \in Seq(Models) /\ Len(s) \in Nat
  BY AskFacts, UserRecordFacts
<1>2. CASE Len(s) >= MAX_SAVED
  <2>1. Save(record, a) = Keep(record, 409)
    BY <1>2 DEF Save
  <2>2. QED  BY <2>1, KeepUser
<1>3. CASE ~(Len(s) >= MAX_SAVED) /\ Contains(s, a.model)
  <2>1. Save(record, a) = Write(record, 200)
    BY <1>3 DEF Save
  <2>2. \A m \in Models : Contains(record.saved, m) <=> After(a, Contains(record.saved, m), m)
    BY <1>3 DEF After
  <2>3. QED  BY <2>1, <2>2, WriteUser
<1>4. CASE ~(Len(s) >= MAX_SAVED) /\ ~Contains(s, a.model)
  <2>1. Save(record, a) = Write(new, 200)
    BY <1>4 DEF Save
  <2>2. /\ t \in Seq(Models) /\ Len(t) = Len(s) + 1
        /\ \A y : Contains(t, y) <=> (Contains(s, y) \/ y = a.model)
    BY <1>1, PrependContains
  <2> HIDE DEF t
  <2>3. new \in UserRecord /\ new.saved = t
    BY <2>2, WithSaved
  <2> HIDE DEF new
  <2>4. Len(new.saved) <= MAX_SAVED
    BY <1>1, <1>4, <2>2, <2>3, AccountAssumption
  <2>5. \A m \in Models : Contains(new.saved, m) <=> After(a, Contains(record.saved, m), m)
    BY <2>2, <2>3 DEF After
  <2>6. QED  BY <2>1, <2>3, <2>4, <2>5, WriteUser
<1>5. QED  BY <1>2, <1>3, <1>4

LEMMA UnsaveFits ==
  ASSUME NEW record \in UserRecord, Len(record.saved) <= MAX_SAVED, NEW a \in Asks, a.op = "unsave"
  PROVE  UserFits(record, Write(Unsave(record, a), 200), a)
<1> DEFINE s == record.saved
           t == Filter(s, Models \ {a.model})
           new == [record EXCEPT !.saved = t]
<1>1. s \in Seq(Models) /\ Len(s) \in Nat
  BY UserRecordFacts
<1>2. Unsave(record, a) = new
  BY DEF Unsave
<1>3. /\ t \in Seq(Models) /\ Len(t) <= Len(s)
      /\ \A x : Contains(t, x) <=> (Contains(s, x) /\ x \in Models \ {a.model})
  BY <1>1, FilterFacts
<1> HIDE DEF t
<1>4. new \in UserRecord /\ new.saved = t
  BY <1>3, WithSaved
<1> HIDE DEF new
<1>5. Len(new.saved) <= MAX_SAVED
  <2>1. Len(t) \in Nat
    BY <1>3
  <2>2. QED  BY <1>1, <1>3, <1>4, <2>1, AccountAssumption
<1>6. \A m \in Models : Contains(new.saved, m) <=> After(a, Contains(record.saved, m), m)
  BY <1>3, <1>4 DEF After
<1>7. QED  BY <1>2, <1>4, <1>5, <1>6, WriteUser

LEMMA RequestFits ==
  ASSUME NEW record \in UserRecord, Len(record.saved) <= MAX_SAVED, NEW a \in Asks, a.op = "request"
  PROVE  UserFits(record, Request(record, a), a)
<1> DEFINE s == record.requests
           t == <<a.model>> \o s
           new == [record EXCEPT !.requests = t]
<1>1. a.model \in Models /\ s \in Seq(Models)
  BY AskFacts, UserRecordFacts
<1>2. CASE Len(s) >= MAX_REQUESTS
  <2>1. Request(record, a) = Keep(record, 409)
    BY <1>2 DEF Request
  <2>2. QED  BY <2>1, KeepUser
<1>3. CASE ~(Len(s) >= MAX_REQUESTS) /\ Contains(s, a.model)
  <2>1. Request(record, a) = Keep(record, 200)
    BY <1>3 DEF Request
  <2>2. QED  BY <2>1, KeepUser
<1>4. CASE ~(Len(s) >= MAX_REQUESTS) /\ ~Contains(s, a.model)
  <2>1. Request(record, a) = Write(new, 200)
    BY <1>4 DEF Request
  <2>2. t \in Seq(Models)
    BY <1>1, PrependContains
  <2> HIDE DEF t
  <2>3. new \in UserRecord /\ new.saved = record.saved
    BY <2>2 DEF UserRecord
  <2> HIDE DEF new
  <2>4. \A m \in Models : Contains(new.saved, m) <=> After(a, Contains(record.saved, m), m)
    BY <2>3 DEF After
  <2>5. Len(new.saved) <= MAX_SAVED
    BY <2>3
  <2>6. QED  BY <2>1, <2>3, <2>4, <2>5, WriteUser
<1>5. QED  BY <1>2, <1>3, <1>4

LEMMA UserApply ==
  ASSUME NEW record \in UserRecord, Len(record.saved) <= MAX_SAVED, NEW a \in Asks, a.op \notin AppOps, NEW r
  PROVE  UserFits(record, Apply(record, a, r), a)
<1>1. CASE a.op = "save"
  <2>1. Apply(record, a, r) = Save(record, a)
    BY <1>1 DEF Apply
  <2>2. QED  BY <1>1, <2>1, SaveFits
<1>2. CASE a.op = "unsave"
  <2>1. Apply(record, a, r) = Write(Unsave(record, a), 200)
    BY <1>2 DEF Apply
  <2>2. QED  BY <1>2, <2>1, UnsaveFits
<1>3. CASE a.op = "request"
  <2>1. Apply(record, a, r) = Request(record, a)
    BY <1>3 DEF Apply
  <2>2. QED  BY <1>3, <2>1, RequestFits
<1>4. CASE a.op = "publisher"
  <2>1. Apply(record, a, r) = Keep(record, 202)
    BY <1>4 DEF Apply
  <2>2. QED  BY <1>4, <2>1, KeepUser
<1>5. CASE a.op = "wallet"
  <2> DEFINE new == [record EXCEPT !.wallet = a.value]
  <2>1. Apply(record, a, r) = Write(new, 200)
    BY <1>5 DEF Apply
  <2>2. a.value \in Reaction
    BY AskFacts
  <2>3. new \in UserRecord /\ new.saved = record.saved
    BY <2>2 DEF UserRecord
  <2> HIDE DEF new
  <2>4. \A m \in Models : Contains(new.saved, m) <=> After(a, Contains(record.saved, m), m)
    BY <1>5, <2>3 DEF After
  <2>5. Len(new.saved) <= MAX_SAVED
    BY <2>3
  <2>6. QED  BY <2>1, <2>3, <2>4, <2>5, WriteUser
<1>6. a.op \in AppOps \cup {"wallet", "save", "unsave", "request", "publisher"}
  BY AskFacts
<1>7. QED  BY <1>1, <1>2, <1>3, <1>4, <1>5, <1>6


-----------------------------------------------------------------------------
(* The steps, as what they do to the requests. *)

(* Request r alone changes, and keeps what it asks. *)
Only(r) == /\ req' \in [Reqs -> ReqType]
           /\ \A s \in Reqs : s # r => req'[s] = req[s]
           /\ req'[r].ask = req[r].ask

LEMMA ReqFacts ==
  ASSUME Types, NEW r \in Reqs
  PROVE  /\ req[r] \in ReqType /\ req[r].ask \in Asks /\ req[r].pc \in PCs
         /\ req[r].record \in Records /\ req[r].ans \in Nat /\ req[r].under \in Nat
<1>1. req[r] \in ReqType
  BY DEF Types
<1>2. QED  BY <1>1 DEF ReqType

(* What r read, and what it makes of it. *)
FileOf(r) == IF IsApp(r) THEN appFile[req[r].ask.at] ELSE userFile[req[r].ask.who]
Did(r) == Apply(FileOf(r), req[r].ask, r)

LEMMA DidApp ==
  ASSUME Types, NEW r \in Reqs, IsApp(r)
  PROVE  /\ req[r].ask.at \in Apps /\ FileOf(r) = appFile[req[r].ask.at] /\ FileOf(r) \in AppRecord
         /\ Fits(FileOf(r), Did(r), req[r].ask, r)
<1>1. req[r].ask \in Asks /\ req[r].ask.op \in AppOps
  BY ReqFacts DEF IsApp
<1>2. req[r].ask.at \in Apps
  BY <1>1, AskFacts
<1>3. FileOf(r) = appFile[req[r].ask.at]
  BY DEF FileOf
<1>4. FileOf(r) \in AppRecord /\ Len(FileOf(r).comments) <= MAX_COMMENTS
  BY <1>2, <1>3 DEF Types
<1>5. QED  BY <1>1, <1>2, <1>3, <1>4, AppApply DEF Did

LEMMA DidUser ==
  ASSUME Types, NEW r \in Reqs, ~IsApp(r)
  PROVE  /\ req[r].ask.who \in Persons /\ FileOf(r) = userFile[req[r].ask.who] /\ FileOf(r) \in UserRecord
         /\ UserFits(FileOf(r), Did(r), req[r].ask)
<1>1. req[r].ask \in Asks /\ req[r].ask.op \notin AppOps
  BY ReqFacts DEF IsApp
<1>2. req[r].ask.who \in Persons
  BY <1>1, AskFacts
<1>3. FileOf(r) = userFile[req[r].ask.who]
  BY DEF FileOf
<1>4. FileOf(r) \in UserRecord /\ Len(FileOf(r).saved) <= MAX_SAVED
  BY <1>2, <1>3 DEF Types
<1>5. QED  BY <1>1, <1>2, <1>3, <1>4, UserApply DEF Did

LEMMA DidFacts ==
  ASSUME Types, NEW r \in Reqs
  PROVE  /\ Did(r).write \in BOOLEAN /\ Did(r).ans \in Nat /\ Did(r).under \in Nat
         /\ Did(r).write => Did(r).record \in Records
<1>1. CASE IsApp(r)
  BY <1>1, DidApp DEF Fits, Records
<1>2. CASE ~IsApp(r)
  BY <1>2, DidUser DEF UserFits, Records
<1>3. QED  BY <1>1, <1>2

LEMMA ArriveReq ==
  ASSUME Types, NEW a \in Asks, Arrive(a)
  PROVE  LET r == arrived + 1
         IN  /\ r \in Reqs /\ req[r].pc = "free" /\ req' \in [Reqs -> ReqType]
             /\ \A s \in Reqs : s # r => req'[s] = req[s]
             /\ req'[r].ask = a /\ req'[r].pc = "load" /\ req'[r].under = req[r].under
             /\ \A s \in Reqs : req[s].pc # "free" => s < r
<1> DEFINE r == arrived + 1
<1>1. arrived \in 0 .. MaxAsks /\ arrived < MaxAsks /\ MaxAsks \in Nat
  BY ReqsFacts DEF Types, Arrive
<1>2. r \in Reqs
  BY <1>1 DEF Reqs
<1>3. req[r].pc = "free"
  BY <1>1, <1>2 DEF Types
<1>4. req[r] \in ReqType /\ req \in [Reqs -> ReqType]
  BY <1>2, ReqFacts DEF Types
<1> DEFINE q == [req[r] EXCEPT !.ask = a, !.pc = "load"]
<1>5. req' = [req EXCEPT ![r] = q]
  BY DEF Arrive
<1>6. q \in ReqType /\ q.ask = a /\ q.pc = "load" /\ q.under = req[r].under
  BY <1>4 DEF ReqType, PCs
<1> HIDE DEF q
<1>7. req' \in [Reqs -> ReqType] /\ req'[r] = q /\ \A s \in Reqs : s # r => req'[s] = req[s]
  BY <1>2, <1>4, <1>5, <1>6
<1>8. ASSUME NEW s \in Reqs, req[s].pc # "free" PROVE s < r
  <2>1. ~(arrived < s) /\ s \in Nat
    BY <1>8, ReqsFacts DEF Types
  <2>2. QED  BY <1>1, <2>1
<1>9. QED  BY <1>2, <1>3, <1>6, <1>7, <1>8

LEMMA LoadReq ==
  ASSUME Types, NEW r \in Reqs, Load(r)
  PROVE  /\ Only(r) /\ req[r].pc = "load"
         /\ req'[r].pc = IF Did(r).write THEN "written"
                         ELSE IF Logs(req[r].ask, FALSE) THEN "append" ELSE "answer"
         /\ req'[r].ans = Did(r).ans /\ req'[r].under = Did(r).under
         /\ Did(r).write => req'[r].record = Did(r).record
         /\ UNCHANGED <<appFile, userFile, log, queues, arrived, mixed, faults>>
<1> DEFINE pc == IF Did(r).write THEN "written" ELSE IF Logs(req[r].ask, FALSE) THEN "append" ELSE "answer"
           rec == IF Did(r).write THEN Did(r).record ELSE NoRecord
           q == [req[r] EXCEPT !.pc = pc, !.ans = Did(r).ans, !.under = Did(r).under, !.record = rec]
<1>1. req' = [req EXCEPT ![r] = q]
  BY DEF Load, Did, FileOf
<1>2. req[r] \in ReqType /\ req \in [Reqs -> ReqType]
  BY ReqFacts DEF Types
<1>3. pc \in PCs /\ rec \in Records
  BY DidFacts DEF PCs, Records
<1>4. Did(r).write => rec = Did(r).record
  OBVIOUS
<1> HIDE DEF pc, rec
<1>5. /\ q \in ReqType /\ q.ask = req[r].ask /\ q.pc = pc /\ q.ans = Did(r).ans
      /\ q.under = Did(r).under /\ q.record = rec
  BY <1>2, <1>3, DidFacts DEF ReqType
<1> HIDE DEF q
<1>6. req' \in [Reqs -> ReqType] /\ req'[r] = q /\ \A s \in Reqs : s # r => req'[s] = req[s]
  BY <1>1, <1>2, <1>5
<1>7. Only(r)
  BY <1>5, <1>6 DEF Only
<1>8. req[r].pc = "load" /\ UNCHANGED <<appFile, userFile, log, queues, arrived, mixed, faults>>
  BY DEF Load
<1>9. QED  BY <1>4, <1>5, <1>6, <1>7, <1>8 DEF pc

LEMMA RenameReq ==
  ASSUME Types, NEW r \in Reqs, Rename(r)
  PROVE  /\ Only(r) /\ req[r].pc = "written"
         /\ req'[r].pc = IF Logs(req[r].ask, TRUE) THEN "append" ELSE "answer"
         /\ req'[r].ans = req[r].ans /\ req'[r].under = req[r].under
         /\ UNCHANGED <<log, queues, arrived, mixed, faults>>
<1> DEFINE pc == IF Logs(req[r].ask, TRUE) THEN "append" ELSE "answer"
           q == [req[r] EXCEPT !.pc = pc, !.record = NoRecord]
<1>1. req' = [req EXCEPT ![r] = q]
  BY DEF Rename
<1>2. req[r] \in ReqType /\ req \in [Reqs -> ReqType]
  BY ReqFacts DEF Types
<1>3. pc \in PCs /\ NoRecord \in Records
  BY DEF PCs, Records
<1> HIDE DEF pc
<1>4. q \in ReqType /\ q.ask = req[r].ask /\ q.pc = pc /\ q.ans = req[r].ans /\ q.under = req[r].under
  BY <1>2, <1>3 DEF ReqType
<1> HIDE DEF q
<1>5. req' \in [Reqs -> ReqType] /\ req'[r] = q /\ \A s \in Reqs : s # r => req'[s] = req[s]
  BY <1>1, <1>2, <1>4
<1>6. Only(r)
  BY <1>4, <1>5 DEF Only
<1>7. req[r].pc = "written" /\ UNCHANGED <<log, queues, arrived, mixed, faults>>
  BY DEF Rename
<1>8. QED  BY <1>4, <1>5, <1>6, <1>7 DEF pc

LEMMA AppendReq ==
  ASSUME Types, NEW r \in Reqs, AppendLine(r)
  PROVE  /\ Only(r) /\ req[r].pc = "append" /\ req'[r].pc = "answer"
         /\ req'[r].ans = req[r].ans /\ req'[r].under = req[r].under
         /\ UNCHANGED <<appFile, userFile, queues, arrived, mixed, faults>>
<1> DEFINE q == [req[r] EXCEPT !.pc = "answer"]
<1>1. req' = [req EXCEPT ![r] = q]
  BY DEF AppendLine
<1>2. req[r] \in ReqType /\ req \in [Reqs -> ReqType]
  BY ReqFacts DEF Types
<1>3. q \in ReqType /\ q.ask = req[r].ask /\ q.pc = "answer" /\ q.ans = req[r].ans /\ q.under = req[r].under
  BY <1>2 DEF ReqType, PCs
<1> HIDE DEF q
<1>4. req' \in [Reqs -> ReqType] /\ req'[r] = q /\ \A s \in Reqs : s # r => req'[s] = req[s]
  BY <1>1, <1>2, <1>3
<1>5. Only(r)
  BY <1>3, <1>4 DEF Only
<1>6. req[r].pc = "append" /\ UNCHANGED <<appFile, userFile, queues, arrived, mixed, faults>>
  BY DEF AppendLine
<1>7. QED  BY <1>3, <1>4, <1>5, <1>6

(* A request ends, with its answer or with 500. *)
Finish(r) ==
    /\ Only(r) /\ req[r].pc \in {"written", "append", "answer"} /\ req'[r].pc = "done"
    /\ req'[r].ans = 500 \/ (req[r].pc = "answer" /\ req'[r].ans = req[r].ans)
    /\ req'[r].under = req[r].under
    /\ Dequeue(r)
    /\ UNCHANGED <<appFile, userFile, log, arrived, mixed>>

LEMMA EndedReq ==
  ASSUME Types, NEW r \in Reqs, NEW ans \in Nat, Ended(r, ans)
  PROVE  Only(r) /\ req'[r].pc = "done" /\ req'[r].ans = ans /\ req'[r].under = req[r].under
<1> DEFINE q == [req[r] EXCEPT !.pc = "done", !.record = NoRecord, !.ans = ans]
<1>1. req' = [req EXCEPT ![r] = q]
  BY DEF Ended
<1>2. req[r] \in ReqType /\ req \in [Reqs -> ReqType]
  BY ReqFacts DEF Types
<1>3. q \in ReqType /\ q.ask = req[r].ask /\ q.pc = "done" /\ q.ans = ans /\ q.under = req[r].under
  BY <1>2 DEF ReqType, PCs, Records
<1> HIDE DEF q
<1>4. req' \in [Reqs -> ReqType] /\ req'[r] = q /\ \A s \in Reqs : s # r => req'[s] = req[s]
  BY <1>1, <1>2, <1>3
<1>5. QED  BY <1>3, <1>4 DEF Only

LEMMA AnswerReq ==
  ASSUME Types, NEW r \in Reqs, Answer(r)
  PROVE  Finish(r)
<1>1. req[r].ans \in Nat
  BY ReqFacts
<1>2. Ended(r, req[r].ans) /\ req[r].pc = "answer" /\ Dequeue(r)
      /\ UNCHANGED <<appFile, userFile, log, arrived, mixed>>
  BY DEF Answer
<1>3. Only(r) /\ req'[r].pc = "done" /\ req'[r].ans = req[r].ans /\ req'[r].under = req[r].under
  BY <1>1, <1>2, EndedReq
<1>4. QED  BY <1>2, <1>3 DEF Finish

LEMMA FailReq ==
  ASSUME Types, NEW r \in Reqs, Fail(r)
  PROVE  Finish(r)
<1>1. 500 \in Nat
  OBVIOUS
<1>2. Ended(r, 500) /\ req[r].pc \in {"written", "append"} /\ Dequeue(r)
      /\ UNCHANGED <<appFile, userFile, log, arrived, mixed>>
  BY DEF Fail, AfterFail
<1>3. Only(r) /\ req'[r].pc = "done" /\ req'[r].ans = 500 /\ req'[r].under = req[r].under
  BY <1>1, <1>2, EndedReq
<1>4. QED  BY <1>2, <1>3 DEF Finish

LEMMA CrashReq ==
  ASSUME Types, Crash
  PROVE  /\ req' \in [Reqs -> ReqType]
         /\ \A s \in Reqs : ~Under(s) => req'[s] = req[s]
         /\ \A s \in Reqs : Under(s) =>
               /\ req'[s].ask = req[s].ask /\ req'[s].pc = "lost"
               /\ req'[s].ans = req[s].ans /\ req'[s].under = req[s].under
         /\ queues' = [a \in Apps |-> <<>>]
         /\ UNCHANGED <<appFile, userFile, log, arrived, mixed>>
<1> DEFINE q(s) == [req[s] EXCEPT !.pc = "lost", !.record = NoRecord]
<1>1. req' = [s \in Reqs |-> IF Under(s) THEN q(s) ELSE req[s]]
  BY DEF Crash
<1>2. ASSUME NEW s \in Reqs
      PROVE  q(s) \in ReqType /\ q(s).ask = req[s].ask /\ q(s).pc = "lost" /\ q(s).ans = req[s].ans
             /\ q(s).under = req[s].under /\ req[s] \in ReqType
  <2>1. req[s] \in ReqType
    BY ReqFacts
  <2>2. QED  BY <2>1 DEF ReqType, PCs, Records
<1> HIDE DEF q
<1>3. \A s \in Reqs : req'[s] = IF Under(s) THEN q(s) ELSE req[s]
  BY <1>1
<1>4. req' \in [Reqs -> ReqType]
  BY <1>1, <1>2
<1>5. queues' = [a \in Apps |-> <<>>] /\ UNCHANGED <<appFile, userFile, log, arrived, mixed>>
  BY DEF Crash
<1>6. QED  BY <1>2, <1>3, <1>4, <1>5


-----------------------------------------------------------------------------
(* Types. *)

(* A request with another pc that is not "free" has still come. *)
LEMMA TypesOnly ==
  ASSUME Types, NEW r \in Reqs, Only(r), req[r].pc # "free", req'[r].pc # "free",
         arrived' = arrived, mixed' = mixed
  PROVE  /\ arrived' \in 0 .. MaxAsks /\ mixed' \subseteq Persons /\ req' \in [Reqs -> ReqType]
         /\ \A s \in Reqs : (req'[s].pc = "free") = (arrived' < s)
<1>1. ASSUME NEW s \in Reqs PROVE (req'[s].pc = "free") = (arrived' < s)
  <2>1. (req'[s].pc = "free") <=> (req[s].pc = "free")
    BY DEF Only
  <2>2. (req[s].pc = "free") = (arrived < s)
    BY DEF Types
  <2>3. QED  BY <2>1, <2>2
<1>2. QED  BY <1>1 DEF Types, Only

LEMMA TypesArrive ==
  ASSUME Types, NEW a \in Asks, Arrive(a)
  PROVE  Types'
<1> DEFINE r == arrived + 1
<1>1. /\ r \in Reqs /\ req[r].pc = "free" /\ req' \in [Reqs -> ReqType]
      /\ \A s \in Reqs : s # r => req'[s] = req[s]
      /\ req'[r].ask = a /\ req'[r].pc = "load"
  BY ArriveReq
<1>2. /\ arrived' = r /\ arrived < MaxAsks /\ UNCHANGED <<appFile, userFile>>
      /\ queues' = IF a.at \in Apps THEN [queues EXCEPT ![a.at] = Append(@, r)] ELSE queues
      /\ mixed' = mixed \/ mixed' = mixed \cup {a.who}
  BY DEF Arrive
<1>3. arrived \in 0 .. MaxAsks /\ MaxAsks \in Nat
  BY ReqsFacts DEF Types
<1>4. arrived' \in 0 .. MaxAsks
  BY <1>2, <1>3
<1>5. mixed' \subseteq Persons
  BY <1>2, AskFacts DEF Types
<1>6. queues' \in [Apps -> Seq(Reqs)]
  <2>1. queues \in [Apps -> Seq(Reqs)]
    BY DEF Types
  <2>2. CASE a.at \in Apps
    <3>1. Append(queues[a.at], r) \in Seq(Reqs)
      BY <1>1, <2>1, <2>2
    <3> HIDE DEF r
    <3>2. QED  BY <1>2, <2>1, <2>2, <3>1
  <2>3. QED  BY <1>2, <2>1, <2>2
<1>7. ASSUME NEW s \in Reqs PROVE (req'[s].pc = "free") = (arrived' < s)
  <2>1. s \in Nat /\ (req[s].pc = "free") = (arrived < s)
    BY ReqsFacts DEF Types
  <2>2. CASE s = r
    BY <1>1, <1>2, <1>3, <2>2
  <2>3. CASE s # r
    <3>1. req'[s] = req[s] /\ (arrived' < s) = (arrived < s)
      BY <1>1, <1>2, <1>3, <2>1, <2>3
    <3>2. QED  BY <2>1, <3>1
  <2>4. QED  BY <2>2, <2>3
<1>8. QED  BY <1>1, <1>2, <1>4, <1>5, <1>6, <1>7 DEF Types

LEMMA TypesLoad ==
  ASSUME Types, NEW r \in Reqs, Load(r)
  PROVE  Types'
<1>1. /\ Only(r) /\ req[r].pc = "load" /\ req'[r].pc # "free"
      /\ UNCHANGED <<appFile, userFile, log, queues, arrived, mixed, faults>>
  BY LoadReq
<1>2. /\ arrived' \in 0 .. MaxAsks /\ mixed' \subseteq Persons /\ req' \in [Reqs -> ReqType]
      /\ \A s \in Reqs : (req'[s].pc = "free") = (arrived' < s)
  BY <1>1, TypesOnly
<1>3. QED  BY <1>1, <1>2 DEF Types

LEMMA TypesAppend ==
  ASSUME Types, NEW r \in Reqs, AppendLine(r)
  PROVE  Types'
<1>1. /\ Only(r) /\ req[r].pc = "append" /\ req'[r].pc = "answer"
      /\ UNCHANGED <<appFile, userFile, queues, arrived, mixed, faults>>
  BY AppendReq
<1>2. /\ arrived' \in 0 .. MaxAsks /\ mixed' \subseteq Persons /\ req' \in [Reqs -> ReqType]
      /\ \A s \in Reqs : (req'[s].pc = "free") = (arrived' < s)
  BY <1>1, TypesOnly
<1>3. QED  BY <1>1, <1>2 DEF Types

(* A queue without r. *)
LEMMA DequeueFacts ==
  ASSUME Types, NEW r \in Reqs, Dequeue(r)
  PROVE  /\ queues' \in [Apps -> Seq(Reqs)]
         /\ \A a \in Apps : IsApp(r) /\ a = req[r].ask.at =>
               \A s : Contains(queues'[a], s) <=> (Contains(queues[a], s) /\ s \in Reqs \ {r})
         /\ \A a \in Apps : ~(IsApp(r) /\ a = req[r].ask.at) => queues'[a] = queues[a]
<1>1. queues \in [Apps -> Seq(Reqs)]
  BY DEF Types
<1>2. CASE IsApp(r)
  <2> DEFINE at == req[r].ask.at
             t == Filter(queues[at], Reqs \ {r})
  <2>1. at \in Apps
    BY <1>2, DidApp
  <2>2. queues' = [queues EXCEPT ![at] = t]
    BY <1>2 DEF Dequeue
  <2>3. queues[at] \in Seq(Reqs)
    BY <1>1, <2>1
  <2>4. t \in Seq(Reqs) /\ \A s : Contains(t, s) <=> (Contains(queues[at], s) /\ s \in Reqs \ {r})
    BY <2>3, FilterFacts
  <2> HIDE DEF t
  <2>5. queues' \in [Apps -> Seq(Reqs)] /\ queues'[at] = t /\ \A a \in Apps : a # at => queues'[a] = queues[a]
    BY <1>1, <2>1, <2>2, <2>4
  <2>6. QED  BY <1>2, <2>4, <2>5
<1>3. CASE ~IsApp(r)
  BY <1>1, <1>3 DEF Dequeue
<1>4. QED  BY <1>2, <1>3

LEMMA TypesFinish ==
  ASSUME Types, NEW r \in Reqs, Finish(r)
  PROVE  Types'
<1>1. /\ Only(r) /\ req[r].pc # "free" /\ req'[r].pc # "free" /\ Dequeue(r)
      /\ UNCHANGED <<appFile, userFile, log, arrived, mixed>>
  BY DEF Finish
<1>2. /\ arrived' \in 0 .. MaxAsks /\ mixed' \subseteq Persons /\ req' \in [Reqs -> ReqType]
      /\ \A s \in Reqs : (req'[s].pc = "free") = (arrived' < s)
  BY <1>1, TypesOnly
<1>3. queues' \in [Apps -> Seq(Reqs)]
  BY <1>1, DequeueFacts
<1>4. QED  BY <1>1, <1>2, <1>3 DEF Types

LEMMA TypesCrash ==
  ASSUME Types, Crash
  PROVE  Types'
<1>1. /\ req' \in [Reqs -> ReqType]
      /\ \A s \in Reqs : ~Under(s) => req'[s] = req[s]
      /\ \A s \in Reqs : Under(s) => req'[s].pc = "lost"
      /\ queues' = [a \in Apps |-> <<>>]
      /\ UNCHANGED <<appFile, userFile, log, arrived, mixed>>
  BY CrashReq
<1>2. queues' \in [Apps -> Seq(Reqs)]
  BY <1>1
<1>3. ASSUME NEW s \in Reqs PROVE (req'[s].pc = "free") = (arrived' < s)
  <2>1. (req'[s].pc = "free") <=> (req[s].pc = "free")
    BY <1>1 DEF Under
  <2>2. (req[s].pc = "free") = (arrived < s)
    BY DEF Types
  <2>3. QED  BY <1>1, <2>1, <2>2
<1>4. QED  BY <1>1, <1>2, <1>3 DEF Types

(* The record a request puts in place is the one it made. *)
LEMMA RenameApp ==
  ASSUME Types, Written, NEW r \in Reqs, Rename(r), IsApp(r)
  PROVE  LET at == req[r].ask.at
             new == appFile'[at]
         IN  /\ at \in Apps /\ UNCHANGED userFile /\ appFile' \in [Apps -> AppRecord]
             /\ \A a \in Apps : a # at => appFile'[a] = appFile[a]
             /\ Len(new.comments) <= MAX_COMMENTS
             /\ Change(Entries(appFile[at]), Entries(new), req[r].ask, r, req[r].under)
             /\ req[r].ans = 201 => Added(Entries(appFile[at]), Entries(new), req[r].ask, r, req[r].under)
<1> DEFINE at == req[r].ask.at
<1>1. req[r].pc = "written" /\ appFile' = [appFile EXCEPT ![at] = req[r].record] /\ UNCHANGED userFile
  BY DEF Rename
<1>2. Made(r, appFile[at])
  BY <1>1 DEF Written
<1>3. at \in Apps /\ FileOf(r) = appFile[at] /\ Fits(appFile[at], Did(r), req[r].ask, r)
  BY DidApp
<1>4. Did(r).write /\ req[r].record = Did(r).record /\ req[r].ans = Did(r).ans /\ req[r].under = Did(r).under
  BY <1>2, <1>3 DEF Made, Did
<1>5. /\ req[r].record \in AppRecord /\ Len(req[r].record.comments) <= MAX_COMMENTS
      /\ Change(Entries(appFile[at]), Entries(req[r].record), req[r].ask, r, req[r].under)
      /\ req[r].ans = 201 => Added(Entries(appFile[at]), Entries(req[r].record), req[r].ask, r, req[r].under)
  BY <1>3, <1>4 DEF Fits
<1>6. appFile \in [Apps -> AppRecord]
  BY DEF Types
<1>7. /\ appFile' \in [Apps -> AppRecord] /\ appFile'[at] = req[r].record
      /\ \A a \in Apps : a # at => appFile'[a] = appFile[a]
  BY <1>1, <1>3, <1>5, <1>6
<1>8. QED  BY <1>1, <1>3, <1>5, <1>7

LEMMA RenameUser ==
  ASSUME Types, Written, NEW r \in Reqs, Rename(r), ~IsApp(r)
  PROVE  LET who == req[r].ask.who
         IN  /\ who \in Persons /\ UNCHANGED appFile /\ userFile' \in [Persons -> UserRecord]
             /\ \A p \in Persons : p # who => userFile'[p] = userFile[p]
             /\ Len(userFile'[who].saved) <= MAX_SAVED
             /\ who \notin mixed => \A m \in Models :
                   Contains(userFile'[who].saved, m) <=> After(req[r].ask, Contains(userFile[who].saved, m), m)
<1> DEFINE who == req[r].ask.who
<1>1. req[r].pc = "written" /\ userFile' = [userFile EXCEPT ![who] = req[r].record] /\ UNCHANGED appFile
  BY DEF Rename
<1>2. /\ req[r].record \in UserRecord /\ Len(req[r].record.saved) <= MAX_SAVED
      /\ who \notin mixed => Made(r, userFile[who])
  BY <1>1 DEF Written
<1>3. who \in Persons /\ FileOf(r) = userFile[who] /\ UserFits(userFile[who], Did(r), req[r].ask)
  BY DidUser
<1>4. userFile \in [Persons -> UserRecord]
  BY DEF Types
<1>5. /\ userFile' \in [Persons -> UserRecord] /\ userFile'[who] = req[r].record
      /\ \A p \in Persons : p # who => userFile'[p] = userFile[p]
  BY <1>1, <1>2, <1>3, <1>4
<1>6. ASSUME who \notin mixed
      PROVE  \A m \in Models :
                Contains(req[r].record.saved, m) <=> After(req[r].ask, Contains(userFile[who].saved, m), m)
  <2>1. Did(r).write /\ req[r].record = Did(r).record
    BY <1>2, <1>3, <1>6 DEF Made, Did
  <2>2. QED  BY <1>3, <2>1 DEF UserFits
<1>7. QED  BY <1>1, <1>2, <1>3, <1>5, <1>6

LEMMA TypesRename ==
  ASSUME Types, Written, NEW r \in Reqs, Rename(r)
  PROVE  Types'
<1>1. /\ Only(r) /\ req[r].pc = "written" /\ req'[r].pc # "free"
      /\ UNCHANGED <<log, queues, arrived, mixed, faults>>
  BY RenameReq
<1>2. /\ arrived' \in 0 .. MaxAsks /\ mixed' \subseteq Persons /\ req' \in [Reqs -> ReqType]
      /\ \A s \in Reqs : (req'[s].pc = "free") = (arrived' < s)
  BY <1>1, TypesOnly
<1>3. CASE IsApp(r)
  <2> DEFINE at == req[r].ask.at
  <2>1. /\ UNCHANGED userFile /\ appFile' \in [Apps -> AppRecord]
        /\ \A a \in Apps : a # at => appFile'[a] = appFile[a]
        /\ Len(appFile'[at].comments) <= MAX_COMMENTS
    BY <1>3, RenameApp
  <2> HIDE DEF at
  <2>2. \A a \in Apps : Len(appFile'[a].comments) <= MAX_COMMENTS
    BY <2>1 DEF Types
  <2>3. QED  BY <1>1, <1>2, <2>1, <2>2 DEF Types
<1>4. CASE ~IsApp(r)
  <2> DEFINE who == req[r].ask.who
  <2>1. /\ UNCHANGED appFile /\ userFile' \in [Persons -> UserRecord]
        /\ \A p \in Persons : p # who => userFile'[p] = userFile[p]
        /\ Len(userFile'[who].saved) <= MAX_SAVED
    BY <1>4, RenameUser
  <2> HIDE DEF who
  <2>2. \A p \in Persons : Len(userFile'[p].saved) <= MAX_SAVED
    BY <2>1 DEF Types
  <2>3. QED  BY <1>1, <1>2, <2>1, <2>2 DEF Types
<1>5. QED  BY <1>3, <1>4


-----------------------------------------------------------------------------
(* Queues. *)

(* What stands in a queue, request by request. *)
InQueue(a, r) == Contains(queues[a], r) <=> (Under(r) /\ IsApp(r) /\ req[r].ask.at = a)
AtHead(r) == Under(r) /\ IsApp(r) /\ req[r].pc # "load" => Head(queues[req[r].ask.at]) = r

LEMMA QueuedIs == Queued <=> (\A a \in Apps, r \in Reqs : InQueue(a, r)) /\ \A r \in Reqs : AtHead(r)
  BY DEF Queued, InQueue, AtHead

LEMMA HeadContains ==
  ASSUME NEW S, NEW s \in Seq(S), NEW x, Contains(s, x)
  PROVE  /\ s # <<>>
         /\ \A y \in S : Head(Append(s, y)) = Head(s)
<1>1. PICK i \in 1 .. Len(s) : s[i] = x
  BY DEF Contains
<1>2. Len(s) \in Nat /\ Len(s) # 0
  BY <1>1
<1>3. s # <<>>
  BY <1>2
<1>4. ASSUME NEW y \in S PROVE Head(Append(s, y)) = Head(s)
  <2>1. 1 \in 1 .. Len(s)
    BY <1>2
  <2>2. Append(s, y)[1] = s[1]
    BY <2>1
  <2>3. Head(s) = s[1] /\ Head(Append(s, y)) = Append(s, y)[1]
    BY <1>3
  <2>4. QED  BY <2>2, <2>3
<1>5. QED  BY <1>3, <1>4

LEMMA QueuedArrive ==
  ASSUME Types, Queued, NEW a \in Asks, Arrive(a)
  PROVE  Queued'
<1> DEFINE r == arrived + 1
<1>1. /\ r \in Reqs /\ req[r].pc = "free"
      /\ \A s \in Reqs : s # r => req'[s] = req[s]
      /\ req'[r].ask = a /\ req'[r].pc = "load"
  BY ArriveReq
<1>2. queues' = IF a.at \in Apps THEN [queues EXCEPT ![a.at] = Append(@, r)] ELSE queues
  BY DEF Arrive
<1>3. queues \in [Apps -> Seq(Reqs)]
  BY DEF Types
<1> HIDE DEF r
<1>4. ASSUME NEW b \in Apps
      PROVE  queues'[b] = IF b = a.at THEN Append(queues[b], r) ELSE queues[b]
  BY <1>2, <1>3
<1>5. ASSUME NEW b \in Apps, NEW s
      PROVE  Contains(queues'[b], s) <=> (Contains(queues[b], s) \/ (b = a.at /\ s = r))
  <2>1. queues[b] \in Seq(Reqs)
    BY <1>3
  <2>2. Contains(Append(queues[b], r), s) <=> (Contains(queues[b], s) \/ s = r)
    BY <1>1, <2>1, AppendContains
  <2>3. QED  BY <1>4, <2>2
<1>6. ASSUME NEW b \in Apps, NEW s \in Reqs PROVE InQueue(b, s)'
  <2>1. InQueue(b, s)
    BY QueuedIs
  <2>2. CASE s = r
    <3>1. ~Under(s) /\ Under(s)'
      BY <1>1, <2>2 DEF Under
    <3>2. ~Contains(queues[b], s)
      BY <2>1, <3>1 DEF InQueue
    <3>3. IsApp(s)' <=> a.at \in Apps
      BY <1>1, <2>2, AskFacts DEF IsApp
    <3>4. Contains(queues'[b], s) <=> b = a.at
      BY <1>5, <2>2, <3>2
    <3>5. QED  BY <1>1, <2>2, <3>1, <3>3, <3>4 DEF InQueue
  <2>3. CASE s # r
    <3>1. req'[s] = req[s] /\ (Contains(queues'[b], s) <=> Contains(queues[b], s))
      BY <1>1, <1>5, <2>3
    <3>2. QED  BY <2>1, <3>1 DEF InQueue, Under, IsApp
  <2>4. QED  BY <2>2, <2>3
<1>7. ASSUME NEW s \in Reqs PROVE AtHead(s)'
  <2>1. CASE s = r
    BY <1>1, <2>1 DEF AtHead
  <2>2. CASE s # r
    <3>1. req'[s] = req[s]
      BY <1>1, <2>2
    <3> SUFFICES ASSUME Under(s), IsApp(s), req[s].pc # "load"
                 PROVE  Head(queues'[req[s].ask.at]) = s
      BY <3>1 DEF AtHead, Under, IsApp
    <3> DEFINE b == req[s].ask.at
    <3>2. b \in Apps
      BY DidApp
    <3>3. Head(queues[b]) = s /\ InQueue(b, s)
      BY <3>2, QueuedIs DEF AtHead
    <3>4. Contains(queues[b], s) /\ queues[b] \in Seq(Reqs)
      BY <1>3, <3>2, <3>3 DEF InQueue
    <3>5. Head(Append(queues[b], r)) = Head(queues[b])
      BY <1>1, <3>4, HeadContains
    <3>6. QED  BY <1>4, <3>2, <3>3, <3>5
  <2>3. QED  BY <2>1, <2>2
<1>8. QED  BY <1>6, <1>7, QueuedIs DEF Queued, InQueue, AtHead

(* A request under way goes on, in its turn. *)
LEMMA QueuedOn ==
  ASSUME Types, Queued, NEW r \in Reqs, Only(r), Under(r), Under(r)', queues' = queues,
         IsApp(r) => Head(queues[req[r].ask.at]) = r
  PROVE  Queued'
<1>1. ASSUME NEW s \in Reqs PROVE Under(s)' = Under(s) /\ req'[s].ask = req[s].ask /\ IsApp(s)' = IsApp(s)
  <2>1. CASE s = r
    BY <2>1 DEF Only, IsApp, Under
  <2>2. CASE s # r
    BY <2>2 DEF Only, IsApp, Under
  <2>3. QED  BY <2>1, <2>2
<1>2. ASSUME NEW a \in Apps, NEW s \in Reqs PROVE InQueue(a, s)'
  <2>1. InQueue(a, s)
    BY QueuedIs
  <2>2. QED  BY <1>1, <2>1 DEF InQueue
<1>3. ASSUME NEW s \in Reqs PROVE AtHead(s)'
  <2>1. AtHead(s)
    BY QueuedIs
  <2>2. CASE s = r
    BY <1>1, <2>2 DEF AtHead
  <2>3. CASE s # r
    <3>1. req'[s] = req[s]
      BY <2>3 DEF Only
    <3>2. QED  BY <1>1, <2>1, <3>1 DEF AtHead
  <2>4. QED  BY <2>2, <2>3
<1>4. QED  BY <1>2, <1>3 DEF Queued, InQueue, AtHead

LEMMA QueuedFinish ==
  ASSUME Types, Queued, NEW r \in Reqs, Finish(r)
  PROVE  Queued'
<1>1. Only(r) /\ req[r].pc \in {"written", "append", "answer"} /\ req'[r].pc = "done" /\ Dequeue(r)
  BY DEF Finish
<1>2. Under(r) /\ ~Under(r)'
  BY <1>1 DEF Under
<1>3. /\ \A a \in Apps : IsApp(r) /\ a = req[r].ask.at =>
            \A s : Contains(queues'[a], s) <=> (Contains(queues[a], s) /\ s \in Reqs \ {r})
      /\ \A a \in Apps : ~(IsApp(r) /\ a = req[r].ask.at) => queues'[a] = queues[a]
  BY <1>1, DequeueFacts
<1>4. \A s \in Reqs : s # r => req'[s] = req[s]
  BY <1>1 DEF Only
<1>5. ASSUME NEW a \in Apps, NEW s \in Reqs PROVE InQueue(a, s)'
  <2>1. InQueue(a, s)
    BY QueuedIs
  <2>2. CASE s = r
    <3>1. ~Contains(queues'[a], r)
      BY <1>2, <1>3, <2>1, <2>2 DEF InQueue
    <3>2. QED  BY <1>2, <2>2, <3>1 DEF InQueue
  <2>3. CASE s # r
    <3>1. req'[s] = req[s]
      BY <1>4, <2>3
    <3>2. Contains(queues'[a], s) <=> Contains(queues[a], s)
      BY <1>3, <2>3
    <3>3. QED  BY <2>1, <3>1, <3>2 DEF InQueue, Under, IsApp
  <2>4. QED  BY <2>2, <2>3
<1>6. ASSUME NEW s \in Reqs PROVE AtHead(s)'
  <2>1. CASE s = r
    BY <1>2, <2>1 DEF AtHead
  <2>2. CASE s # r
    <3>1. req'[s] = req[s]
      BY <1>4, <2>2
    <3> SUFFICES ASSUME Under(s), IsApp(s), req[s].pc # "load"
                 PROVE  Head(queues'[req[s].ask.at]) = s
      BY <3>1 DEF AtHead, Under, IsApp
    <3>2. Head(queues[req[s].ask.at]) = s
      BY QueuedIs DEF AtHead
    <3>3. IsApp(r) => Head(queues[req[r].ask.at]) = r
      BY <1>1, <1>2, QueuedIs DEF AtHead
    <3>4. ~(IsApp(r) /\ req[s].ask.at = req[r].ask.at)
      BY <2>2, <3>2, <3>3
    <3>5. req[s].ask.at \in Apps
      BY DidApp
    <3>6. QED  BY <1>3, <3>2, <3>4, <3>5
  <2>3. QED  BY <2>1, <2>2
<1>7. QED  BY <1>5, <1>6 DEF Queued, InQueue, AtHead

LEMMA QueuedCrash ==
  ASSUME Types, Crash
  PROVE  Queued'
<1>1. /\ \A s \in Reqs : ~Under(s) => req'[s] = req[s]
      /\ \A s \in Reqs : Under(s) => req'[s].pc = "lost"
      /\ queues' = [a \in Apps |-> <<>>]
  BY CrashReq
<1>2. ASSUME NEW s \in Reqs PROVE ~Under(s)'
  <2>1. CASE Under(s)
    BY <1>1, <2>1 DEF Under
  <2>2. CASE ~Under(s)
    BY <1>1, <2>2 DEF Under
  <2>3. QED  BY <2>1, <2>2
<1>3. \A a \in Apps : \A s : ~Contains(queues'[a], s)
  BY <1>1, EmptyContains
<1>4. QED  BY <1>2, <1>3 DEF Queued

-----------------------------------------------------------------------------
(* One account request of a person at a time. *)

LEMMA AloneArrive ==
  ASSUME Types, Alone, NEW a \in Asks, Arrive(a)
  PROVE  Alone'
<1> DEFINE n == arrived + 1
           other(s) == Under(s) /\ ~IsApp(s) /\ req[s].ask.who = a.who
<1>1. /\ n \in Reqs /\ req[n].pc = "free"
      /\ \A s \in Reqs : s # n => req'[s] = req[s]
      /\ req'[n].ask = a /\ req'[n].pc = "load"
      /\ \A s \in Reqs : req[s].pc # "free" => s < n
  BY ArriveReq
<1>2. mixed' = IF a.at \notin Apps /\ \E s \in Reqs : other(s) THEN mixed \cup {a.who} ELSE mixed
  BY DEF Arrive
<1> HIDE DEF n
<1> SUFFICES ASSUME NEW r \in Reqs, NEW s \in Reqs,
                    ~IsApp(r)', ~IsApp(s)', r # s, req'[s].pc # "free",
                    req'[r].ask.who = req'[s].ask.who, req'[r].ask.who \notin mixed', Under(r)'
             PROVE  s < r /\ ~Under(s)'
  BY DEF Alone
<1>3. CASE r = n
  <2>1. req'[s] = req[s] /\ req[s].pc # "free" /\ ~IsApp(s) /\ req[s].ask.who = a.who
    BY <1>1, <1>3 DEF IsApp
  <2>2. s < r
    BY <1>1, <1>3, <2>1
  <2>3. a.at \notin Apps
    BY <1>1, <1>3, AskFacts DEF IsApp
  <2>4. a.who \notin mixed'
    BY <1>1, <1>3
  <2>5. ~(\E t \in Reqs : other(t))
    BY <1>2, <2>3, <2>4
  <2>6. ~Under(s)
    BY <2>1, <2>5
  <2>7. QED  BY <2>1, <2>2, <2>6 DEF Under
<1>4. CASE r # n
  <2>1. req'[r] = req[r] /\ Under(r) /\ ~IsApp(r)
    BY <1>1, <1>4 DEF IsApp, Under
  <2>2. CASE s = n
    <3>1. a.at \notin Apps
      BY <1>1, <2>2, AskFacts DEF IsApp
    <3>2. req[r].ask.who = a.who
      BY <1>1, <2>1, <2>2
    <3>3. other(r)
      BY <2>1, <3>2
    <3>4. a.who \in mixed'
      BY <1>2, <3>1, <3>3
    <3>5. QED  BY <2>1, <3>2, <3>4
  <2>3. CASE s # n
    <3>1. req'[s] = req[s] /\ req[s].pc # "free" /\ ~IsApp(s)
      BY <1>1, <2>3 DEF IsApp
    <3>2. mixed \subseteq mixed'
      BY <1>2
    <3>3. req[r].ask.who \notin mixed /\ req[r].ask.who = req[s].ask.who
      BY <2>1, <3>1, <3>2
    <3>4. s < r /\ ~Under(s)
      BY <2>1, <3>1, <3>3 DEF Alone
    <3>5. QED  BY <3>1, <3>4 DEF Under
  <2>4. QED  BY <2>2, <2>3
<1>5. QED  BY <1>3, <1>4

(* No other step lets a request come or go on anew. *)
LEMMA AloneOn ==
  ASSUME Alone, mixed' = mixed,
         \A s \in Reqs : req'[s].ask = req[s].ask /\ (Under(s)' => Under(s)) /\ (req'[s].pc # "free" => req[s].pc # "free")
  PROVE  Alone'
<1>1. \A s \in Reqs : IsApp(s)' = IsApp(s)
  BY DEF IsApp
<1>2. QED  BY <1>1 DEF Alone


-----------------------------------------------------------------------------
(* What the requests hold. *)

Held(r) ==
    /\ req[r].pc = "written" /\ IsApp(r) => Made(r, appFile[req[r].ask.at])
    /\ req[r].pc = "written" /\ ~IsApp(r) =>
          /\ req[r].record \in UserRecord /\ Len(req[r].record.saved) <= MAX_SAVED
          /\ req[r].ask.who \notin mixed => Made(r, userFile[req[r].ask.who])
    /\ req[r].pc = "append" => req[r].ask.op \in {"request", "publisher"}
    /\ req[r].pc \notin {"free", "load", "lost"} /\ ~IsApp(r) => req[r].ans # 201

LEMMA WrittenIs == Written <=> \A r \in Reqs : Held(r)
  BY DEF Written, Held

(* A request nobody touches, and whose file nobody touches. *)
LEMMA HeldKept ==
  ASSUME NEW s \in Reqs, Held(s), req'[s] = req[s], mixed \subseteq mixed',
         req[s].pc = "written" /\ IsApp(s) => appFile'[req[s].ask.at] = appFile[req[s].ask.at],
         req[s].pc = "written" /\ ~IsApp(s) /\ req[s].ask.who \notin mixed' =>
             userFile'[req[s].ask.who] = userFile[req[s].ask.who]
  PROVE  Held(s)'
<1>1. IsApp(s)' = IsApp(s)
  BY DEF IsApp
<1>2. ASSUME req[s].pc = "written", IsApp(s) PROVE Made(s, appFile[req[s].ask.at])'
  <2>1. Made(s, appFile[req[s].ask.at])
    BY <1>2 DEF Held
  <2>2. QED  BY <1>2, <2>1 DEF Made
<1>3. ASSUME req[s].pc = "written", ~IsApp(s), req[s].ask.who \notin mixed'
      PROVE  Made(s, userFile[req[s].ask.who])'
  <2>1. Made(s, userFile[req[s].ask.who])
    BY <1>3 DEF Held
  <2>2. QED  BY <1>3, <2>1 DEF Made
<1>4. QED  BY <1>1, <1>2, <1>3 DEF Held

(* A request that has nothing in hand any more. *)
LEMMA HeldGone ==
  ASSUME NEW s \in Reqs, Held(s), req'[s].ask = req[s].ask, req[s].pc \notin {"free", "load", "lost"},
         req'[s].pc \in {"answer", "done", "lost"}, req'[s].ans = req[s].ans \/ req'[s].ans = 500
  PROVE  Held(s)'
<1>1. IsApp(s)' = IsApp(s)
  BY DEF IsApp
<1>2. ~IsApp(s) => req'[s].ans # 201
  BY DEF Held
<1>3. QED  BY <1>1, <1>2 DEF Held

LEMMA WrittenArrive ==
  ASSUME Types, Written, NEW a \in Asks, Arrive(a)
  PROVE  Written'
<1> DEFINE n == arrived + 1
<1>1. /\ \A s \in Reqs : s # n => req'[s] = req[s]
      /\ req'[n].pc = "load"
  BY ArriveReq
<1>2. mixed \subseteq mixed' /\ UNCHANGED <<appFile, userFile>>
  BY DEF Arrive
<1> HIDE DEF n
<1>3. ASSUME NEW s \in Reqs PROVE Held(s)'
  <2>1. Held(s)
    BY WrittenIs
  <2>2. CASE s = n
    BY <1>1, <2>2 DEF Held
  <2>3. CASE s # n
    BY <1>1, <1>2, <2>1, <2>3, HeldKept
  <2>4. QED  BY <2>2, <2>3
<1>4. QED  BY <1>3 DEF Written, Held

LEMMA WrittenLoad ==
  ASSUME Types, Written, NEW r \in Reqs, Load(r)
  PROVE  Written'
<1>1. /\ Only(r) /\ req[r].pc = "load"
      /\ req'[r].pc = IF Did(r).write THEN "written"
                      ELSE IF Logs(req[r].ask, FALSE) THEN "append" ELSE "answer"
      /\ req'[r].ans = Did(r).ans /\ req'[r].under = Did(r).under
      /\ Did(r).write => req'[r].record = Did(r).record
      /\ UNCHANGED <<appFile, userFile, log, queues, arrived, mixed, faults>>
  BY LoadReq
<1>2. req'[r].ask = req[r].ask /\ IsApp(r)' = IsApp(r) /\ \A s \in Reqs : s # r => req'[s] = req[s]
  BY <1>1 DEF Only, IsApp
<1>3. Held(r)'
  <2>1. req'[r].pc = "append" => req[r].ask.op \in {"request", "publisher"}
    BY <1>1 DEF Logs
  <2>2. req'[r].pc = "written" => Did(r).write
    BY <1>1
  <2>3. CASE IsApp(r)
    <3>1. FileOf(r) = appFile[req[r].ask.at]
      BY <2>3, DidApp
    <3>2. req'[r].pc = "written" => Made(r, appFile[req[r].ask.at])'
      BY <1>1, <1>2, <2>2, <3>1 DEF Made, Did
    <3>3. QED  BY <1>2, <2>1, <2>3, <3>2 DEF Held
  <2>4. CASE ~IsApp(r)
    <3>1. FileOf(r) = userFile[req[r].ask.who] /\ UserFits(FileOf(r), Did(r), req[r].ask)
      BY <2>4, DidUser
    <3>2. req'[r].pc = "written" => Made(r, userFile[req[r].ask.who])'
      BY <1>1, <1>2, <2>2, <3>1 DEF Made, Did
    <3>3. req'[r].pc = "written" => req'[r].record \in UserRecord /\ Len(req'[r].record.saved) <= MAX_SAVED
      BY <1>1, <2>2, <3>1 DEF UserFits
    <3>4. req'[r].ans # 201
      BY <1>1, <3>1 DEF UserFits
    <3>5. QED  BY <1>2, <2>1, <2>4, <3>2, <3>3, <3>4 DEF Held
  <2>5. QED  BY <2>3, <2>4
<1>4. ASSUME NEW s \in Reqs, s # r PROVE Held(s)'
  <2>1. Held(s) /\ req'[s] = req[s] /\ mixed \subseteq mixed'
    BY <1>1, <1>2, <1>4, WrittenIs
  <2>2. QED  BY <1>1, <2>1, HeldKept
<1>5. QED  BY <1>3, <1>4 DEF Written, Held

(* Of an App, and of a person whose requests come one after the other, one   *)
(* request at a time has read the file.                                      *)
LEMMA OneHolds ==
  ASSUME Types, Queued, Alone, NEW r \in Reqs, NEW s \in Reqs, r # s, Under(r), Under(s),
         req[r].pc # "load", req[s].pc # "load"
  PROVE  /\ ~(IsApp(r) /\ IsApp(s) /\ req[r].ask.at = req[s].ask.at)
         /\ ~(~IsApp(r) /\ ~IsApp(s) /\ req[r].ask.who = req[s].ask.who /\ req[r].ask.who \notin mixed)
<1>1. ~(IsApp(r) /\ IsApp(s) /\ req[r].ask.at = req[s].ask.at)
  BY DEF Queued
<1>2. req[s].pc # "free"
  BY DEF Under
<1>3. QED  BY <1>1, <1>2 DEF Alone

LEMMA WrittenRename ==
  ASSUME Types, Queued, Alone, Written, NEW r \in Reqs, Rename(r)
  PROVE  Written'
<1>1. /\ Only(r) /\ req[r].pc = "written"
      /\ req'[r].pc = IF Logs(req[r].ask, TRUE) THEN "append" ELSE "answer"
      /\ req'[r].ans = req[r].ans
      /\ UNCHANGED <<log, queues, arrived, mixed, faults>>
  BY RenameReq
<1>2. req'[r].ask = req[r].ask /\ IsApp(r)' = IsApp(r) /\ \A s \in Reqs : s # r => req'[s] = req[s]
  BY <1>1 DEF Only, IsApp
<1>3. Held(r)'
  <2>1. Held(r)
    BY WrittenIs
  <2>2. req'[r].pc = "append" => req[r].ask.op \in {"request", "publisher"}
    BY <1>1 DEF Logs
  <2>3. QED  BY <1>1, <1>2, <2>1, <2>2 DEF Held
<1>4. ASSUME NEW s \in Reqs, s # r PROVE Held(s)'
  <2>1. Held(s) /\ req'[s] = req[s] /\ mixed' = mixed
    BY <1>1, <1>2, <1>4, WrittenIs
  <2>2. CASE req[s].pc = "written"
    <3>1. Under(r) /\ Under(s)
      BY <1>1, <2>2 DEF Under
    <3>2. /\ ~(IsApp(r) /\ IsApp(s) /\ req[r].ask.at = req[s].ask.at)
          /\ ~(~IsApp(r) /\ ~IsApp(s) /\ req[r].ask.who = req[s].ask.who /\ req[r].ask.who \notin mixed)
      BY <1>1, <1>4, <2>2, <3>1, OneHolds
    <3>3. IsApp(s) => appFile'[req[s].ask.at] = appFile[req[s].ask.at]
      <4>1. CASE IsApp(s) /\ IsApp(r)
        <5>1. req[s].ask.at \in Apps /\ req[s].ask.at # req[r].ask.at
          BY <3>2, <4>1, DidApp
        <5>2. \A a \in Apps : a # req[r].ask.at => appFile'[a] = appFile[a]
          BY <4>1, RenameApp
        <5>3. QED  BY <5>1, <5>2
      <4>2. CASE ~IsApp(r)
        BY <4>2, RenameUser
      <4>3. QED  BY <4>1, <4>2
    <3>4. ~IsApp(s) /\ req[s].ask.who \notin mixed => userFile'[req[s].ask.who] = userFile[req[s].ask.who]
      <4>1. CASE ~IsApp(s) /\ ~IsApp(r) /\ req[s].ask.who \notin mixed
        <5>1. req[s].ask.who \in Persons /\ req[s].ask.who # req[r].ask.who
          BY <3>2, <4>1, DidUser
        <5>2. \A p \in Persons : p # req[r].ask.who => userFile'[p] = userFile[p]
          BY <4>1, RenameUser
        <5>3. QED  BY <5>1, <5>2
      <4>2. CASE IsApp(r)
        BY <4>2, RenameApp
      <4>3. QED  BY <4>1, <4>2
    <3>5. QED  BY <2>1, <3>3, <3>4, HeldKept
  <2>3. CASE req[s].pc # "written"
    BY <2>1, <2>3, HeldKept
  <2>4. QED  BY <2>2, <2>3
<1>5. QED  BY <1>3, <1>4 DEF Written, Held

(* The steps that leave the files alone and in which r has nothing in hand *)
(* afterwards.                                                             *)
LEMMA WrittenGone ==
  ASSUME Written, NEW r \in Reqs, Only(r), req[r].pc \notin {"free", "load", "lost"},
         req'[r].pc \in {"answer", "done"}, req'[r].ans = req[r].ans \/ req'[r].ans = 500,
         UNCHANGED <<appFile, userFile, mixed>>
  PROVE  Written'
<1>1. req'[r].ask = req[r].ask /\ \A s \in Reqs : s # r => req'[s] = req[s]
  BY DEF Only
<1>2. Held(r)'
  BY <1>1, HeldGone, WrittenIs
<1>3. ASSUME NEW s \in Reqs, s # r PROVE Held(s)'
  <2>1. Held(s) /\ req'[s] = req[s] /\ mixed \subseteq mixed'
    BY <1>1, <1>3, WrittenIs
  <2>2. QED  BY <2>1, HeldKept
<1>4. QED  BY <1>2, <1>3 DEF Written, Held

LEMMA WrittenCrash ==
  ASSUME Types, Written, Crash
  PROVE  Written'
<1>1. /\ \A s \in Reqs : ~Under(s) => req'[s] = req[s]
      /\ \A s \in Reqs : Under(s) =>
            /\ req'[s].ask = req[s].ask /\ req'[s].pc = "lost"
            /\ req'[s].ans = req[s].ans
      /\ UNCHANGED <<appFile, userFile, mixed>>
  BY CrashReq
<1>2. ASSUME NEW s \in Reqs PROVE Held(s)'
  <2>1. Held(s) /\ mixed \subseteq mixed'
    BY <1>1, WrittenIs
  <2>2. CASE ~Under(s)
    BY <1>1, <2>1, <2>2, HeldKept
  <2>3. CASE Under(s) /\ req[s].pc # "load"
    BY <1>1, <2>1, <2>3, HeldGone DEF Under
  <2>4. CASE req[s].pc = "load"
    BY <1>1, <2>4 DEF Held, Under
  <2>5. QED  BY <2>2, <2>3, <2>4
<1>3. QED  BY <1>2 DEF Written, Held


-----------------------------------------------------------------------------
(* Threads. *)

(* What a step never does to a request: send it back, or change what it asks. *)
Later(s) ==
    /\ req[s].pc # "free" => req'[s].pc # "free" /\ req'[s].ask = req[s].ask
    /\ req[s].pc \notin {"free", "load", "written"} =>
          req'[s].pc \notin {"free", "load", "written"} /\ req'[s].under = req[s].under

LEMMA LaterOnly ==
  ASSUME NEW r \in Reqs, Only(r), req[r].pc # "free", req'[r].pc # "free",
         req[r].pc \notin {"load", "written"} =>
             req'[r].pc \notin {"load", "written"} /\ req'[r].under = req[r].under
  PROVE  \A s \in Reqs : Later(s)
<1>1. ASSUME NEW s \in Reqs PROVE Later(s)
  <2>1. CASE s = r
    BY <2>1 DEF Later, Only
  <2>2. CASE s # r
    BY <2>2 DEF Later, Only
  <2>3. QED  BY <2>1, <2>2
<1>2. QED  BY <1>1

LEMMA LaterArrive ==
  ASSUME Types, NEW a \in Asks, Arrive(a)
  PROVE  \A s \in Reqs : Later(s) /\ req'[s].under = req[s].under
<1> DEFINE n == arrived + 1
<1>1. /\ \A s \in Reqs : s # n => req'[s] = req[s]
      /\ req[n].pc = "free" /\ req'[n].under = req[n].under
  BY ArriveReq
<1> HIDE DEF n
<1>2. QED  BY <1>1 DEF Later

LEMMA LaterCrash ==
  ASSUME Types, Crash
  PROVE  \A s \in Reqs : Later(s) /\ req'[s].under = req[s].under
<1>1. /\ \A s \in Reqs : ~Under(s) => req'[s] = req[s]
      /\ \A s \in Reqs : Under(s) =>
            /\ req'[s].ask = req[s].ask /\ req'[s].pc = "lost"
            /\ req'[s].under = req[s].under
  BY CrashReq
<1>2. ASSUME NEW s \in Reqs PROVE Later(s) /\ req'[s].under = req[s].under
  <2>1. CASE Under(s)
    BY <1>1, <2>1 DEF Later
  <2>2. CASE ~Under(s)
    BY <1>1, <2>2 DEF Later
  <2>3. QED  BY <2>1, <2>2
<1>3. QED  BY <1>2

LEMMA KnownOn ==
  ASSUME \A s \in Reqs : Later(s), NEW e, NEW a, Known(e, a)
  PROVE  Known(e, a)'
<1>1. CASE e.id \in Reqs
  <2>1. Later(e.id)
    BY <1>1
  <2>2. /\ req[e.id].pc \notin {"free", "load", "written"} /\ req[e.id].ask.at = a
        /\ req[e.id].ask.who = e.author /\ req[e.id].under = e.parent
    BY <1>1 DEF Known
  <2>3. /\ req'[e.id].pc \notin {"free", "load", "written"} /\ req'[e.id].ask = req[e.id].ask
        /\ req'[e.id].under = req[e.id].under
    BY <2>1, <2>2 DEF Later
  <2>4. QED  BY <1>1, <2>2, <2>3 DEF Known
<1>2. CASE e.id \notin Reqs
  BY <1>2 DEF Known
<1>3. QED  BY <1>1, <1>2

(* What comments were put under, request by request. *)
Hung(r) == req[r].under \in Reqs => req[req[r].under].pc # "free"

LEMMA HungOn ==
  ASSUME \A s \in Reqs : Later(s), NEW r \in Reqs, Hung(r), req'[r].under = req[r].under
  PROVE  Hung(r)'
  BY DEF Hung, Later

LEMMA ThreadsKept ==
  ASSUME Threads, appFile' = appFile, \A s \in Reqs : Later(s), \A s \in Reqs : Hung(s)'
  PROVE  Threads'
<1>1. ASSUME NEW a \in Apps PROVE (WellFormed(Entries(appFile[a])))'
  BY DEF Threads, WellFormed, Entries
<1>2. ASSUME NEW a \in Apps, NEW e \in Entries(appFile'[a]) PROVE Known(e, a)'
  <2>1. Known(e, a)
    BY <1>2 DEF Threads
  <2>2. QED  BY <2>1, KnownOn
<1>3. \A a \in Apps : (Entries(appFile[a]))' = Entries(appFile'[a])
  BY DEF Entries
<1>4. QED  BY <1>1, <1>2, <1>3 DEF Threads, Hung

LEMMA WellFormedAdded ==
  ASSUME NEW E, NEW F, NEW a, NEW r, NEW under, WellFormed(E), Added(E, F, a, r, under),
         r # 0, \A e \in E : e.id # r
  PROVE  WellFormed(F)
<1> DEFINE c == [id |-> r, parent |-> under, author |-> a.who]
<1>1. F = E \cup {c} /\ (under = 0 \/ \E e \in E : under = IF e.parent # 0 THEN e.parent ELSE e.id)
  BY DEF Added
<1>2. c.id = r /\ c.parent = under
  OBVIOUS
<1> HIDE DEF c
<1>3. \A e \in F : e.id # 0
  BY <1>1, <1>2 DEF WellFormed
<1>4. \A e, d \in F : e.id = d.id => e = d
  BY <1>1, <1>2 DEF WellFormed
<1>5. ASSUME under # 0 PROVE \E d \in E : d.id = under /\ d.parent = 0
  <2>1. PICK e \in E : under = IF e.parent # 0 THEN e.parent ELSE e.id
    BY <1>1, <1>5
  <2>2. QED  BY <2>1 DEF WellFormed
<1>6. ASSUME NEW e \in F, e.parent # 0 PROVE \E d \in F : d.id = e.parent /\ d.parent = 0
  <2>1. CASE e \in E
    BY <1>1, <1>6, <2>1 DEF WellFormed
  <2>2. CASE e = c
    BY <1>1, <1>2, <1>5, <1>6, <2>2
  <2>3. QED  BY <1>1, <2>1, <2>2
<1>7. QED  BY <1>3, <1>4, <1>6 DEF WellFormed

LEMMA WellFormedRemoved ==
  ASSUME NEW E, NEW F, NEW a, WellFormed(E), Removed(E, F, a)
  PROVE  WellFormed(F)
<1>1. F = {e \in E : e.id # a.cid /\ e.parent # a.cid}
  BY DEF Removed
<1>2. a.cid # 0
  BY DEF Removed, WellFormed
<1>3. ASSUME NEW e \in F, e.parent # 0 PROVE \E d \in F : d.id = e.parent /\ d.parent = 0
  <2>1. e \in E /\ e.parent # a.cid
    BY <1>1
  <2>2. PICK d \in E : d.id = e.parent /\ d.parent = 0
    BY <1>3, <2>1 DEF WellFormed
  <2>3. d \in F
    BY <1>1, <1>2, <2>1, <2>2
  <2>4. QED  BY <2>2, <2>3
<1>4. QED  BY <1>1, <1>3 DEF WellFormed

LEMMA ThreadsLoad ==
  ASSUME Types, Threads, NEW r \in Reqs, Load(r)
  PROVE  Threads'
<1>1. /\ Only(r) /\ req[r].pc = "load" /\ req'[r].pc # "free" /\ req'[r].under = Did(r).under
      /\ UNCHANGED appFile
  BY LoadReq
<1>2. \A s \in Reqs : Later(s)
  BY <1>1, LaterOnly
<1>3. Hung(r)'
  <2> SUFFICES ASSUME Did(r).under \in Reqs PROVE req'[Did(r).under].pc # "free"
    BY <1>1 DEF Hung
  <2> DEFINE u == Did(r).under
  <2>1. u # 0
    BY ReqsFacts
  <2>2. IsApp(r)
    BY <2>1, DidUser DEF UserFits
  <2> DEFINE at == req[r].ask.at
             E == Entries(appFile[at])
  <2>3. at \in Apps /\ FileOf(r) = appFile[at] /\ Fits(FileOf(r), Did(r), req[r].ask, r)
    BY <2>2, DidApp
  <2>4. Added(Entries(FileOf(r)), Entries(Did(r).record), req[r].ask, r, u)
    BY <2>1, <2>3 DEF Fits
  <2>5. PICK e \in E : u = IF e.parent # 0 THEN e.parent ELSE e.id
    BY <2>1, <2>3, <2>4 DEF Added
  <2>6. WellFormed(E) /\ \A d \in E : Known(d, at)
    BY <2>3 DEF Threads
  <2> HIDE DEF E, u
  <2>7. PICK d \in E : d.id = u
    BY <2>5, <2>6 DEF WellFormed
  <2>8. req[u].pc # "free" /\ Later(u)
    BY <1>2, <2>6, <2>7 DEF Known, u
  <2>9. QED  BY <2>8 DEF Later, u
<1>4. ASSUME NEW s \in Reqs PROVE Hung(s)'
  <2>1. CASE s = r
    BY <1>3, <2>1
  <2>2. CASE s # r
    <3>1. Hung(s) /\ req'[s].under = req[s].under
      BY <1>1, <2>2 DEF Threads, Hung, Only
    <3>2. QED  BY <1>2, <3>1, HungOn
  <2>3. QED  BY <2>1, <2>2
<1>5. QED  BY <1>1, <1>2, <1>4, ThreadsKept

LEMMA ThreadsSame ==
  ASSUME Threads, appFile' = appFile, \A s \in Reqs : Later(s) /\ req'[s].under = req[s].under
  PROVE  Threads'
<1>1. ASSUME NEW s \in Reqs PROVE Hung(s)'
  <2>1. Hung(s) /\ req'[s].under = req[s].under
    BY DEF Threads, Hung
  <2>2. QED  BY <2>1, HungOn
<1>2. QED  BY <1>1, ThreadsKept

LEMMA LaterRename ==
  ASSUME Types, NEW r \in Reqs, Rename(r)
  PROVE  /\ \A s \in Reqs : Later(s) /\ req'[s].under = req[s].under
         /\ req'[r].pc \notin {"free", "load", "written"} /\ req'[r].ask = req[r].ask
<1>1. /\ Only(r) /\ req[r].pc = "written" /\ req'[r].pc \notin {"free", "load", "written"}
      /\ req'[r].under = req[r].under
  BY RenameReq
<1>2. \A s \in Reqs : Later(s)
  BY <1>1, LaterOnly
<1>3. QED  BY <1>1, <1>2 DEF Only

LEMMA ThreadsRename ==
  ASSUME Types, Written, Threads, NEW r \in Reqs, Rename(r)
  PROVE  Threads'
<1>1. /\ \A s \in Reqs : Later(s) /\ req'[s].under = req[s].under
      /\ req'[r].pc \notin {"free", "load", "written"} /\ req'[r].ask = req[r].ask
  BY LaterRename
<1>2. CASE ~IsApp(r)
  BY <1>1, <1>2, RenameUser, ThreadsSame
<1>3. CASE IsApp(r)
  <2> DEFINE at == req[r].ask.at
             E == Entries(appFile[at])
             F == Entries(appFile'[at])
  <2>1. /\ at \in Apps /\ \A a \in Apps : a # at => appFile'[a] = appFile[a]
        /\ Change(E, F, req[r].ask, r, req[r].under)
    BY <1>3, RenameApp
  <2>2. WellFormed(E) /\ \A e \in E : Known(e, at)
    BY <2>1 DEF Threads
  <2>3. \A e \in E : e.id # r
    <3>1. req[r].pc = "written"
      BY DEF Rename
    <3>2. QED  BY <2>2, <3>1 DEF Known
  <2>4. r # 0
    BY ReqsFacts
  <2>5. WellFormed(F) /\ \A e \in F : Known(e, at)'
    <3>1. \A e \in E : Known(e, at)'
      <4> HIDE DEF E
      <4> TAKE e \in E
      <4>1. \A s \in Reqs : Later(s)
        BY <1>1
      <4>2. Known(e, at)
        BY <2>2
      <4>3. \A b \in Apps : Known(e, b) => Known(e, b)'
        BY <4>1, KnownOn
      <4>4. at' = at
        BY <1>1
      <4>5. QED  BY <2>1, <4>2, <4>3, <4>4 DEF Known
    <3>2. CASE F = E
      BY <2>2, <3>1, <3>2
    <3>3. CASE Removed(E, F, req[r].ask)
      <4>1. F \subseteq E
        BY <3>3 DEF Removed
      <4>2. WellFormed(F)
        BY <2>2, <3>3, WellFormedRemoved
      <4>3. QED  BY <3>1, <4>1, <4>2
    <3>4. CASE Added(E, F, req[r].ask, r, req[r].under)
      <4> DEFINE c == [id |-> r, parent |-> req[r].under, author |-> req[r].ask.who]
      <4>1. WellFormed(F)
        BY <2>2, <2>3, <2>4, <3>4, WellFormedAdded
      <4>2. F = E \cup {c}
        BY <3>4 DEF Added
      <4>3. Known(c, at)'
        <5>1. c' = c
          BY <1>1
        <5>2. c.id = r /\ c.parent = req[r].under /\ c.author = req[r].ask.who
          OBVIOUS
        <5> HIDE DEF c
        <5>3. QED  BY <1>1, <5>1, <5>2 DEF Known
      <4>4. c' = c
        BY <1>1
      <4>5. ASSUME NEW e \in F PROVE Known(e, at)'
        <5>1. CASE e \in E
          BY <3>1, <5>1
        <5>2. CASE e = c
          BY <4>3, <4>4, <5>2 DEF Known
        <5>3. QED  BY <4>2, <5>1, <5>2
      <4>6. QED  BY <4>1, <4>5
    <3>5. QED  BY <2>1, <3>2, <3>3, <3>4 DEF Change
  <2>6. ASSUME NEW s \in Reqs PROVE Hung(s)'
    <3>1. Hung(s) /\ req'[s].under = req[s].under
      BY <1>1 DEF Threads, Hung
    <3>2. QED  BY <1>1, <3>1, HungOn
  <2>7. ASSUME NEW a \in Apps
        PROVE  WellFormed(Entries(appFile'[a])) /\ \A e \in Entries(appFile'[a]) : Known(e, a)'
    <3>1. CASE a = at
      <4>1. at' = at
        BY <1>1
      <4>2. QED  BY <2>5, <3>1, <4>1 DEF Known
    <3>2. CASE a # at
      <4>1. appFile'[a] = appFile[a]
        BY <2>1, <3>2
      <4>2. WellFormed(Entries(appFile[a])) /\ \A e \in Entries(appFile[a]) : Known(e, a)
        BY DEF Threads
      <4>3. \A e \in Entries(appFile[a]) : Known(e, a)'
        BY <1>1, <4>2, KnownOn
      <4>4. QED  BY <4>1, <4>2, <4>3
    <3>3. QED  BY <3>1, <3>2
  <2>8. \A a \in Apps : (Entries(appFile[a]))' = Entries(appFile'[a])
    BY DEF Entries
  <2>9. QED  BY <2>6, <2>7, <2>8 DEF Threads, Hung, WellFormed
<1>4. QED  BY <1>2, <1>3


-----------------------------------------------------------------------------
(* Comments that were answered for. *)

LEMMA DeletedOn ==
  ASSUME \A s \in Reqs : Later(s), NEW id, id \in Reqs => req[id].pc # "free", DeletedByAuthor(id)
  PROVE  DeletedByAuthor(id)'
<1>1. PICK d \in Reqs : /\ req[d].pc # "free" /\ req[d].ask.op = "delete" /\ req[d].ask.cid = id
                        /\ req[d].ask.who = AuthorOf(id)
  BY DEF DeletedByAuthor
<1>2. req'[d].pc # "free" /\ req'[d].ask = req[d].ask
  BY <1>1 DEF Later
<1>3. AuthorOf(id)' = AuthorOf(id)
  <2>1. CASE id \in Reqs
    <3>1. req'[id].ask = req[id].ask
      BY <2>1 DEF Later
    <3>2. QED  BY <2>1, <3>1 DEF AuthorOf
  <2>2. CASE id \notin Reqs
    BY <2>2 DEF AuthorOf, Comments
  <2>3. QED  BY <2>1, <2>2
<1>4. QED  BY <1>1, <1>2, <1>3 DEF DeletedByAuthor

(* Of a comment that is kept, only its entry can be lost. *)
LEMMA KeptOn ==
  ASSUME Threads, \A s \in Reqs : Later(s), NEW s \in Reqs, req[s].pc \notin {"free", "load", "written"}, Kept(s),
         (\E e \in Entries(appFile[req[s].ask.at]) : e.id = s) =>
             \/ \E e \in Entries(appFile'[req[s].ask.at]) : e.id = s
             \/ DeletedByAuthor(s)'
             \/ req[s].under # 0 /\ DeletedByAuthor(req[s].under)'
  PROVE  Kept(s)'
<1>1. Later(s) /\ req'[s].ask = req[s].ask /\ req'[s].under = req[s].under
  BY DEF Later
<1>2. DeletedByAuthor(s) => DeletedByAuthor(s)'
  BY DeletedOn
<1>3. ASSUME req[s].under # 0, DeletedByAuthor(req[s].under)
      PROVE  DeletedByAuthor(req[s].under)'
  <2>1. req[s].under \in Reqs => req[req[s].under].pc # "free"
    BY DEF Threads
  <2>2. \A id : (id \in Reqs => req[id].pc # "free") /\ DeletedByAuthor(id) => DeletedByAuthor(id)'
    BY DeletedOn
  <2>3. (req[s].under)' = req[s].under
    BY <1>1
  <2>4. QED  BY <1>3, <2>1, <2>2, <2>3 DEF DeletedByAuthor
<1>4. (Entries(appFile[req[s].ask.at]))' = Entries(appFile'[req[s].ask.at])
  BY <1>1 DEF Entries
<1>5. QED  BY <1>1, <1>2, <1>3, <1>4 DEF Kept

PlacedAt(r) == req[r].pc \in {"answer", "done"} /\ req[r].ans = 201 => IsApp(r) /\ Kept(r)

LEMMA PlacedIs == Placed <=> \A r \in Reqs : PlacedAt(r)
  BY DEF Placed, PlacedAt

LEMMA PlacedKept ==
  ASSUME Threads, Placed, \A s \in Reqs : Later(s), NEW s \in Reqs, appFile' = appFile,
         req'[s].pc \in {"answer", "done"} /\ req'[s].ans = 201 =>
             /\ req'[s].ask = req[s].ask /\ req[s].pc \in {"answer", "done"} /\ req[s].ans = 201
  PROVE  PlacedAt(s)'
<1> SUFFICES ASSUME req'[s].pc \in {"answer", "done"}, req'[s].ans = 201
             PROVE  IsApp(s)' /\ Kept(s)'
  BY DEF PlacedAt
<1>1. req'[s].ask = req[s].ask /\ req[s].pc \in {"answer", "done"} /\ req[s].ans = 201
  OBVIOUS
<1>2. IsApp(s) /\ Kept(s)
  BY <1>1, PlacedIs DEF PlacedAt
<1>3. req[s].pc \notin {"free", "load", "written"}
  BY <1>1
<1>4. Kept(s)'
  BY <1>2, <1>3, KeptOn
<1>5. QED  BY <1>1, <1>2, <1>4 DEF IsApp

LEMMA PlacedArrive ==
  ASSUME Types, Threads, Placed, NEW a \in Asks, Arrive(a)
  PROVE  Placed'
<1> DEFINE n == arrived + 1
<1>1. (\A s \in Reqs : s # n => req'[s] = req[s]) /\ req'[n].pc = "load"
  BY ArriveReq
<1>2. appFile' = appFile /\ \A s \in Reqs : Later(s)
  BY LaterArrive DEF Arrive
<1> HIDE DEF n
<1>3. ASSUME NEW s \in Reqs PROVE PlacedAt(s)'
  <2>1. req'[s].pc \in {"answer", "done"} => req'[s] = req[s]
    BY <1>1
  <2>2. QED  BY <1>2, <2>1, PlacedKept
<1>4. QED  BY <1>3 DEF Placed, PlacedAt

LEMMA PlacedLoad ==
  ASSUME Types, Threads, Placed, NEW r \in Reqs, Load(r)
  PROVE  Placed'
<1>1. /\ Only(r) /\ req[r].pc = "load" /\ req'[r].pc # "free" /\ UNCHANGED appFile
      /\ req'[r].ans = Did(r).ans
      /\ req'[r].pc = IF Did(r).write THEN "written"
                      ELSE IF Logs(req[r].ask, FALSE) THEN "append" ELSE "answer"
  BY LoadReq
<1>2. \A s \in Reqs : Later(s)
  BY <1>1, LaterOnly
<1>3. ~(req'[r].pc \in {"answer", "done"} /\ req'[r].ans = 201)
  <2>1. CASE IsApp(r)
    <3>1. Did(r).ans = 201 => Did(r).write
      BY <2>1, DidApp DEF Fits
    <3>2. QED  BY <1>1, <3>1
  <2>2. CASE ~IsApp(r)
    <3>1. Did(r).ans # 201
      BY <2>2, DidUser DEF UserFits
    <3>2. QED  BY <1>1, <3>1
  <2>3. QED  BY <2>1, <2>2
<1>4. ASSUME NEW s \in Reqs PROVE PlacedAt(s)'
  <2>1. req'[s].pc \in {"answer", "done"} /\ req'[s].ans = 201 => req'[s] = req[s]
    BY <1>1, <1>3 DEF Only
  <2>2. QED  BY <1>1, <1>2, <2>1, PlacedKept
<1>5. QED  BY <1>4 DEF Placed, PlacedAt

LEMMA PlacedAppend ==
  ASSUME Types, Written, Threads, Placed, NEW r \in Reqs, AppendLine(r)
  PROVE  Placed'
<1>1. /\ Only(r) /\ req[r].pc = "append" /\ req'[r].pc = "answer" /\ UNCHANGED appFile
      /\ req'[r].ans = req[r].ans /\ req'[r].under = req[r].under
  BY AppendReq
<1>2. \A s \in Reqs : Later(s)
  BY <1>1, LaterOnly
<1>3. req[r].ans # 201
  <2>1. req[r].ask.op \in {"request", "publisher"}
    BY <1>1 DEF Written
  <2>2. ~IsApp(r)
    BY <2>1 DEF IsApp, AppOps
  <2>3. QED  BY <1>1, <2>2 DEF Written
<1>4. ASSUME NEW s \in Reqs PROVE PlacedAt(s)'
  <2>1. req'[s].pc \in {"answer", "done"} /\ req'[s].ans = 201 => req'[s] = req[s]
    BY <1>1, <1>3 DEF Only
  <2>2. QED  BY <1>1, <1>2, <2>1, PlacedKept
<1>5. QED  BY <1>4 DEF Placed, PlacedAt

LEMMA LaterFinish ==
  ASSUME NEW r \in Reqs, Finish(r)
  PROVE  \A s \in Reqs : Later(s) /\ req'[s].under = req[s].under
<1>1. Only(r) /\ req[r].pc # "free" /\ req'[r].pc = "done" /\ req'[r].under = req[r].under
  BY DEF Finish
<1>2. \A s \in Reqs : Later(s)
  BY <1>1, LaterOnly
<1>3. QED  BY <1>1, <1>2 DEF Only

LEMMA PlacedFinish ==
  ASSUME Types, Threads, Placed, NEW r \in Reqs, Finish(r)
  PROVE  Placed'
<1>1. /\ Only(r) /\ UNCHANGED appFile
      /\ req'[r].ans = 500 \/ (req[r].pc = "answer" /\ req'[r].ans = req[r].ans)
  BY DEF Finish
<1>2. \A s \in Reqs : Later(s)
  BY LaterFinish
<1>3. ASSUME NEW s \in Reqs PROVE PlacedAt(s)'
  <2>1. req'[s].pc \in {"answer", "done"} /\ req'[s].ans = 201 =>
            /\ req'[s].ask = req[s].ask /\ req[s].pc \in {"answer", "done"} /\ req[s].ans = 201
    <3>1. CASE s = r
      BY <1>1, <3>1 DEF Only
    <3>2. CASE s # r
      BY <1>1, <3>2 DEF Only
    <3>3. QED  BY <3>1, <3>2
  <2>2. QED  BY <1>1, <1>2, <2>1, PlacedKept
<1>4. QED  BY <1>3 DEF Placed, PlacedAt

LEMMA PlacedCrash ==
  ASSUME Types, Threads, Placed, Crash
  PROVE  Placed'
<1>1. /\ \A s \in Reqs : ~Under(s) => req'[s] = req[s]
      /\ \A s \in Reqs : Under(s) => req'[s].pc = "lost"
      /\ UNCHANGED appFile
  BY CrashReq
<1>2. \A s \in Reqs : Later(s)
  BY LaterCrash
<1>3. ASSUME NEW s \in Reqs PROVE PlacedAt(s)'
  <2>1. req'[s].pc \in {"answer", "done"} => req'[s] = req[s]
    BY <1>1
  <2>2. QED  BY <1>1, <1>2, <2>1, PlacedKept
<1>4. QED  BY <1>3 DEF Placed, PlacedAt

(* The author of an entry is who made it. *)
LEMMA AuthorIs ==
  ASSUME NEW e, NEW a, Known(e, a)
  PROVE  AuthorOf(e.id) = e.author
<1>1. CASE e.id \in Reqs
  BY <1>1 DEF Known, AuthorOf
<1>2. CASE e.id \notin Reqs
  <2>1. PICK c \in Comments : c.id = e.id /\ c.author = e.author
    BY <1>2 DEF Known
  <2> DEFINE d == CHOOSE x \in Comments : x.id = e.id
  <2>2. d \in Comments /\ d.id = e.id
    BY <2>1, Zenon
  <2>3. AuthorOf(e.id) = d.author
    BY <1>2, Zenon DEF AuthorOf
  <2> HIDE DEF d
  <2>4. d = c
    BY <2>1, <2>2, ThreadAssumption
  <2>5. QED  BY <2>1, <2>3, <2>4
<1>3. QED  BY <1>1, <1>2

(* A delete takes away the comment of its author and what hangs below it. *)
LEMMA RemovedKept ==
  ASSUME Threads, \A s \in Reqs : Later(s), NEW r \in Reqs, req[r].pc # "free", NEW at \in Apps, NEW F,
         Removed(Entries(appFile[at]), F, req[r].ask),
         NEW s \in Reqs, NEW e \in Entries(appFile[at]), e.id = s, e \notin F
  PROVE  DeletedByAuthor(s)' \/ (req[s].under # 0 /\ DeletedByAuthor(req[s].under)')
<1> DEFINE E == Entries(appFile[at])
           cid == req[r].ask.cid
<1>1. PICK c \in E : c.id = cid /\ c.author = req[r].ask.who
  BY DEF Removed
<1>2. WellFormed(E) /\ Known(c, at) /\ Known(e, at)
  BY <1>1 DEF Threads
<1>3. e.id = cid \/ e.parent = cid
  BY DEF Removed
<1>4. req[r].ask.op = "delete"
  BY DEF Removed
<1>5. AuthorOf(cid) = req[r].ask.who
  BY <1>1, <1>2, AuthorIs
<1>6. DeletedByAuthor(cid)
  BY <1>4, <1>5 DEF DeletedByAuthor
<1>7. cid \in Reqs => req[cid].pc # "free"
  BY <1>1, <1>2 DEF Known
<1>8. \A id : (id \in Reqs => req[id].pc # "free") /\ DeletedByAuthor(id) => DeletedByAuthor(id)'
  BY DeletedOn
<1>9. CASE s = cid
  BY <1>6, <1>7, <1>8, <1>9
<1>10. CASE e.parent = cid
  <2>1. req[s].under = cid /\ cid # 0
    BY <1>1, <1>2, <1>10 DEF Known, WellFormed
  <2>2. req[s].pc \notin {"free", "load", "written"}
    BY <1>2 DEF Known
  <2>3. (req[s].under)' = req[s].under
    BY <2>2 DEF Later
  <2>4. DeletedByAuthor(req[s].under)'
    BY <1>6, <1>7, <1>8, <2>1, <2>3 DEF DeletedByAuthor
  <2>5. QED  BY <2>1, <2>4
<1>11. QED  BY <1>3, <1>9, <1>10

LEMMA PlacedRename ==
  ASSUME Types, Written, Threads, Placed, NEW r \in Reqs, Rename(r)
  PROVE  Placed'
<1>1. /\ Only(r) /\ req[r].pc = "written" /\ req'[r].ans = req[r].ans /\ req'[r].ask = req[r].ask
      /\ \A s \in Reqs : s # r => req'[s] = req[s]
  BY RenameReq DEF Only
<1>2. \A s \in Reqs : Later(s)
  BY LaterRename
<1>3. CASE ~IsApp(r)
  <2>1. appFile' = appFile /\ req[r].ans # 201
    BY <1>1, <1>3, RenameUser DEF Written
  <2>2. ASSUME NEW s \in Reqs PROVE PlacedAt(s)'
    <3>1. req'[s].pc \in {"answer", "done"} /\ req'[s].ans = 201 => req'[s] = req[s]
      BY <1>1, <2>1
    <3>2. QED  BY <1>2, <2>1, <3>1, PlacedKept
  <2>3. QED  BY <2>2 DEF Placed, PlacedAt
<1>4. CASE IsApp(r)
  <2> DEFINE at == req[r].ask.at
             E == Entries(appFile[at])
             F == Entries(appFile'[at])
  <2>1. /\ at \in Apps /\ \A a \in Apps : a # at => appFile'[a] = appFile[a]
        /\ Change(E, F, req[r].ask, r, req[r].under)
        /\ req[r].ans = 201 => Added(E, F, req[r].ask, r, req[r].under)
    BY <1>4, RenameApp
  <2>2. ASSUME NEW s \in Reqs, req'[s].pc \in {"answer", "done"}, req'[s].ans = 201
        PROVE  IsApp(s)' /\ Kept(s)'
    <3>1. CASE s = r
      <4>1. Added(E, F, req[r].ask, r, req[r].under)
        BY <1>1, <2>1, <2>2, <3>1
      <4> DEFINE c == [id |-> r, parent |-> req[r].under, author |-> req[r].ask.who]
      <4>2. c \in F /\ c.id = r
        BY <4>1 DEF Added
      <4> HIDE DEF c
      <4>3. \E e \in Entries(appFile'[req'[r].ask.at]) : e.id = r
        BY <1>1, <4>2
      <4>4. IsApp(r)'
        BY <1>1, <1>4 DEF IsApp
      <4>5. (Entries(appFile[req[r].ask.at]))' = Entries(appFile'[req'[r].ask.at])
        BY DEF Entries
      <4>6. Kept(r)'
        BY <4>3, <4>5 DEF Kept
      <4>7. QED  BY <3>1, <4>4, <4>6
    <3>2. CASE s # r
      <4>1. req'[s] = req[s] /\ req[s].pc \in {"answer", "done"} /\ req[s].ans = 201
        BY <1>1, <2>2, <3>2
      <4>2. IsApp(s) /\ Kept(s)
        BY <4>1 DEF Placed
      <4>3. ASSUME NEW e \in Entries(appFile[req[s].ask.at]), e.id = s
            PROVE  \/ \E d \in Entries(appFile'[req[s].ask.at]) : d.id = s
                   \/ DeletedByAuthor(s)'
                   \/ req[s].under # 0 /\ DeletedByAuthor(req[s].under)'
        <5>1. CASE req[s].ask.at # at
          <6>1. req[s].ask.at \in Apps
            BY <4>2, DidApp
          <6>2. appFile'[req[s].ask.at] = appFile[req[s].ask.at]
            BY <2>1, <5>1, <6>1
          <6>3. QED  BY <4>3, <6>2
        <5>2. CASE req[s].ask.at = at /\ e \in F
          BY <4>3, <5>2
        <5>3. CASE req[s].ask.at = at /\ e \notin F
          <6>1. e \in E
            BY <5>3
          <6>2. Removed(E, F, req[r].ask)
            BY <2>1, <5>3, <6>1 DEF Change, Added
          <6>3. req[r].pc # "free"
            BY <1>1
          <6>4. QED  BY <1>2, <2>1, <4>3, <5>3, <6>1, <6>2, <6>3, RemovedKept
        <5>4. QED  BY <5>1, <5>2, <5>3
      <4>4. req[s].pc \notin {"free", "load", "written"}
        BY <4>1
      <4>5. Kept(s)'
        BY <1>2, <4>2, <4>3, <4>4, KeptOn
      <4>6. QED  BY <4>1, <4>2, <4>5 DEF IsApp
    <3>3. QED  BY <3>1, <3>2
  <2>3. QED  BY <2>2 DEF Placed
<1>5. QED  BY <1>3, <1>4


-----------------------------------------------------------------------------
(* Saved lists. *)

EffectAt(r) ==
    /\ req[r].pc = "answer" /\ req[r].ans = 200 /\ req[r].ask.op \in {"save", "unsave"}
    /\ req[r].ask.who \notin mixed
    => Saved(req[r].ask.who, req[r].ask.model) = (req[r].ask.op = "save")

LEMMA EffectIs == Effect <=> \A r \in Reqs : EffectAt(r)
  BY DEF Effect, EffectAt

LEMMA EffectKept ==
  ASSUME Effect, NEW s \in Reqs, mixed \subseteq mixed',
         /\ req'[s].pc = "answer" /\ req'[s].ans = 200 /\ req'[s].ask.op \in {"save", "unsave"}
         /\ req'[s].ask.who \notin mixed'
         => req'[s] = req[s] /\ userFile'[req[s].ask.who] = userFile[req[s].ask.who]
  PROVE  EffectAt(s)'
<1> SUFFICES ASSUME req'[s].pc = "answer", req'[s].ans = 200, req'[s].ask.op \in {"save", "unsave"},
                    req'[s].ask.who \notin mixed'
             PROVE  Saved(req[s].ask.who, req[s].ask.model)' = (req'[s].ask.op = "save")
  BY DEF EffectAt
<1>1. req'[s] = req[s] /\ userFile'[req[s].ask.who] = userFile[req[s].ask.who]
  OBVIOUS
<1>2. EffectAt(s)
  BY EffectIs
<1>3. Saved(req[s].ask.who, req[s].ask.model) = (req[s].ask.op = "save")
  BY <1>1, <1>2 DEF EffectAt
<1>4. QED  BY <1>1, <1>3 DEF Saved

LEMMA EffectArrive ==
  ASSUME Types, Effect, NEW a \in Asks, Arrive(a)
  PROVE  Effect'
<1> DEFINE n == arrived + 1
<1>1. (\A s \in Reqs : s # n => req'[s] = req[s]) /\ req'[n].pc = "load"
  BY ArriveReq
<1>2. userFile' = userFile /\ mixed \subseteq mixed'
  BY DEF Arrive
<1> HIDE DEF n
<1>3. ASSUME NEW s \in Reqs PROVE EffectAt(s)'
  <2>1. req'[s].pc = "answer" => req'[s] = req[s]
    BY <1>1
  <2>2. QED  BY <1>2, <2>1, EffectKept
<1>4. QED  BY <1>3 DEF Effect, EffectAt

LEMMA EffectLoad ==
  ASSUME Types, Effect, NEW r \in Reqs, Load(r)
  PROVE  Effect'
<1>1. /\ Only(r) /\ UNCHANGED <<userFile, mixed>> /\ req'[r].ans = Did(r).ans
      /\ req'[r].pc = IF Did(r).write THEN "written"
                      ELSE IF Logs(req[r].ask, FALSE) THEN "append" ELSE "answer"
  BY LoadReq
<1>2. req'[r].ask = req[r].ask /\ \A s \in Reqs : s # r => req'[s] = req[s]
  BY <1>1 DEF Only
<1>3. ~(req'[r].pc = "answer" /\ req'[r].ans = 200 /\ req'[r].ask.op \in {"save", "unsave"})
  <2> SUFFICES ASSUME req[r].ask.op \in {"save", "unsave"}, Did(r).ans = 200 PROVE Did(r).write
    BY <1>1, <1>2
  <2>1. ~IsApp(r)
    BY DEF IsApp, AppOps
  <2>2. QED  BY <2>1, DidUser DEF UserFits
<1>4. ASSUME NEW s \in Reqs PROVE EffectAt(s)'
  <2>1. req'[s].pc = "answer" /\ req'[s].ans = 200 /\ req'[s].ask.op \in {"save", "unsave"} => req'[s] = req[s]
    BY <1>2, <1>3
  <2>2. QED  BY <1>1, <2>1, EffectKept
<1>5. QED  BY <1>4 DEF Effect, EffectAt

LEMMA EffectAppend ==
  ASSUME Types, Written, Effect, NEW r \in Reqs, AppendLine(r)
  PROVE  Effect'
<1>1. Only(r) /\ UNCHANGED <<userFile, mixed>> /\ req[r].pc = "append"
  BY AppendReq
<1>2. req'[r].ask = req[r].ask /\ \A s \in Reqs : s # r => req'[s] = req[s]
  BY <1>1 DEF Only
<1>3. req'[r].ask.op \notin {"save", "unsave"}
  BY <1>1, <1>2 DEF Written
<1>4. ASSUME NEW s \in Reqs PROVE EffectAt(s)'
  <2>1. req'[s].ask.op \in {"save", "unsave"} => req'[s] = req[s]
    BY <1>2, <1>3
  <2>2. QED  BY <1>1, <2>1, EffectKept
<1>5. QED  BY <1>4 DEF Effect, EffectAt

LEMMA EffectFinish ==
  ASSUME Effect, NEW r \in Reqs, Finish(r)
  PROVE  Effect'
<1>1. UNCHANGED <<userFile, mixed>> /\ req'[r].pc = "done" /\ \A s \in Reqs : s # r => req'[s] = req[s]
  BY DEF Finish, Only
<1>2. ASSUME NEW s \in Reqs PROVE EffectAt(s)'
  <2>1. req'[s].pc = "answer" => req'[s] = req[s]
    BY <1>1
  <2>2. QED  BY <1>1, <2>1, EffectKept
<1>3. QED  BY <1>2 DEF Effect, EffectAt

LEMMA EffectCrash ==
  ASSUME Types, Effect, Crash
  PROVE  Effect'
<1>1. /\ \A s \in Reqs : ~Under(s) => req'[s] = req[s]
      /\ \A s \in Reqs : Under(s) => req'[s].pc = "lost"
      /\ UNCHANGED <<userFile, mixed>>
  BY CrashReq
<1>2. ASSUME NEW s \in Reqs PROVE EffectAt(s)'
  <2>1. req'[s].pc = "answer" => req'[s] = req[s]
    BY <1>1
  <2>2. QED  BY <1>1, <2>1, EffectKept
<1>3. QED  BY <1>2 DEF Effect, EffectAt

LEMMA EffectRename ==
  ASSUME Types, Queued, Alone, Written, Effect, NEW r \in Reqs, Rename(r)
  PROVE  Effect'
<1>1. /\ Only(r) /\ req[r].pc = "written" /\ mixed' = mixed
  BY RenameReq
<1>2. req'[r].ask = req[r].ask /\ \A s \in Reqs : s # r => req'[s] = req[s]
  BY <1>1 DEF Only
<1>3. EffectAt(r)'
  <2> SUFFICES ASSUME req[r].ask.op \in {"save", "unsave"}, req[r].ask.who \notin mixed
               PROVE  Saved(req[r].ask.who, req[r].ask.model)' = (req'[r].ask.op = "save")
    BY <1>1, <1>2 DEF EffectAt
  <2> DEFINE who == req[r].ask.who
             m == req[r].ask.model
  <2>1. ~IsApp(r)
    BY DEF IsApp, AppOps
  <2>2. m \in Models
    BY ReqFacts, AskFacts
  <2>3. Contains(userFile'[who].saved, m) <=> After(req[r].ask, Contains(userFile[who].saved, m), m)
    BY <2>1, <2>2, RenameUser
  <2>4. After(req[r].ask, Contains(userFile[who].saved, m), m) <=> req[r].ask.op = "save"
    BY DEF After
  <2>5. Contains(userFile'[who].saved, m) \in BOOLEAN
    BY DEF Contains
  <2>6. QED  BY <1>2, <2>3, <2>4, <2>5 DEF Saved
<1>4. ASSUME NEW s \in Reqs, s # r PROVE EffectAt(s)'
  <2>1. ASSUME req[s].pc = "answer", req[s].ask.op \in {"save", "unsave"}, req[s].ask.who \notin mixed
        PROVE  userFile'[req[s].ask.who] = userFile[req[s].ask.who]
    <3>1. ~IsApp(s)
      BY <2>1 DEF IsApp, AppOps
    <3>2. Under(r) /\ Under(s)
      BY <1>1, <2>1 DEF Under
    <3>3. ~(~IsApp(r) /\ ~IsApp(s) /\ req[r].ask.who = req[s].ask.who /\ req[r].ask.who \notin mixed)
      BY <1>1, <1>4, <2>1, <3>2, OneHolds
    <3>4. CASE IsApp(r)
      BY <3>4, RenameApp
    <3>5. CASE ~IsApp(r)
      <4>1. req[s].ask.who # req[r].ask.who /\ req[s].ask.who \in Persons
        BY <2>1, <3>1, <3>3, <3>5, DidUser
      <4>2. \A p \in Persons : p # req[r].ask.who => userFile'[p] = userFile[p]
        BY <3>5, RenameUser
      <4>3. QED  BY <4>1, <4>2
    <3>6. QED  BY <3>4, <3>5
  <2>2. req'[s] = req[s] /\ mixed \subseteq mixed' /\ mixed' = mixed
    BY <1>1, <1>2, <1>4
  <2>3. QED  BY <2>1, <2>2, EffectKept
<1>5. QED  BY <1>3, <1>4 DEF Effect, EffectAt

(* The requests about m of p that are answered stay, and so does the list. *)
LEMMA WordKept ==
  ASSUME NEW p, NEW m, Word(p, m), Saved(p, m)' = Saved(p, m),
         \A s \in Reqs : Mine(s, p, m) => Mine(s, p, m)' /\ req'[s].ask = req[s].ask,
         \A s \in Reqs : (Mine(s, p, m) /\ Ack(s)) <=> (Mine(s, p, m) /\ Ack(s))'
  PROVE  Word(p, m)'
<1>1. \A s \in Reqs : Says(s, p, m) => Says(s, p, m)'
  BY DEF Says
<1>2. CASE \E r \in Reqs : Says(r, p, m) /\ ~Ack(r) /\ \A s \in Reqs : Mine(s, p, m) /\ Ack(s) => s < r
  <2>1. PICK r \in Reqs : Says(r, p, m) /\ ~Ack(r) /\ \A s \in Reqs : Mine(s, p, m) /\ Ack(s) => s < r
    BY <1>2
  <2>2. Mine(r, p, m) /\ Mine(r, p, m)'
    BY <2>1 DEF Says
  <2>3. ~Ack(r)'
    BY <2>1, <2>2
  <2>4. \A s \in Reqs : (Mine(s, p, m) /\ Ack(s))' => s < r
    BY <2>1
  <2>5. QED  BY <1>1, <2>1, <2>3, <2>4 DEF Word
<1>3. CASE ~Saved(p, m) /\ \A s \in Reqs : Mine(s, p, m) => ~Ack(s)
  <2>1. ~Saved(p, m)' /\ \A s \in Reqs : ~(Mine(s, p, m) /\ Ack(s))'
    BY <1>3
  <2>2. QED  BY <2>1 DEF Word
<1>4. CASE \E r \in Reqs : Says(r, p, m) /\ Ack(r) /\ \A s \in Reqs : Mine(s, p, m) /\ Ack(s) => s <= r
  <2>1. PICK r \in Reqs : Says(r, p, m) /\ Ack(r) /\ \A s \in Reqs : Mine(s, p, m) /\ Ack(s) => s <= r
    BY <1>4
  <2>2. Mine(r, p, m)
    BY <2>1 DEF Says
  <2>3. Ack(r)'
    BY <2>1, <2>2
  <2>4. \A s \in Reqs : (Mine(s, p, m) /\ Ack(s))' => s <= r
    BY <2>1
  <2>5. QED  BY <1>1, <2>1, <2>3, <2>4 DEF Word
<1>5. QED  BY <1>2, <1>3, <1>4 DEF Word


LEMMA MineOn ==
  ASSUME NEW s \in Reqs, Later(s), NEW p, NEW m
  PROVE  /\ Mine(s, p, m) => Mine(s, p, m)' /\ req'[s].ask = req[s].ask
         /\ Ack(s) => (Mine(s, p, m)' <=> Mine(s, p, m))
<1>1. req[s].pc # "free" => req'[s].pc # "free" /\ req'[s].ask = req[s].ask
  BY DEF Later
<1>2. QED  BY <1>1 DEF Mine, Ack

(* No list changes and nobody is answered. *)
LEMMA WordsKept ==
  ASSUME Words, mixed \subseteq mixed', userFile' = userFile, \A s \in Reqs : Later(s),
         \A s \in Reqs : Ack(s)' <=> Ack(s)
  PROVE  Words'
<1>1. ASSUME NEW p \in Persons \ mixed', NEW m \in Models PROVE Word(p, m)'
  <2>1. Word(p, m)
    BY <1>1 DEF Words
  <2>2. Saved(p, m)' = Saved(p, m)
    BY DEF Saved
  <2>3. \A s \in Reqs : Mine(s, p, m) => Mine(s, p, m)' /\ req'[s].ask = req[s].ask
    BY MineOn
  <2>4. \A s \in Reqs : (Mine(s, p, m) /\ Ack(s)) <=> (Mine(s, p, m) /\ Ack(s))'
    BY MineOn
  <2>5. QED  BY <2>1, <2>2, <2>3, <2>4, WordKept
<1>2. QED  BY <1>1 DEF Words

LEMMA WordsArrive ==
  ASSUME Types, Words, NEW a \in Asks, Arrive(a)
  PROVE  Words'
<1> DEFINE n == arrived + 1
<1>1. (\A s \in Reqs : s # n => req'[s] = req[s]) /\ req'[n].pc = "load" /\ req[n].pc = "free"
  BY ArriveReq
<1>2. userFile' = userFile /\ mixed \subseteq mixed' /\ \A s \in Reqs : Later(s)
  BY LaterArrive DEF Arrive
<1> HIDE DEF n
<1>3. ASSUME NEW s \in Reqs PROVE Ack(s)' <=> Ack(s)
  <2>1. CASE s = n
    BY <1>1, <2>1 DEF Ack
  <2>2. CASE s # n
    BY <1>1, <2>2 DEF Ack
  <2>3. QED  BY <2>1, <2>2
<1>4. QED  BY <1>2, <1>3, WordsKept

LEMMA WordsOnly ==
  ASSUME Words, NEW r \in Reqs, Only(r), mixed' = mixed, userFile' = userFile, \A s \in Reqs : Later(s),
         Ack(r)' <=> Ack(r)
  PROVE  Words'
<1>1. ASSUME NEW s \in Reqs PROVE Ack(s)' <=> Ack(s)
  <2>1. CASE s = r
    BY <2>1
  <2>2. CASE s # r
    BY <2>2 DEF Ack, Only
  <2>3. QED  BY <2>1, <2>2
<1>2. QED  BY <1>1, WordsKept

LEMMA WordsLoad ==
  ASSUME Types, Words, NEW r \in Reqs, Load(r)
  PROVE  Words'
<1>1. /\ Only(r) /\ req[r].pc = "load" /\ req'[r].pc \notin {"free", "done"} /\ UNCHANGED <<userFile, mixed>>
  BY LoadReq
<1>2. \A s \in Reqs : Later(s)
  BY <1>1, LaterOnly
<1>3. Ack(r)' <=> Ack(r)
  BY <1>1 DEF Ack
<1>4. QED  BY <1>1, <1>2, <1>3, WordsOnly

LEMMA WordsAppend ==
  ASSUME Types, Words, NEW r \in Reqs, AppendLine(r)
  PROVE  Words'
<1>1. /\ Only(r) /\ req[r].pc = "append" /\ req'[r].pc = "answer" /\ UNCHANGED <<userFile, mixed>>
      /\ req'[r].under = req[r].under
  BY AppendReq
<1>2. \A s \in Reqs : Later(s)
  BY <1>1, LaterOnly
<1>3. Ack(r)' <=> Ack(r)
  BY <1>1 DEF Ack
<1>4. QED  BY <1>1, <1>2, <1>3, WordsOnly

LEMMA WordsCrash ==
  ASSUME Types, Words, Crash
  PROVE  Words'
<1>1. /\ \A s \in Reqs : ~Under(s) => req'[s] = req[s]
      /\ \A s \in Reqs : Under(s) => req'[s].pc = "lost"
      /\ UNCHANGED <<userFile, mixed>>
  BY CrashReq
<1>2. \A s \in Reqs : Later(s)
  BY LaterCrash
<1>3. ASSUME NEW s \in Reqs PROVE Ack(s)' <=> Ack(s)
  <2>1. CASE Under(s)
    BY <1>1, <2>1 DEF Ack, Under
  <2>2. CASE ~Under(s)
    BY <1>1, <2>2 DEF Ack
  <2>3. QED  BY <2>1, <2>2
<1>4. QED  BY <1>1, <1>2, <1>3, WordsKept

(* The request under way is the last that its person has made. *)
LEMMA LastMine ==
  ASSUME Alone, NEW r \in Reqs, Under(r), NEW p, p \notin mixed, NEW m, Mine(r, p, m),
         NEW s \in Reqs, s # r, Mine(s, p, m)
  PROVE  s < r
<1>1. ~IsApp(r) /\ ~IsApp(s)
  BY DEF Mine, IsApp, AppOps
<1>2. req[s].pc # "free" /\ req[r].ask.who = p /\ req[s].ask.who = p
  BY DEF Mine
<1>3. QED  BY <1>1, <1>2 DEF Alone

LEMMA WordsFinish ==
  ASSUME Alone, Effect, Words, NEW r \in Reqs, Finish(r)
  PROVE  Words'
<1>1. /\ Only(r) /\ UNCHANGED <<userFile, mixed>> /\ req[r].pc \in {"written", "append", "answer"}
      /\ req'[r].pc = "done" /\ req'[r].ask = req[r].ask
      /\ req'[r].ans = 500 \/ (req[r].pc = "answer" /\ req'[r].ans = req[r].ans)
      /\ \A s \in Reqs : s # r => req'[s] = req[s]
  BY DEF Finish, Only
<1>2. \A s \in Reqs : Later(s)
  BY LaterFinish
<1>3. ~Ack(r) /\ Under(r)
  BY <1>1 DEF Ack, Under
<1>4. CASE ~Ack(r)'
  BY <1>1, <1>2, <1>3, <1>4, WordsOnly
<1>5. CASE Ack(r)'
  <2>1. req[r].pc = "answer" /\ req[r].ans = 200
    BY <1>1, <1>5 DEF Ack
  <2>2. ASSUME NEW p \in Persons \ mixed', NEW m \in Models PROVE Word(p, m)'
    <3>1. p \notin mixed /\ Word(p, m)
      BY <1>1, <2>2 DEF Words
    <3>2. Saved(p, m)' = Saved(p, m)
      BY <1>1 DEF Saved
    <3>3. \A s \in Reqs : s # r => (Mine(s, p, m)' <=> Mine(s, p, m)) /\ (Ack(s)' <=> Ack(s))
      BY <1>1 DEF Mine, Ack
    <3>4. CASE Mine(r, p, m)
      <4>1. Saved(p, m) = (req[r].ask.op = "save")
        BY <2>1, <3>1, <3>4 DEF Mine, Effect
      <4>2. Says(r, p, m)'
        BY <1>1, <1>2, <3>2, <3>4, <4>1, MineOn DEF Says
      <4>3. ASSUME NEW s \in Reqs, Mine(s, p, m)', Ack(s)' PROVE s <= r
        <5>1. CASE s = r
          BY <5>1, ReqsFacts
        <5>2. CASE s # r
          <6>1. s < r
            BY <1>3, <3>1, <3>3, <3>4, <4>3, <5>2, LastMine
          <6>2. QED  BY <6>1, ReqsFacts
        <5>3. QED  BY <5>1, <5>2
      <4>4. QED  BY <1>5, <4>2, <4>3 DEF Word
    <3>5. CASE ~Mine(r, p, m)
      <4>1. ~Mine(r, p, m)'
        BY <1>1, <3>5 DEF Mine
      <4>2. \A s \in Reqs : Mine(s, p, m) => Mine(s, p, m)' /\ req'[s].ask = req[s].ask
        BY <1>2, MineOn
      <4>3. \A s \in Reqs : (Mine(s, p, m) /\ Ack(s)) <=> (Mine(s, p, m) /\ Ack(s))'
        BY <3>3, <3>5, <4>1
      <4>4. QED  BY <3>1, <3>2, <4>2, <4>3, WordKept
    <3>6. QED  BY <3>4, <3>5
  <2>3. QED  BY <2>2 DEF Words
<1>6. QED  BY <1>4, <1>5

LEMMA WordsRename ==
  ASSUME Types, Written, Alone, Words, NEW r \in Reqs, Rename(r)
  PROVE  Words'
<1>1. /\ Only(r) /\ mixed' = mixed /\ req[r].pc = "written" /\ req'[r].pc \notin {"free", "done"}
      /\ req'[r].ask = req[r].ask /\ \A s \in Reqs : s # r => req'[s] = req[s]
  BY RenameReq DEF Only
<1>2. \A s \in Reqs : Later(s)
  BY LaterRename
<1>3. ~Ack(r) /\ ~Ack(r)' /\ Under(r)
  BY <1>1 DEF Ack, Under
<1>4. CASE IsApp(r)
  <2>1. userFile' = userFile
    BY <1>4, RenameApp
  <2>2. QED  BY <1>1, <1>2, <1>3, <2>1, WordsOnly
<1>5. CASE ~IsApp(r)
  <2>1. ASSUME NEW p \in Persons \ mixed', NEW m \in Models PROVE Word(p, m)'
    <3>1. p \notin mixed /\ Word(p, m)
      BY <1>1, <2>1 DEF Words
    <3>2. \A s \in Reqs : Mine(s, p, m) => Mine(s, p, m)' /\ req'[s].ask = req[s].ask
      BY <1>2, MineOn
    <3>3. \A s \in Reqs : (Mine(s, p, m) /\ Ack(s)) <=> (Mine(s, p, m) /\ Ack(s))'
      <4> TAKE s \in Reqs
      <4>1. CASE s = r
        BY <1>3, <4>1
      <4>2. CASE s # r
        BY <1>1, <4>2 DEF Mine, Ack
      <4>3. QED  BY <4>1, <4>2
    <3>4. Saved(p, m) \in BOOLEAN /\ Saved(p, m)' \in BOOLEAN
      BY DEF Saved, Contains
    <3>5. CASE req[r].ask.who # p
      <4>1. userFile'[p] = userFile[p]
        BY <1>5, <3>5, RenameUser
      <4>2. Saved(p, m)' = Saved(p, m)
        BY <4>1 DEF Saved
      <4>3. QED  BY <3>1, <3>2, <3>3, <4>2, WordKept
    <3>6. CASE req[r].ask.who = p
      <4>1. Contains(userFile'[p].saved, m) <=> After(req[r].ask, Contains(userFile[p].saved, m), m)
        BY <1>5, <3>1, <3>6, RenameUser
      <4>2. Saved(p, m)' <=> After(req[r].ask, Saved(p, m), m)
        BY <4>1 DEF Saved
      <4>3. CASE Mine(r, p, m)
        <5>1. Saved(p, m)' <=> req[r].ask.op = "save"
          BY <4>2, <4>3 DEF Mine, After
        <5>2. Says(r, p, m)'
          BY <1>1, <3>2, <3>4, <4>3, <5>1 DEF Says
        <5>3. ASSUME NEW s \in Reqs, (Mine(s, p, m) /\ Ack(s))' PROVE s < r
          <6>1. Mine(s, p, m) /\ Ack(s)
            BY <3>3, <5>3
          <6>2. s # r
            BY <1>3, <6>1
          <6>3. QED  BY <1>3, <3>1, <4>3, <6>1, <6>2, LastMine
        <5>4. QED  BY <1>3, <5>2, <5>3 DEF Word
      <4>4. CASE ~Mine(r, p, m)
        <5>1. ~(req[r].ask.op \in {"save", "unsave"} /\ req[r].ask.model = m)
          BY <1>1, <3>6, <4>4 DEF Mine
        <5>2. Saved(p, m)' = Saved(p, m)
          BY <3>4, <4>2, <5>1 DEF After
        <5>3. QED  BY <3>1, <3>2, <3>3, <5>2, WordKept
      <4>5. QED  BY <4>3, <4>4
    <3>7. QED  BY <3>5, <3>6
  <2>2. QED  BY <2>1 DEF Words
<1>6. QED  BY <1>4, <1>5


-----------------------------------------------------------------------------
(* The invariant. *)

LEMMA InitInv == Init => Inv
<1> SUFFICES ASSUME Init PROVE Inv
  OBVIOUS
<1>1. NoReq \in ReqType /\ NoReq.pc = "free" /\ NoReq.under = 0
  <2>1. (CHOOSE a \in Asks : TRUE) \in Asks
    BY AccountAssumption
  <2>2. QED  BY <2>1 DEF NoReq, ReqType, PCs, Records
<1>2. req \in [Reqs -> ReqType] /\ \A r \in Reqs : req[r].pc = "free" /\ req[r].under = 0
  BY <1>1 DEF Init
<1>3. \A r \in Reqs : ~Under(r)
  BY <1>2 DEF Under
<1>4. ASSUME NEW a \in Apps
      PROVE  appFile[a] \in AppRecord /\ appFile[a].comments = Thread[a] /\ Thread[a] \in Seq(CommentType)
  <2>1. appFile[a] = [reactions |-> NoReactions, comments |-> Thread[a]]
    BY DEF Init
  <2>2. Thread[a] \in Seq(CommentType)
    BY AccountAssumption
  <2>3. NoReactions \in [Persons -> Reaction]
    BY DEF NoReactions, Reaction
  <2>4. QED  BY <2>1, <2>2, <2>3 DEF AppRecord
<1>5. BlankUser \in UserRecord /\ BlankUser.saved = <<>>
  BY DEF BlankUser, UserRecord, Reaction
<1>6. ASSUME NEW p \in Persons PROVE userFile[p] = BlankUser
  BY DEF Init
<1>7. Types
  <2>1. appFile \in [Apps -> AppRecord]
    BY <1>4 DEF Init
  <2>2. \A a \in Apps : Len(appFile[a].comments) <= MAX_COMMENTS
    BY <1>4, ThreadAssumption
  <2>3. userFile \in [Persons -> UserRecord]
    BY <1>5 DEF Init
  <2>4. \A p \in Persons : Len(userFile[p].saved) <= MAX_SAVED
    BY <1>5, <1>6, AccountAssumption
  <2>5. arrived = 0 /\ mixed = {} /\ queues \in [Apps -> Seq(Reqs)]
    BY DEF Init
  <2>6. arrived \in 0 .. MaxAsks /\ mixed \subseteq Persons
    BY <2>5, AccountAssumption
  <2>7. \A r \in Reqs : (req[r].pc = "free") = (arrived < r)
    <3> TAKE r \in Reqs
    <3>1. r \in Nat /\ r # 0
      BY ReqsFacts
    <3>2. arrived < r
      BY <2>5, <3>1
    <3>3. QED  BY <1>2, <3>2
  <2>8. QED  BY <1>2, <2>1, <2>2, <2>3, <2>4, <2>5, <2>6, <2>7 DEF Types
<1>8. Queued
  <2>1. \A a \in Apps : \A r : ~Contains(queues[a], r)
    BY EmptyContains DEF Init
  <2>2. QED  BY <1>3, <2>1 DEF Queued
<1>9. Alone
  BY <1>3 DEF Alone
<1>10. Written
  BY <1>2 DEF Written
<1>11. Threads
  <2>1. ASSUME NEW a \in Apps, NEW e \in Entries(appFile[a])
        PROVE  \E k \in DOMAIN Thread[a] : /\ e.id = Thread[a][k].id /\ e.parent = Thread[a][k].parent
                                           /\ e.author = Thread[a][k].author /\ Thread[a][k] \in Comments
                                           /\ e = Entry(Thread[a][k])
    BY <1>4 DEF Entries, Entry, Comments
  <2>2. ASSUME NEW a \in Apps PROVE WellFormed(Entries(appFile[a]))
    <3>1. \A e \in Entries(appFile[a]) : e.id # 0
      BY <2>1, ThreadAssumption
    <3>2. \A e, d \in Entries(appFile[a]) : e.id = d.id => e = d
      <4> TAKE e, d \in Entries(appFile[a])
      <4>1. PICK k \in DOMAIN Thread[a] : e.id = Thread[a][k].id /\ Thread[a][k] \in Comments /\ e = Entry(Thread[a][k])
        BY <2>1
      <4>2. PICK j \in DOMAIN Thread[a] : d.id = Thread[a][j].id /\ Thread[a][j] \in Comments /\ d = Entry(Thread[a][j])
        BY <2>1
      <4>3. e.id = d.id => Thread[a][k] = Thread[a][j]
        BY <4>1, <4>2, ThreadAssumption
      <4>4. QED  BY <4>1, <4>2, <4>3
    <3>3. ASSUME NEW e \in Entries(appFile[a]), e.parent # 0
          PROVE  \E d \in Entries(appFile[a]) : d.id = e.parent /\ d.parent = 0
      <4>1. PICK k \in DOMAIN Thread[a] : e.parent = Thread[a][k].parent
        BY <2>1
      <4>2. PICK j \in DOMAIN Thread[a] : Thread[a][j].id = Thread[a][k].parent /\ Thread[a][j].parent = 0
        BY <3>3, <4>1, ThreadAssumption
      <4>3. Entry(Thread[a][j]) \in Entries(appFile[a])
        BY <1>4, <4>2 DEF Entries
      <4>4. Entry(Thread[a][j]).id = e.parent /\ Entry(Thread[a][j]).parent = 0
        BY <4>1, <4>2 DEF Entry
      <4>5. QED  BY <4>3, <4>4
    <3>4. QED  BY <3>1, <3>2, <3>3 DEF WellFormed
  <2>3. ASSUME NEW a \in Apps, NEW e \in Entries(appFile[a]) PROVE Known(e, a)
    <3>1. PICK k \in DOMAIN Thread[a] :
             e.id = Thread[a][k].id /\ e.author = Thread[a][k].author /\ Thread[a][k] \in Comments
      BY <2>1
    <3>2. e.id \notin Reqs
      BY <3>1, ThreadAssumption
    <3>3. QED  BY <3>1, <3>2 DEF Known
  <2>4. \A r \in Reqs : req[r].under \notin Reqs
    BY <1>2, ReqsFacts
  <2>5. QED  BY <2>2, <2>3, <2>4 DEF Threads
<1>12. Placed
  BY <1>2 DEF Placed
<1>13. Effect
  BY <1>2 DEF Effect
<1>14. Words
  <2>1. \A p \in Persons, m \in Models : ~Saved(p, m)
    BY <1>5, <1>6, EmptyContains DEF Saved
  <2>2. \A p, m : \A s \in Reqs : ~Mine(s, p, m)
    BY <1>2 DEF Mine
  <2>3. QED  BY <2>1, <2>2 DEF Words, Word
<1>15. QED  BY <1>7, <1>8, <1>9, <1>10, <1>11, <1>12, <1>13, <1>14 DEF Inv

(* A step that only changes r, and does not bring it back. *)
LEMMA AloneOnly ==
  ASSUME Alone, mixed' = mixed, NEW r \in Reqs, Only(r), Under(r)
  PROVE  Alone'
<1>1. ASSUME NEW s \in Reqs
      PROVE  req'[s].ask = req[s].ask /\ (Under(s)' => Under(s)) /\ (req'[s].pc # "free" => req[s].pc # "free")
  <2>1. CASE s = r
    BY <2>1 DEF Only, Under
  <2>2. CASE s # r
    BY <2>2 DEF Only, Under
  <2>3. QED  BY <2>1, <2>2
<1>2. QED  BY <1>1, AloneOn

LEMMA InvArrive ==
  ASSUME Inv, NEW a \in Asks, Arrive(a)
  PROVE  Inv'
<1>1. Threads'
  BY LaterArrive, ThreadsSame DEF Inv, Arrive
<1>2. QED  BY <1>1, TypesArrive, QueuedArrive, AloneArrive, WrittenArrive, PlacedArrive, EffectArrive,
              WordsArrive DEF Inv

LEMMA InvLoad ==
  ASSUME Inv, NEW r \in Reqs, Load(r)
  PROVE  Inv'
<1>1. Only(r) /\ req[r].pc = "load" /\ req'[r].pc \in {"written", "append", "answer"} /\ UNCHANGED <<queues, mixed>>
  BY LoadReq DEF Inv
<1>2. Under(r) /\ Under(r)'
  BY <1>1 DEF Under
<1>3. IsApp(r) => Head(queues[req[r].ask.at]) = r
  BY DEF Load, Turn
<1>4. Queued'
  BY <1>1, <1>2, <1>3, QueuedOn DEF Inv
<1>5. Alone'
  BY <1>1, <1>2, AloneOnly DEF Inv
<1>6. QED  BY <1>4, <1>5, TypesLoad, WrittenLoad, ThreadsLoad, PlacedLoad, EffectLoad, WordsLoad DEF Inv

LEMMA InvRename ==
  ASSUME Inv, NEW r \in Reqs, Rename(r)
  PROVE  Inv'
<1>1. Only(r) /\ req[r].pc = "written" /\ req'[r].pc \in {"append", "answer"} /\ UNCHANGED <<queues, mixed>>
  BY RenameReq DEF Inv
<1>2. Under(r) /\ Under(r)'
  BY <1>1 DEF Under
<1>3. IsApp(r) => Head(queues[req[r].ask.at]) = r
  BY <1>1, <1>2 DEF Inv, Queued
<1>4. Queued'
  BY <1>1, <1>2, <1>3, QueuedOn DEF Inv
<1>5. Alone'
  BY <1>1, <1>2, AloneOnly DEF Inv
<1>6. QED  BY <1>4, <1>5, TypesRename, WrittenRename, ThreadsRename, PlacedRename, EffectRename,
              WordsRename DEF Inv

LEMMA InvAppend ==
  ASSUME Inv, NEW r \in Reqs, AppendLine(r)
  PROVE  Inv'
<1>1. /\ Only(r) /\ req[r].pc = "append" /\ req'[r].pc = "answer" /\ UNCHANGED <<appFile, userFile, queues, mixed>>
      /\ req'[r].ans = req[r].ans /\ req'[r].under = req[r].under
  BY AppendReq DEF Inv
<1>2. Under(r) /\ Under(r)'
  BY <1>1 DEF Under
<1>3. IsApp(r) => Head(queues[req[r].ask.at]) = r
  BY <1>1, <1>2 DEF Inv, Queued
<1>4. Queued'
  BY <1>1, <1>2, <1>3, QueuedOn DEF Inv
<1>5. Alone'
  BY <1>1, <1>2, AloneOnly DEF Inv
<1>6. Written'
  BY <1>1, WrittenGone DEF Inv
<1>7. \A s \in Reqs : Later(s) /\ req'[s].under = req[s].under
  <2>1. \A s \in Reqs : Later(s)
    BY <1>1, LaterOnly
  <2>2. QED  BY <1>1, <2>1 DEF Only
<1>8. Threads'
  BY <1>1, <1>7, ThreadsSame DEF Inv
<1>9. QED  BY <1>4, <1>5, <1>6, <1>8, TypesAppend, PlacedAppend, EffectAppend, WordsAppend DEF Inv

LEMMA InvFinish ==
  ASSUME Inv, NEW r \in Reqs, Finish(r)
  PROVE  Inv'
<1>1. /\ Only(r) /\ req[r].pc \in {"written", "append", "answer"} /\ req'[r].pc = "done"
      /\ req'[r].ans = req[r].ans \/ req'[r].ans = 500
      /\ UNCHANGED <<appFile, userFile, mixed>>
  BY DEF Finish
<1>2. Under(r)
  BY <1>1 DEF Under
<1>3. Alone'
  BY <1>1, <1>2, AloneOnly DEF Inv
<1>4. Written'
  BY <1>1, WrittenGone DEF Inv
<1>5. Threads'
  BY <1>1, LaterFinish, ThreadsSame DEF Inv
<1>6. QED  BY <1>3, <1>4, <1>5, TypesFinish, QueuedFinish, PlacedFinish, EffectFinish, WordsFinish DEF Inv

LEMMA InvCrash ==
  ASSUME Inv, Crash
  PROVE  Inv'
<1>1. /\ \A s \in Reqs : ~Under(s) => req'[s] = req[s]
      /\ \A s \in Reqs : Under(s) => req'[s].ask = req[s].ask /\ req'[s].pc = "lost"
      /\ UNCHANGED <<appFile, userFile, mixed>>
  BY CrashReq DEF Inv
<1>2. ASSUME NEW s \in Reqs
      PROVE  req'[s].ask = req[s].ask /\ (Under(s)' => Under(s)) /\ (req'[s].pc # "free" => req[s].pc # "free")
  <2>1. CASE Under(s)
    BY <1>1, <2>1 DEF Under
  <2>2. CASE ~Under(s)
    BY <1>1, <2>2 DEF Under
  <2>3. QED  BY <2>1, <2>2
<1>3. Alone'
  BY <1>1, <1>2, AloneOn DEF Inv
<1>4. Threads'
  BY <1>1, LaterCrash, ThreadsSame DEF Inv
<1>5. QED  BY <1>3, <1>4, TypesCrash, QueuedCrash, WrittenCrash, PlacedCrash, EffectCrash, WordsCrash DEF Inv

LEMMA InvStutter ==
  ASSUME Inv, UNCHANGED vars
  PROVE  Inv'
<1> USE DEF vars
<1>1. Types' /\ Queued' /\ Alone'
  BY DEF Inv, Types, Queued, Alone, Under, IsApp
<1>2. Written'
  BY DEF Inv, Written, Made, IsApp
<1>3. Threads'
  BY DEF Inv, Threads, Known, WellFormed, Entries
<1>4. Placed'
  BY DEF Inv, Placed, Kept, DeletedByAuthor, AuthorOf, Entries, IsApp
<1>5. Effect' /\ Words'
  BY DEF Inv, Effect, Words, Word, Says, Mine, Ack, Saved
<1>6. QED  BY <1>1, <1>2, <1>3, <1>4, <1>5 DEF Inv

LEMMA NextInv == Inv /\ [Next]_vars => Inv'
<1> SUFFICES ASSUME Inv, [Next]_vars PROVE Inv'
  OBVIOUS
<1>1. ASSUME NEW a \in Asks, Arrive(a) PROVE Inv'
  BY <1>1, InvArrive
<1>2. ASSUME NEW r \in Reqs, Load(r) PROVE Inv'
  BY <1>2, InvLoad
<1>3. ASSUME NEW r \in Reqs, Rename(r) PROVE Inv'
  BY <1>3, InvRename
<1>4. ASSUME NEW r \in Reqs, AppendLine(r) PROVE Inv'
  BY <1>4, InvAppend
<1>5. ASSUME NEW r \in Reqs, Answer(r) PROVE Inv'
  <2>1. Finish(r)
    BY <1>5, AnswerReq DEF Inv
  <2>2. QED  BY <2>1, InvFinish
<1>6. ASSUME NEW r \in Reqs, Fail(r) PROVE Inv'
  <2>1. Finish(r)
    BY <1>6, FailReq DEF Inv
  <2>2. QED  BY <2>1, InvFinish
<1>7. CASE Crash
  BY <1>7, InvCrash
<1>8. CASE UNCHANGED vars
  BY <1>8, InvStutter
<1>9. QED  BY <1>1, <1>2, <1>3, <1>4, <1>5, <1>6, <1>7, <1>8 DEF Next, Serve

LEMMA Invariance == Spec => []Inv
  BY InitInv, NextInv, PTL DEF Spec

-----------------------------------------------------------------------------
(* The logs: what a record says was asked for is in the log, or the append   *)
(* that was to follow it is under way or was cut off.  A record that is on    *)
(* its way to its file holds one model more, the one its request adds.        *)

Cut(q) == q.pc \in {"append", "lost"} \/ (q.pc = "done" /\ q.ans = 500)
Asked(p, m) == [op |-> "request", who |-> p, model |-> m]
Noted(lines, q, line) == line \in lines \/ \E s \in Reqs : Line(q[s].ask) = line /\ Cut(q[s])

LinesFile == \A p \in Persons, m \in Models : Contains(userFile[p].requests, m) => Noted(log, req, Asked(p, m))
LineHeld(x, lines, q) ==
    /\ x.pc = "written" /\ x.ask.op \notin AppOps =>
          \A m \in Models : Contains(x.record.requests, m) =>
              Noted(lines, q, Asked(x.ask.who, m)) \/ (x.ask.op = "request" /\ x.ask.model = m)
    /\ x.pc = "written" => x.ans # 202
    /\ x.pc \in {"answer", "done"} /\ x.ans = 200 /\ x.ask.op = "request" => Noted(lines, q, Line(x.ask))
    /\ x.pc \in {"answer", "done"} /\ x.ans = 202 => Line(x.ask) \in lines
Lines == LinesFile /\ \A r \in Reqs : LineHeld(req[r], log, req)

(* What is noted stays noted. *)
NotedStays == \A line : Noted(log, req, line) => Noted(log', req', line)

LEMMA NotedOn ==
  ASSUME log \subseteq log',
         \A s \in Reqs : Cut(req[s]) => req'[s].ask = req[s].ask /\ (Cut(req'[s]) \/ Line(req[s].ask) \in log')
  PROVE  NotedStays
<1> SUFFICES ASSUME NEW line, Noted(log, req, line) PROVE Noted(log', req', line)
  BY DEF NotedStays
<1>1. CASE line \in log
  BY <1>1 DEF Noted
<1>2. CASE \E s \in Reqs : Line(req[s].ask) = line /\ Cut(req[s])
  <2>1. PICK s \in Reqs : Line(req[s].ask) = line /\ Cut(req[s])
    BY <1>2
  <2>2. req'[s].ask = req[s].ask /\ (Cut(req'[s]) \/ line \in log')
    BY <2>1
  <2>3. QED  BY <2>1, <2>2 DEF Noted
<1>3. QED  BY <1>1, <1>2 DEF Noted

LEMMA LineIs ==
  ASSUME NEW a, a.op = "request"
  PROVE  Line(a) = Asked(a.who, a.model)
  BY DEF Line, Asked

(* A request that does not change stays right. *)
LEMMA LineHeldOn ==
  ASSUME NEW s \in Reqs, LineHeld(req[s], log, req), req'[s] = req[s], log \subseteq log', NotedStays
  PROVE  LineHeld(req'[s], log', req')
<1> DEFINE x == req[s]
<1>1. LineHeld(x, log', req')
  BY DEF LineHeld, NotedStays
<1>2. QED  BY <1>1

LEMMA LinesFileOn ==
  ASSUME LinesFile, userFile' = userFile, NotedStays
  PROVE  LinesFile'
  BY DEF LinesFile, NotedStays

LEMMA WritesOrNot ==
  /\ \A record, ans : Keep(record, ans).write = FALSE
  /\ \A record, ans : Write(record, ans).write = TRUE
  BY Zenon DEF Keep, Write

(* What the work on a record says of the log. *)
LEMMA DidLines ==
  ASSUME Types, NEW r \in Reqs
  PROVE  /\ Did(r).ans = 202 => req[r].ask.op = "publisher" /\ Did(r).write = FALSE
         /\ ~IsApp(r) /\ Did(r).write =>
               \A m \in Models : Contains(Did(r).record.requests, m) =>
                   Contains(FileOf(r).requests, m) \/ (req[r].ask.op = "request" /\ req[r].ask.model = m)
         /\ req[r].ask.op = "request" /\ ~Did(r).write /\ Did(r).ans = 200 =>
               Contains(FileOf(r).requests, req[r].ask.model)
<1> DEFINE a == req[r].ask
           f == FileOf(r)
<1>1. a \in Asks
  BY ReqFacts
<1>2. CASE a.op = "react"
  <2>1. Did(r) = Write(React(f, a), 200)
    BY <1>2 DEF Did, Apply
  <2>2. Did(r).ans # 202
    BY <2>1 DEF Write
  <2>3. QED  BY <1>2, <2>2 DEF IsApp, AppOps
<1>3. CASE a.op = "comment"
  <2>1. Did(r) = Comment(f, a, r)
    BY <1>3 DEF Did, Apply
  <2>2. Did(r).ans # 202
    BY <2>1 DEF Comment, Write, Keep
  <2>3. QED  BY <1>3, <2>2 DEF IsApp, AppOps
<1>4. CASE a.op = "commentReact"
  <2>1. Did(r) = CommentReact(f, a)
    BY <1>4 DEF Did, Apply
  <2>2. Did(r).ans # 202
    BY <2>1 DEF CommentReact, Write, Keep
  <2>3. QED  BY <1>4, <2>2 DEF IsApp, AppOps
<1>5. CASE a.op = "delete"
  <2>1. Did(r) = Delete(f, a)
    BY <1>5 DEF Did, Apply
  <2>2. Did(r).ans # 202
    BY <2>1 DEF Delete, Write, Keep
  <2>3. QED  BY <1>5, <2>2 DEF IsApp, AppOps
<1>6. CASE a.op = "wallet"
  <2>1. Did(r) = Write([f EXCEPT !.wallet = a.value], 200)
    BY <1>6 DEF Did, Apply
  <2>2. ~IsApp(r)
    BY <1>6 DEF IsApp, AppOps
  <2>3. f \in UserRecord
    BY <2>2, DidUser
  <2>4. Did(r).record.requests = f.requests /\ Did(r).ans = 200
    BY <2>1, <2>3 DEF Write, UserRecord
  <2>5. QED  BY <1>6, <2>4
<1>7. CASE a.op = "save"
  <2>1. Did(r) = Save(f, a)
    BY <1>7 DEF Did, Apply
  <2>2. ~IsApp(r)
    BY <1>7 DEF IsApp, AppOps
  <2>3. f \in UserRecord
    BY <2>2, DidUser
  <2>4. [f EXCEPT !.saved = <<a.model>> \o f.saved].requests = f.requests
    BY <2>3 DEF UserRecord
  <2>5. Did(r).record.requests = f.requests /\ Did(r).ans # 202
    BY <2>1, <2>4 DEF Save, Write, Keep
  <2>6. QED  BY <1>7, <2>5
<1>8. CASE a.op = "unsave"
  <2>1. Did(r) = Write(Unsave(f, a), 200)
    BY <1>8 DEF Did, Apply
  <2>2. ~IsApp(r)
    BY <1>8 DEF IsApp, AppOps
  <2>3. f \in UserRecord
    BY <2>2, DidUser
  <2>4. Unsave(f, a).requests = f.requests
    BY <2>3 DEF UserRecord, Unsave
  <2>5. Did(r).record.requests = f.requests /\ Did(r).ans = 200
    BY <2>1, <2>4 DEF Write
  <2>6. QED  BY <1>8, <2>5
<1>9. CASE a.op = "request"
  <2>1. Did(r) = Request(f, a)
    BY <1>9 DEF Did, Apply
  <2>2. ~IsApp(r)
    BY <1>9 DEF IsApp, AppOps
  <2>3. f \in UserRecord
    BY <2>2, DidUser
  <2>4. a.model \in Models /\ f.requests \in Seq(Models)
    BY <1>1, <1>9, <2>3, AskFacts, UserRecordFacts
  <2> DEFINE t == <<a.model>> \o f.requests
             new == [f EXCEPT !.requests = t]
  <2>5. CASE Len(f.requests) >= MAX_REQUESTS
    <3>1. Did(r) = Keep(f, 409)
      BY <2>1, <2>5 DEF Request
    <3>2. Did(r).ans = 409
      BY <3>1 DEF Keep
    <3>3. Did(r).write = FALSE
      <4>1. Keep(f, 409).write = FALSE
        BY WritesOrNot
      <4>2. QED  BY <3>1, <4>1
    <3>4. QED  BY <3>2, <3>3
  <2>6. CASE ~(Len(f.requests) >= MAX_REQUESTS) /\ Contains(f.requests, a.model)
    <3>1. Did(r) = Keep(f, 200)
      BY <2>1, <2>6 DEF Request
    <3>2. Did(r).ans = 200
      BY <3>1 DEF Keep
    <3>3. Did(r).write = FALSE
      BY <3>1, WritesOrNot, Zenon
    <3>4. QED  BY <2>6, <3>2, <3>3
  <2>7. CASE ~(Len(f.requests) >= MAX_REQUESTS) /\ ~Contains(f.requests, a.model)
    <3>1. Did(r) = Write(new, 200)
      BY <2>1, <2>7 DEF Request
    <3>2. \A y : Contains(t, y) <=> (Contains(f.requests, y) \/ y = a.model)
      BY <2>4, PrependContains
    <3>3. new.requests = t
      BY <2>3 DEF UserRecord
    <3>4. Did(r).ans = 200 /\ Did(r).record = new
      BY <3>1 DEF Write
    <3>5. Did(r).write = TRUE
      BY <3>1, WritesOrNot, Zenon
    <3>6. QED  BY <1>9, <3>2, <3>3, <3>4, <3>5
  <2>8. QED  BY <2>5, <2>6, <2>7
<1>10. CASE a.op = "publisher"
  <2>1. Did(r) = Keep(f, 202)
    BY <1>10 DEF Did, Apply
  <2>2. Did(r).write = FALSE
    BY <2>1, WritesOrNot, Zenon
  <2>3. QED  BY <1>10, <2>2
<1>11. a.op \in AppOps \cup {"wallet", "save", "unsave", "request", "publisher"}
  BY <1>1, AskFacts
<1>12. QED  BY <1>2, <1>3, <1>4, <1>5, <1>6, <1>7, <1>8, <1>9, <1>10, <1>11 DEF AppOps

LEMMA LinesArrive ==
  ASSUME Inv, Lines, NEW a \in Asks, Arrive(a)
  PROVE  Lines'
<1> DEFINE r == arrived + 1
<1>1. /\ r \in Reqs /\ req[r].pc = "free" /\ req'[r].pc = "load"
      /\ \A s \in Reqs : s # r => req'[s] = req[s]
  BY ArriveReq DEF Inv
<1>2. userFile' = userFile /\ log' = log
  BY DEF Arrive
<1> HIDE DEF r
<1>3. NotedStays
  <2>1. \A s \in Reqs : Cut(req[s]) => s # r
    BY <1>1 DEF Cut
  <2>2. \A s \in Reqs : Cut(req[s]) => req'[s].ask = req[s].ask /\ Cut(req'[s])
    BY <1>1, <2>1 DEF Cut
  <2>3. QED  BY <1>2, <2>2, NotedOn
<1>4. LinesFile'
  BY <1>2, <1>3, LinesFileOn DEF Lines
<1>5. ASSUME NEW s \in Reqs PROVE LineHeld(req'[s], log', req')
  <2>1. CASE s = r
    BY <1>1, <2>1 DEF LineHeld
  <2>2. CASE s # r
    BY <1>1, <1>2, <1>3, <2>2, LineHeldOn DEF Lines
  <2>3. QED  BY <2>1, <2>2
<1>6. QED  BY <1>4, <1>5 DEF Lines

LEMMA LinesLoad ==
  ASSUME Inv, Lines, NEW r \in Reqs, Load(r)
  PROVE  Lines'
<1>1. /\ Only(r) /\ req[r].pc = "load"
      /\ req'[r].pc = IF Did(r).write THEN "written"
                      ELSE IF Logs(req[r].ask, FALSE) THEN "append" ELSE "answer"
      /\ req'[r].ans = Did(r).ans
      /\ Did(r).write => req'[r].record = Did(r).record
      /\ userFile' = userFile /\ log' = log
  BY LoadReq DEF Inv
<1>2. Types /\ (\A s \in Reqs : s # r => req'[s] = req[s]) /\ req'[r].ask = req[r].ask
  BY <1>1 DEF Only, Inv
<1>3. NotedStays
  <2>1. \A s \in Reqs : Cut(req[s]) => s # r
    BY <1>1 DEF Cut
  <2>2. \A s \in Reqs : Cut(req[s]) => req'[s].ask = req[s].ask /\ Cut(req'[s])
    BY <1>2, <2>1 DEF Cut
  <2>3. QED  BY <1>1, <2>2, NotedOn
<1>4. LinesFile'
  BY <1>1, <1>3, LinesFileOn DEF Lines
<1>5. LineHeld(req'[r], log', req')
  <2>1. IsApp(r) = (req'[r].ask.op \in AppOps)
    BY <1>2 DEF IsApp
  <2>2. ASSUME req'[r].pc = "written", ~IsApp(r), NEW m \in Models, Contains(req'[r].record.requests, m)
        PROVE  Noted(log', req', Asked(req'[r].ask.who, m)) \/ (req'[r].ask.op = "request" /\ req'[r].ask.model = m)
    <3>1. Did(r).write
      BY <1>1, <2>2
    <3>2. Contains(FileOf(r).requests, m) \/ (req[r].ask.op = "request" /\ req[r].ask.model = m)
      BY <1>1, <1>2, <2>2, <3>1, DidLines
    <3>3. req[r].ask.who \in Persons /\ FileOf(r) = userFile[req[r].ask.who]
      BY <1>2, <2>2, DidUser
    <3>4. Contains(FileOf(r).requests, m) => Noted(log', req', Asked(req[r].ask.who, m))
      BY <1>3, <2>2, <3>3 DEF Lines, LinesFile, NotedStays
    <3>5. QED  BY <1>2, <3>2, <3>4
  <2>3. req'[r].pc = "written" => req'[r].ans # 202
    BY <1>1, <1>2, DidLines
  <2>4. ASSUME req'[r].pc \in {"answer", "done"}, req'[r].ans = 200, req'[r].ask.op = "request"
        PROVE  Noted(log', req', Line(req'[r].ask))
    <3>1. ~Did(r).write /\ req[r].ask.op = "request" /\ Did(r).ans = 200
      BY <1>1, <1>2, <2>4
    <3>2. Contains(FileOf(r).requests, req[r].ask.model)
      BY <1>2, <3>1, DidLines
    <3>3. ~IsApp(r) /\ req[r].ask \in Asks
      BY <1>2, <3>1, ReqFacts DEF IsApp, AppOps
    <3>4. req[r].ask.who \in Persons /\ FileOf(r) = userFile[req[r].ask.who] /\ req[r].ask.model \in Models
      BY <1>2, <3>1, <3>3, DidUser, AskFacts
    <3>5. Noted(log', req', Asked(req[r].ask.who, req[r].ask.model))
      BY <1>3, <3>2, <3>4 DEF Lines, LinesFile, NotedStays
    <3>6. Line(req[r].ask) = Asked(req[r].ask.who, req[r].ask.model)
      BY <3>1, LineIs
    <3>7. QED  BY <1>2, <3>5, <3>6
  <2>5. ~(req'[r].pc \in {"answer", "done"} /\ req'[r].ans = 202)
    <3>1. ASSUME Did(r).ans = 202 PROVE req'[r].pc = "append"
      <4>1. req[r].ask.op = "publisher" /\ ~Did(r).write
        BY <1>2, <3>1, DidLines
      <4>2. Logs(req[r].ask, FALSE)
        BY <4>1 DEF Logs
      <4>3. QED  BY <1>1, <4>1, <4>2
    <3>2. QED  BY <1>1, <3>1
  <2>6. QED  BY <2>1, <2>2, <2>3, <2>4, <2>5 DEF LineHeld
<1>6. ASSUME NEW s \in Reqs, s # r PROVE LineHeld(req'[s], log', req')
  BY <1>1, <1>2, <1>3, <1>6, LineHeldOn DEF Lines
<1>7. QED  BY <1>4, <1>5, <1>6 DEF Lines

LEMMA LinesRename ==
  ASSUME Inv, Lines, NEW r \in Reqs, Rename(r)
  PROVE  Lines'
<1>1. /\ Only(r) /\ req[r].pc = "written"
      /\ req'[r].pc = IF Logs(req[r].ask, TRUE) THEN "append" ELSE "answer"
      /\ req'[r].ans = req[r].ans /\ log' = log
  BY RenameReq DEF Inv
<1>2. Types /\ (\A s \in Reqs : s # r => req'[s] = req[s]) /\ req'[r].ask = req[r].ask
  BY <1>1 DEF Only, Inv
<1>3. NotedStays
  <2>1. \A s \in Reqs : Cut(req[s]) => s # r
    BY <1>1 DEF Cut
  <2>2. \A s \in Reqs : Cut(req[s]) => req'[s].ask = req[s].ask /\ Cut(req'[s])
    BY <1>2, <2>1 DEF Cut
  <2>3. QED  BY <1>1, <2>2, NotedOn
<1>4. ASSUME req[r].ask.op = "request" PROVE Noted(log', req', Asked(req[r].ask.who, req[r].ask.model)) /\ req'[r].pc = "append"
  <2>1. req'[r].pc = "append"
    BY <1>1, <1>4 DEF Logs
  <2>2. Line(req'[r].ask) = Asked(req[r].ask.who, req[r].ask.model)
    <3>1. Line(req[r].ask) = Asked(req[r].ask.who, req[r].ask.model)
      BY <1>4, LineIs
    <3>2. QED  BY <1>2, <3>1
  <2>3. Cut(req'[r])
    BY <2>1 DEF Cut
  <2>4. QED  BY <2>1, <2>2, <2>3 DEF Noted
<1>5. LinesFile'
  <2>1. CASE IsApp(r)
    <3>1. userFile' = userFile
      BY <2>1 DEF Rename
    <3>2. QED  BY <1>3, <3>1, LinesFileOn DEF Lines
  <2>2. CASE ~IsApp(r)
    <3> DEFINE who == req[r].ask.who
    <3>1. userFile' = [userFile EXCEPT ![who] = req[r].record] /\ userFile \in [Persons -> UserRecord]
      BY <1>2, <2>2 DEF Rename, Types
    <3>2. who \in Persons
      BY <1>2, <2>2, DidUser
    <3>3. userFile'[who] = req[r].record /\ \A p \in Persons : p # who => userFile'[p] = userFile[p]
      BY <3>1, <3>2
    <3>4. ASSUME NEW p \in Persons, NEW m \in Models, Contains(userFile'[p].requests, m)
          PROVE  Noted(log', req', Asked(p, m))
      <4>1. CASE p = who
        <5>1. Contains(req[r].record.requests, m)
          BY <3>3, <3>4, <4>1
        <5>2. Noted(log, req, Asked(who, m)) \/ (req[r].ask.op = "request" /\ req[r].ask.model = m)
          BY <1>1, <2>2, <5>1 DEF Lines, LineHeld, IsApp
        <5>3. QED  BY <1>3, <1>4, <4>1, <5>2 DEF NotedStays
      <4>2. CASE p # who
        BY <1>3, <3>3, <3>4, <4>2 DEF Lines, LinesFile, NotedStays
      <4>3. QED  BY <4>1, <4>2
    <3> HIDE DEF who
    <3>5. QED  BY <3>4 DEF LinesFile
  <2>3. QED  BY <2>1, <2>2
<1>6. LineHeld(req'[r], log', req')
  <2>1. req[r].ans # 202
    BY <1>1 DEF Lines, LineHeld
  <2>2. QED  BY <1>1, <1>2, <1>4, <2>1 DEF LineHeld
<1>7. ASSUME NEW s \in Reqs, s # r PROVE LineHeld(req'[s], log', req')
  BY <1>1, <1>2, <1>3, <1>7, LineHeldOn DEF Lines
<1>8. QED  BY <1>5, <1>6, <1>7 DEF Lines

LEMMA LinesAppend ==
  ASSUME Inv, Lines, NEW r \in Reqs, AppendLine(r)
  PROVE  Lines'
<1>1. /\ Only(r) /\ req[r].pc = "append" /\ req'[r].pc = "answer" /\ userFile' = userFile
  BY AppendReq DEF Inv
<1>2. (\A s \in Reqs : s # r => req'[s] = req[s]) /\ req'[r].ask = req[r].ask
  BY <1>1 DEF Only
<1>3. log \subseteq log' /\ Line(req[r].ask) \in log'
  BY DEF AppendLine
<1>4. NotedStays
  <2>1. ASSUME NEW s \in Reqs, Cut(req[s])
        PROVE  req'[s].ask = req[s].ask /\ (Cut(req'[s]) \/ Line(req[s].ask) \in log')
    <3>1. CASE s = r
      BY <1>2, <1>3, <3>1
    <3>2. CASE s # r
      BY <1>2, <2>1, <3>2 DEF Cut
    <3>3. QED  BY <3>1, <3>2
  <2>2. QED  BY <1>3, <2>1, NotedOn
<1>5. LinesFile'
  BY <1>1, <1>4, LinesFileOn DEF Lines
<1>6. LineHeld(req'[r], log', req')
  <2>1. Line(req'[r].ask) \in log'
    BY <1>2, <1>3
  <2>2. Noted(log', req', Line(req'[r].ask))
    BY <2>1 DEF Noted
  <2>3. QED  BY <1>1, <2>1, <2>2 DEF LineHeld
<1>7. ASSUME NEW s \in Reqs, s # r PROVE LineHeld(req'[s], log', req')
  BY <1>2, <1>3, <1>4, <1>7, LineHeldOn DEF Lines
<1>8. QED  BY <1>5, <1>6, <1>7 DEF Lines

LEMMA LinesFinish ==
  ASSUME Inv, Lines, NEW r \in Reqs, Finish(r)
  PROVE  Lines'
<1>1. /\ Only(r) /\ req[r].pc \in {"written", "append", "answer"} /\ req'[r].pc = "done"
      /\ req'[r].ans = 500 \/ (req[r].pc = "answer" /\ req'[r].ans = req[r].ans)
      /\ userFile' = userFile /\ log' = log
  BY DEF Finish
<1>2. (\A s \in Reqs : s # r => req'[s] = req[s]) /\ req'[r].ask = req[r].ask
  BY <1>1 DEF Only
<1>3. NotedStays
  <2>1. ASSUME NEW s \in Reqs, Cut(req[s])
        PROVE  req'[s].ask = req[s].ask /\ Cut(req'[s])
    <3>1. CASE s = r
      BY <1>1, <1>2, <2>1, <3>1 DEF Cut
    <3>2. CASE s # r
      BY <1>2, <2>1, <3>2 DEF Cut
    <3>3. QED  BY <3>1, <3>2
  <2>2. QED  BY <1>1, <2>1, NotedOn
<1>4. LinesFile'
  BY <1>1, <1>3, LinesFileOn DEF Lines
<1>5. LineHeld(req'[r], log', req')
  <2>1. ASSUME req'[r].ans = 200, req'[r].ask.op = "request" PROVE Noted(log', req', Line(req'[r].ask))
    <3>1. Noted(log, req, Line(req[r].ask))
      BY <1>1, <1>2, <2>1 DEF Lines, LineHeld
    <3>2. Noted(log', req', Line(req[r].ask))
      BY <1>3, <3>1 DEF NotedStays
    <3>3. QED  BY <1>2, <3>2
  <2>2. ASSUME req'[r].ans = 202 PROVE Line(req'[r].ask) \in log'
    <3>1. Line(req[r].ask) \in log
      BY <1>1, <2>2 DEF Lines, LineHeld
    <3>2. QED  BY <1>1, <1>2, <3>1
  <2>3. QED  BY <1>1, <2>1, <2>2 DEF LineHeld
<1>6. ASSUME NEW s \in Reqs, s # r PROVE LineHeld(req'[s], log', req')
  BY <1>1, <1>2, <1>3, <1>6, LineHeldOn DEF Lines
<1>7. QED  BY <1>4, <1>5, <1>6 DEF Lines

LEMMA LinesCrash ==
  ASSUME Inv, Lines, Crash
  PROVE  Lines'
<1>1. /\ \A s \in Reqs : ~Under(s) => req'[s] = req[s]
      /\ \A s \in Reqs : Under(s) => req'[s].ask = req[s].ask /\ req'[s].pc = "lost"
      /\ userFile' = userFile /\ log' = log
  BY CrashReq DEF Inv
<1>2. NotedStays
  <2>1. ASSUME NEW s \in Reqs, Cut(req[s]) PROVE req'[s].ask = req[s].ask /\ Cut(req'[s])
    <3>1. CASE Under(s)
      BY <1>1, <3>1 DEF Cut
    <3>2. CASE ~Under(s)
      BY <1>1, <2>1, <3>2 DEF Cut
    <3>3. QED  BY <3>1, <3>2
  <2>2. QED  BY <1>1, <2>1, NotedOn
<1>3. LinesFile'
  BY <1>1, <1>2, LinesFileOn DEF Lines
<1>4. ASSUME NEW s \in Reqs PROVE LineHeld(req'[s], log', req')
  <2>1. CASE Under(s)
    BY <1>1, <2>1 DEF LineHeld
  <2>2. CASE ~Under(s)
    BY <1>1, <1>2, <2>2, LineHeldOn DEF Lines
  <2>3. QED  BY <2>1, <2>2
<1>5. QED  BY <1>3, <1>4 DEF Lines

LEMMA LinesNext == Inv /\ Lines /\ [Next]_vars => Lines'
<1> SUFFICES ASSUME Inv, Lines, [Next]_vars PROVE Lines'
  OBVIOUS
<1>1. ASSUME NEW a \in Asks, Arrive(a) PROVE Lines'
  BY <1>1, LinesArrive
<1>2. ASSUME NEW r \in Reqs, Load(r) PROVE Lines'
  BY <1>2, LinesLoad
<1>3. ASSUME NEW r \in Reqs, Rename(r) PROVE Lines'
  BY <1>3, LinesRename
<1>4. ASSUME NEW r \in Reqs, AppendLine(r) PROVE Lines'
  BY <1>4, LinesAppend
<1>5. ASSUME NEW r \in Reqs, Answer(r) \/ Fail(r) PROVE Lines'
  <2>1. Finish(r)
    BY <1>5, AnswerReq, FailReq DEF Inv
  <2>2. QED  BY <2>1, LinesFinish
<1>6. CASE Crash
  BY <1>6, LinesCrash
<1>7. CASE UNCHANGED vars
  <2>1. userFile' = userFile /\ log' = log /\ req' = req
    BY <1>7 DEF vars
  <2>2. \A s \in Reqs : Cut(req[s]) => req'[s].ask = req[s].ask /\ Cut(req'[s])
    BY <2>1 DEF Cut
  <2>3. NotedStays
    BY <2>1, <2>2, NotedOn
  <2>4. LinesFile'
    BY <2>1, <2>3, LinesFileOn DEF Lines
  <2>5. \A s \in Reqs : LineHeld(req'[s], log', req')
    BY <2>1, <2>3, LineHeldOn DEF Lines
  <2>6. QED  BY <2>4, <2>5 DEF Lines
<1>8. QED  BY <1>1, <1>2, <1>3, <1>4, <1>5, <1>6, <1>7 DEF Next, Serve

LEMMA LinesInvariance == Spec => []Lines
<1>1. Init => Lines
  <2> SUFFICES ASSUME Init PROVE Lines
    OBVIOUS
  <2>1. \A p \in Persons : userFile[p].requests = <<>>
    BY DEF Init, BlankUser
  <2>2. \A r \in Reqs : req[r].pc = "free"
    BY DEF Init, NoReq
  <2>3. LinesFile
    BY <2>1, EmptyContains DEF LinesFile
  <2>4. QED  BY <2>2, <2>3 DEF Lines, LineHeld
<1>2. QED  BY <1>1, LinesNext, Invariance, PTL DEF Spec

-----------------------------------------------------------------------------
(* The properties. *)

(* Threads and saved lists keep their limits and every file stays a record    *)
(* of its kind, whatever requests race, fail or die; what stands in an App's  *)
(* queue is under way.                                                         *)
THEOREM AccountTypes == Spec => []TypeOK
<1>1. Inv => TypeOK
  <2> SUFFICES ASSUME Inv PROVE TypeOK
    OBVIOUS
  <2>1. Types /\ Queued
    BY DEF Inv
  <2>2. ASSUME NEW a \in Apps, NEW k \in DOMAIN queues[a] PROVE Under(queues[a][k])
    <3>1. queues[a] \in Seq(Reqs)
      BY <2>1 DEF Types
    <3>2. k \in 1 .. Len(queues[a]) /\ queues[a][k] \in Reqs
      BY <2>2, <3>1
    <3>3. Contains(queues[a], queues[a][k])
      BY <3>2 DEF Contains
    <3>4. QED  BY <2>1, <3>2, <3>3 DEF Queued
  <2>3. QED  BY <2>1, <2>2 DEF TypeOK, Types
<1>2. QED  BY <1>1, Invariance, PTL

(* "Two comments arriving together cannot overwrite each other": a comment     *)
(* answered with 201 stays in its thread, through races, failed writes and     *)
(* kills, until its author, or the author of the comment it answers, asks for   *)
(* the delete; and a request answered with 202 or 200 is in the log the         *)
(* operator reads, unless an append of that line is under way or was cut off.   *)
THEOREM AccountAckedStays == Spec => []AckedStays
<1>1. Inv /\ Lines => AckedStays
  <2> SUFFICES ASSUME Inv, Lines, NEW r \in Reqs, req[r].pc = "done"
               PROVE  /\ req[r].ans = 201 =>
                            \/ Find(appFile[req[r].ask.at], r) # 0
                            \/ DeletedByAuthor(r)
                            \/ req[r].under # 0 /\ DeletedByAuthor(req[r].under)
                      /\ req[r].ans = 202 => Line(req[r].ask) \in log
                      /\ req[r].ans = 200 /\ req[r].ask.op = "request" =>
                            Line(req[r].ask) \in log \/ Unlogged(Line(req[r].ask))
    BY DEF AckedStays
  <2>1. ASSUME req[r].ans = 201
        PROVE  \/ Find(appFile[req[r].ask.at], r) # 0
               \/ DeletedByAuthor(r)
               \/ req[r].under # 0 /\ DeletedByAuthor(req[r].under)
    <3>1. Types /\ IsApp(r) /\ Kept(r)
      BY <2>1 DEF Inv, Placed
    <3>2. appFile[req[r].ask.at] \in AppRecord
      BY <3>1, DidApp
    <3>3. (\E e \in Entries(appFile[req[r].ask.at]) : e.id = r) => Find(appFile[req[r].ask.at], r) # 0
      BY <3>2, FindsEntry
    <3>4. QED  BY <3>1, <3>3 DEF Kept
  <2>2. LineHeld(req[r], log, req)
    BY DEF Lines
  <2>3. Noted(log, req, Line(req[r].ask)) => Line(req[r].ask) \in log \/ Unlogged(Line(req[r].ask))
    BY DEF Noted, Cut, Unlogged
  <2>4. QED  BY <2>1, <2>2, <2>3 DEF LineHeld
<1>2. QED  BY <1>1, Invariance, LinesInvariance, PTL

(* A thread shows every comment it counts: replies stay one level deep and      *)
(* below a comment that is there, though the comment they answer may be          *)
(* deleted while they are on their way.                                          *)
THEOREM AccountAllShown == Spec => []AllShown
<1>1. Inv => AllShown
  <2> SUFFICES ASSUME Inv, NEW a \in Apps, NEW k \in DOMAIN appFile[a].comments,
                      appFile[a].comments[k].parent # 0
               PROVE  LET p == Find(appFile[a], appFile[a].comments[k].parent)
                      IN  p # 0 /\ appFile[a].comments[p].parent = 0
    BY DEF AllShown
  <2> DEFINE rec == appFile[a]
             E == Entries(rec)
             par == rec.comments[k].parent
             p == Find(rec, par)
  <2>1. rec \in AppRecord /\ WellFormed(E)
    BY DEF Inv, Types, Threads
  <2>2. k \in 1 .. Len(rec.comments) /\ Entry(rec.comments[k]) \in E
    BY <2>1, RecordFacts
  <2>3. Entry(rec.comments[k]).parent = par
    BY DEF Entry
  <2>4. PICK d \in E : d.id = par /\ d.parent = 0
    BY <2>1, <2>2, <2>3 DEF WellFormed
  <2>5. p # 0
    BY <2>1, <2>4, FindsEntry
  <2>6. p \in 1 .. Len(rec.comments) /\ rec.comments[p].id = par
    BY <2>1, <2>5, FindFacts
  <2>7. Entry(rec.comments[p]) \in E
    BY <2>1, <2>6, RecordFacts
  <2>8. Entry(rec.comments[p]).id = par /\ Entry(rec.comments[p]).parent = rec.comments[p].parent
    BY <2>6 DEF Entry
  <2>9. Entry(rec.comments[p]) = d
    BY <2>1, <2>4, <2>7, <2>8 DEF WellFormed
  <2>10. QED  BY <2>4, <2>5, <2>8, <2>9
<1>2. QED  BY <1>1, Invariance, PTL

(* For a person whose account requests come one after the other, the saved list  *)
(* says what the last answered request about a model said, unless a later one    *)
(* was cut off.                                                                   *)
THEOREM AccountSavedKept == Spec => []SavedKept
<1>1. Inv => SavedKept
  <2> SUFFICES ASSUME Inv, NEW p \in Persons \ mixed, NEW m \in Models
               PROVE  LET mine == {r \in Reqs : /\ req[r].pc # "free" /\ req[r].ask.op \in {"save", "unsave"}
                                                /\ req[r].ask.who = p /\ req[r].ask.model = m}
                          saved == Contains(userFile[p].saved, m)
                      IN  \/ \E r \in Open(mine) : saved = (req[r].ask.op = "save")
                          \/ saved = (Acked(mine) # {} /\ req[Latest(mine)].ask.op = "save")
    BY DEF SavedKept
  <2> DEFINE mine == {r \in Reqs : /\ req[r].pc # "free" /\ req[r].ask.op \in {"save", "unsave"}
                                   /\ req[r].ask.who = p /\ req[r].ask.model = m}
             saved == Contains(userFile[p].saved, m)
  <2>1. Word(p, m)
    BY DEF Inv, Words
  <2>2. \A r \in Reqs : r \in mine <=> Mine(r, p, m)
    BY DEF Mine
  <2>3. mine \subseteq Reqs /\ saved = Saved(p, m) /\ saved \in BOOLEAN
    BY DEF Saved, Contains
  <2> HIDE DEF mine, saved
  <2>4. \A r \in Reqs : r \in Acked(mine) <=> (Mine(r, p, m) /\ Ack(r))
    BY <2>2 DEF Acked, Ack
  <2>5. Acked(mine) \subseteq Reqs
    BY <2>3 DEF Acked
  <2>6. CASE \E r \in Reqs : Says(r, p, m) /\ ~Ack(r) /\ \A s \in Reqs : Mine(s, p, m) /\ Ack(s) => s < r
    <3>1. PICK r \in Reqs : Says(r, p, m) /\ ~Ack(r) /\ \A s \in Reqs : Mine(s, p, m) /\ Ack(s) => s < r
      BY <2>6
    <3>2. r \in mine \ Acked(mine) /\ \A s \in Acked(mine) : s < r
      BY <2>2, <2>4, <2>5, <3>1 DEF Says
    <3>3. r \in Open(mine)
      BY <3>2 DEF Open
    <3>4. QED  BY <2>3, <3>1, <3>3 DEF Says, mine, saved
  <2>7. CASE ~Saved(p, m) /\ \A s \in Reqs : Mine(s, p, m) => ~Ack(s)
    <3>1. Acked(mine) = {}
      BY <2>4, <2>5, <2>7
    <3>2. QED  BY <2>3, <2>7, <3>1 DEF mine, saved
  <2>8. CASE \E r \in Reqs : Says(r, p, m) /\ Ack(r) /\ \A s \in Reqs : Mine(s, p, m) /\ Ack(s) => s <= r
    <3>1. PICK r \in Reqs : Says(r, p, m) /\ Ack(r) /\ \A s \in Reqs : Mine(s, p, m) /\ Ack(s) => s <= r
      BY <2>8
    <3>2. r \in Acked(mine) /\ \A s \in Acked(mine) : s <= r
      BY <2>4, <2>5, <3>1 DEF Says
    <3>3. Latest(mine) \in Acked(mine) /\ \A s \in Acked(mine) : s <= Latest(mine)
      BY <3>2, Zenon DEF Latest
    <3>4. r \in Nat /\ Latest(mine) \in Nat
      BY <2>5, <3>3, ReqsFacts
    <3>5. Latest(mine) = r
      BY <3>2, <3>3, <3>4
    <3>6. saved = (Acked(mine) # {} /\ req[Latest(mine)].ask.op = "save")
      BY <2>3, <3>1, <3>2, <3>5 DEF Says
    <3>7. QED  BY <3>6 DEF mine, saved
  <2>9. QED  BY <2>1, <2>6, <2>7, <2>8 DEF Word
<1>2. QED  BY <1>1, Invariance, PTL
=============================================================================
