------------------------- MODULE OciUploadsProofs -------------------------
(***************************************************************************)
(* For any number of uploads, requests, bodies and kills, and whether or   *)
(* not the disk fails: every blob file holds the bytes of its address,     *)
(* every link has its bytes, and no session expires much too early.  On a  *)
(* disk that does not fail also: the two names an upload records are of    *)
(* the same bytes, the tables agree whenever nothing is in flight, and an  *)
(* answered chunk stays in place.                                          *)
(*                                                                         *)
(* None of these is inductive.  The bytes are seen in place some steps     *)
(* before they are linked (Committing); the running hash is of the staged  *)
(* bytes only while no other request can touch either (Holds, Apart): an   *)
(* upload that is being begun is known to nobody else, and of all that     *)
(* race to finish, cancel or purge a session one takes it from the map.    *)
(* Timely, Settling and Answered, further down, are proved on top of it.   *)
(***************************************************************************)
EXTENDS OciUploads, OciVolumeProofs, SequenceTheorems

VolumeOK(v) ==
    /\ IsVolume(v)
    /\ \A d \in DOMAIN v.files : d \in Digests /\ v.files[d] = d.of
    /\ \A key \in DOMAIN v.links : key \in Repos \X Digests /\ key[2] \in DOMAIN v.files
    /\ \A d \in DOMAIN v.aliases :
          /\ d \in Digests /\ v.aliases[d] \in Digests /\ v.aliases[d] # d
          /\ ~DiskErrors => v.aliases[d].of = d.of

(* The tables of uploads: typed, a session in the map has its object, and   *)
(* an object has its staging file, whose bytes are what it has hashed.      *)
TablesOK(st, rw, lv, ss, kp, us) ==
    /\ us \subseteq Ids
    /\ DOMAIN st \subseteq us /\ DOMAIN rw \subseteq us /\ DOMAIN kp \subseteq us
    /\ \A id \in DOMAIN st : st[id] \in Seq(Byte)
    /\ \A id \in DOMAIN rw : rw[id] \in [repo : Repos, age : Ages]
    /\ \A id \in DOMAIN kp : kp[id] \in Nat
    /\ \A id \in DOMAIN ss : ss[id] \in Session
    /\ lv \subseteq DOMAIN ss /\ DOMAIN ss \subseteq DOMAIN st
    /\ ~DiskErrors => \A id \in DOMAIN ss : ss[id].hash \subseteq {st[id]}

(* What a request at each step relies on. *)
Beginning(q) == q.pc \in {"begin_row", "begin_repo", "begin_session"}
Holding(q) == q.pc \in {"complete", "abort"}
Waiting(q) == q.pc \in {"idle", "status", "purge"}

Known(q, us) == (q.pc \notin {"idle", "purge"} => q.id \in us) /\ q.todo \subseteq us
Began(q, st, rw, ss) ==
    /\ Beginning(q) => /\ q.repo \in Repos
                       /\ q.id \in DOMAIN st /\ st[q.id] = <<>>
                       /\ q.id \notin DOMAIN ss
    /\ q.pc \in {"begin_repo", "begin_session"} => q.id \in DOMAIN rw
Appending(q, ss, kp) == q.pc = "append" /\ q.id \in DOMAIN kp => q.id \in DOMAIN ss
Holds(q, lv, ss) == Holding(q) => q.id \in DOMAIN ss /\ q.id \notin lv
Committing(q, v) ==
    q.pc \in {"hard_link", "commit"} =>
        /\ q.repo \in Repos /\ q.claim \in DOMAIN v.files
        /\ ~DiskErrors => q.hash \subseteq {q.claim.of}

Ready(q, v, st, rw, lv, ss, kp, us) ==
    /\ Known(q, us) /\ Began(q, st, rw, ss) /\ Appending(q, ss, kp)
    /\ Holds(q, lv, ss) /\ Committing(q, v)

(* What two requests keep between them. *)
Apart(p, q) ==
    /\ Beginning(p) => (Waiting(q) \/ p.id # q.id) /\ p.id \notin q.todo
    /\ Holding(p) /\ Holding(q) => p.id # q.id

Inductive ==
    /\ VolumeOK(vol)
    /\ TablesOK(staged, rows, live, sess, kappa, used)
    /\ up \in BOOLEAN
    /\ req \in [Actors -> Local]
    /\ \A a \in Actors : Ready(req[a], vol, staged, rows, live, sess, kappa, used)
    /\ \A a, b \in Actors : a # b => Apart(req[a], req[b])
    /\ ~up => \A a \in Actors : req[a] = Idle

-----------------------------------------------------------------------------
(* Lemmas on the operators. *)

(* A frame, and what follows it, are byte strings. *)
LEMMA FramesAreBytes ==
    ASSUME NEW rest \in Seq(Byte)
    PROVE  /\ NextFrame(rest) \in Seq(Byte) /\ Len(NextFrame(rest)) \in Nat
           /\ Len(NextFrame(rest)) <= Len(rest)
           /\ AfterFrame(rest) \in Seq(Byte)
<1> DEFINE n == IF Len(rest) < FrameSize THEN Len(rest) ELSE FrameSize
<1>1. FrameSize \in Nat /\ Len(rest) \in Nat /\ \A i \in 1 .. Len(rest) : rest[i] \in Byte
  BY UploadsAssumption, LenProperties
<1>2. n \in Nat /\ n <= Len(rest)
  BY <1>1
<1>3. /\ SubSeq(rest, 1, n) \in Seq(Byte)
      /\ Len(SubSeq(rest, 1, n)) = IF 1 <= n THEN n - 1 + 1 ELSE 0
  <2>1. \A i \in 1 .. n : rest[i] \in Byte
    BY <1>1, <1>2
  <2> HIDE DEF n
  <2>2. QED  BY <1>2, <2>1, SubSeqProperties
<1>4. Len(NextFrame(rest)) = n /\ NextFrame(rest) \in Seq(Byte)
  BY <1>2, <1>3 DEF NextFrame
<1> HIDE DEF n
<1>5. SubSeq(rest, n + 1, Len(rest)) \in Seq(Byte)
  <2>1. \A i \in n + 1 .. Len(rest) : rest[i] \in Byte
    BY <1>1, <1>2
  <2>2. QED  BY <1>1, <1>2, <2>1, SubSeqProperties
<1>6. QED  BY <1>2, <1>4, <1>5 DEF AfterFrame

(* So is any first part of a body. *)
LEMMA PartsAreBytes ==
    ASSUME NEW rest \in Seq(Byte), NEW n \in Nat, n <= Len(rest)
    PROVE  SubSeq(rest, 1, n) \in Seq(Byte)
<1>1. Len(rest) \in Nat /\ \A i \in 1 .. Len(rest) : rest[i] \in Byte
  BY LenProperties
<1>2. \A i \in 1 .. n : rest[i] \in Byte
  BY <1>1
<1>3. QED  BY <1>2, SubSeqProperties

LEMMA FramePartsAreBytes ==
    ASSUME NEW rest \in Seq(Byte), NEW n \in Nat, n <= Len(NextFrame(rest))
    PROVE  SubSeq(rest, 1, n) \in Seq(Byte) /\ SubSeq(NextFrame(rest), 1, n) \in Seq(Byte)
<1>1. /\ NextFrame(rest) \in Seq(Byte) /\ Len(NextFrame(rest)) \in Nat
      /\ Len(NextFrame(rest)) <= Len(rest)
  BY FramesAreBytes
<1>2. Len(rest) \in Nat
  BY LenProperties
<1>3. n <= Len(rest)
  BY <1>1, <1>2
<1>4. QED  BY <1>1, <1>3, PartsAreBytes

(* Ages stay within their cap. *)
LEMMA AgesStay ==
    /\ 0 \in Ages
    /\ \A age \in Ages : Older(age) \in Ages
BY UploadsAssumption DEF Ages, AgeCap, Older

(* The other name is another digest, of the same bytes if the running hash  *)
(* is of those bytes.                                                       *)
LEMMA OtherNameIsDigest ==
    ASSUME NEW d \in Digests, NEW hash \in SUBSET Seq(Byte)
    PROVE  /\ OtherName(d, hash, d.of) \in Digests
           /\ OtherName(d, hash, d.of) # d
           /\ hash \subseteq {d.of} => OtherName(d, hash, d.of).of = d.of
<1>1. d.alg \in {"sha256", "sha512", "blake3"} /\ d.of \in Seq(Byte)
  BY DEF Digests
<1>2. CASE d.alg = "blake3"
  BY <1>1, <1>2 DEF OtherName, Digest, Digests
<1>3. CASE d.alg # "blake3" /\ hash = {}
  BY <1>1, <1>3 DEF OtherName, Digest, Digests
<1>4. CASE d.alg # "blake3" /\ hash # {}
  <2> DEFINE h == CHOOSE h \in hash : TRUE
  <2>1. h \in hash
    BY <1>4
  <2>2. OtherName(d, hash, d.of) = Digest("blake3", h)
    BY <1>4 DEF OtherName
  <2> HIDE DEF h
  <2>3. h \in Seq(Byte) /\ (hash \subseteq {d.of} => h = d.of)
    BY <2>1
  <2>4. QED  BY <1>4, <2>2, <2>3 DEF Digest, Digests
<1>5. QED  BY <1>2, <1>3, <1>4

(* Storing bytes under the address they hash to keeps the volume in order. *)
LEMMA StoreKeeps ==
    ASSUME NEW v, VolumeOK(v), NEW d \in Digests,
           NEW w, w = StoreFile(v, d, d.of)
    PROVE  VolumeOK(w) /\ d \in DOMAIN w.files /\ DOMAIN v.files \subseteq DOMAIN w.files
<1>1. IsVolume(v)
  BY DEF VolumeOK
<1>2. /\ IsVolume(w)
      /\ DOMAIN w.files = DOMAIN v.files \cup {d}
      /\ \A x \in DOMAIN v.files : w.files[x] = v.files[x]
      /\ d \notin DOMAIN v.files => w.files[d] = d.of
      /\ w.links = v.links /\ w.aliases = v.aliases
  BY <1>1, StoreFileStores
<1>3. QED  BY <1>2 DEF VolumeOK

(* So does the second address, whose bytes are those of the first. *)
LEMMA HardLinkKeeps ==
    ASSUME NEW v, VolumeOK(v), NEW d \in Digests, d \in DOMAIN v.files,
           NEW w, w = HardLinkSha256(v, d)
    PROVE  VolumeOK(w) /\ DOMAIN v.files \subseteq DOMAIN w.files
<1> DEFINE second == Digest("sha256", d.of)
<1>1. second \in Digests /\ second.of = d.of
  BY DEF Digests, Digest
<1>2. v.files[d] = d.of
  BY DEF VolumeOK
<1>3. w = StoreFile(v, second, second.of)
  BY <1>1, <1>2 DEF HardLinkSha256
<1> HIDE DEF second
<1>4. QED  BY <1>1, <1>3, StoreKeeps

(* So does the commit, which is where the bytes have to be in place and the *)
(* two names of the same bytes.                                             *)
LEMMA CommitKeeps ==
    ASSUME NEW v, VolumeOK(v), NEW r \in Repos, NEW d \in Digests, d \in DOMAIN v.files,
           NEW e \in Digests, d # e, ~DiskErrors => e.of = d.of, NEW newly,
           NEW w, w = CommitFinishedUpload(v, r, d, e, newly)
    PROVE  VolumeOK(w) /\ w.files = v.files
<1>1. IsVolume(v)
  BY DEF VolumeOK
<1>2. /\ IsVolume(w)
      /\ w.files = v.files
      /\ DOMAIN w.links = DOMAIN v.links \cup {<<r, d>>}
      /\ w.links[<<r, d>>] = "blob"
      /\ \A key \in DOMAIN v.links : key # <<r, d>> => w.links[key] = v.links[key]
      /\ DOMAIN w.aliases = DOMAIN v.aliases \cup {d, e}
      /\ w.aliases[d] = e /\ w.aliases[e] = d
      /\ \A x \in DOMAIN v.aliases : x \notin {d, e} => w.aliases[x] = v.aliases[x]
      /\ w.objects \subseteq v.objects \cup {d}
      /\ w.repos = v.repos \cup {r}
      /\ w.referrers = v.referrers /\ w.tags = v.tags
  BY <1>1, CommitFinishedUploadCommits
<1>3. \A key \in DOMAIN w.links : key \in Repos \X Digests /\ key[2] \in DOMAIN w.files
  BY <1>2 DEF VolumeOK
<1>4. \A x \in DOMAIN w.aliases :
          /\ x \in Digests /\ w.aliases[x] \in Digests /\ w.aliases[x] # x
          /\ ~DiskErrors => w.aliases[x].of = x.of
  BY <1>2 DEF VolumeOK
<1>5. QED  BY <1>2, <1>3, <1>4 DEF VolumeOK

(* Listing a repository touches none of this. *)
LEMMA RepoTouchKeeps ==
    ASSUME NEW v, VolumeOK(v), NEW r, NEW w, w = RepoTouch(v, r)
    PROVE  VolumeOK(w) /\ w.files = v.files
<1>1. /\ IsVolume(w) /\ w.files = v.files /\ w.links = v.links /\ w.aliases = v.aliases
  BY DEF VolumeOK, RepoTouch, IsVolume
<1>2. QED  BY <1>1 DEF VolumeOK

-----------------------------------------------------------------------------
(* Lemmas on requests. *)

(* A request that moves on to a step it is ready for, leaving the others    *)
(* ready and apart from it, keeps the invariant.                            *)
LEMMA MovesOn ==
    ASSUME Inductive, up' = TRUE, NEW a \in Actors, NEW x \in Local, Set(a, x),
           VolumeOK(vol'), TablesOK(staged', rows', live', sess', kappa', used'),
           Ready(x, vol', staged', rows', live', sess', kappa', used'),
           \A b \in Actors : b # a =>
              Ready(req[b], vol', staged', rows', live', sess', kappa', used'),
           \A b \in Actors : b # a => Apart(x, req[b]) /\ Apart(req[b], x)
    PROVE  Inductive'
<1>1. req' \in [Actors -> Local]
  BY DEF Inductive, Set
<1>2. req'[a] = x /\ \A b \in Actors : b # a => req'[b] = req[b]
  BY DEF Inductive, Set
<1>3. \A b \in Actors : Ready(req'[b], vol', staged', rows', live', sess', kappa', used')
  <2> TAKE b \in Actors
  <2>1. CASE b = a
    BY <1>2, <2>1
  <2>2. CASE b # a
    BY <1>2, <2>2
  <2>3. QED  BY <2>1, <2>2
<1>4. \A b, c \in Actors : b # c => Apart(req'[b], req'[c])
  <2> TAKE b, c \in Actors
  <2> HAVE b # c
  <2>1. CASE b = a
    BY <1>2, <2>1
  <2>2. CASE c = a
    BY <1>2, <2>2
  <2>3. CASE b # a /\ c # a
    <3>1. Apart(req[b], req[c])
      BY DEF Inductive
    <3>2. QED  BY <1>2, <2>3, <3>1
  <2>4. QED  BY <2>1, <2>2, <2>3
<1>5. QED  BY <1>1, <1>3, <1>4 DEF Inductive

(* A request that only moves on touches no other. *)
LEMMA MovesQuietly ==
    ASSUME Inductive, up = TRUE, NEW a \in Actors, NEW x \in Local, Set(a, x),
           UNCHANGED <<vol, staged, rows, live, sess, kappa, used, up>>,
           Ready(x, vol, staged, rows, live, sess, kappa, used),
           \A b \in Actors : b # a => Apart(x, req[b]) /\ Apart(req[b], x)
    PROVE  Inductive'
<1>1. /\ VolumeOK(vol') /\ TablesOK(staged', rows', live', sess', kappa', used')
      /\ Ready(x, vol', staged', rows', live', sess', kappa', used')
      /\ \A b \in Actors : Ready(req[b], vol', staged', rows', live', sess', kappa', used')
      /\ up' = TRUE
  BY DEF Inductive
<1>2. QED  BY <1>1, MovesOn

(* An idle request is ready, and apart from every other. *)
LEMMA IdleIsReady ==
    /\ Idle \in Local
    /\ \A v, st, rw, lv, ss, kp, us : Ready(Idle, v, st, rw, lv, ss, kp, us)
    /\ \A p : Apart(Idle, p) /\ Apart(p, Idle)
<1>1. Idle \in Local
  BY EmptySeq DEF Idle, Local, NoClaim, Digest, Digests
<1>2. QED
  BY <1>1 DEF Idle, Ready, Known, Began, Appending, Holds, Committing, Apart, Beginning,
              Holding, Waiting

LEMMA EndsQuietly ==
    ASSUME Inductive, up = TRUE, NEW a \in Actors, End(a),
           UNCHANGED <<vol, staged, rows, live, sess, kappa, used, up>>
    PROVE  Inductive'
BY IdleIsReady, MovesQuietly DEF End

(* A step that neither begins nor takes an upload, nor turns to another,    *)
(* stays apart from the rest.                                               *)
LEMMA StaysApart ==
    ASSUME NEW p, NEW q, NEW x, Apart(p, q), Apart(q, p),
           x.id = q.id, x.todo \subseteq q.todo,
           Beginning(x) => Beginning(q), Holding(x) => Holding(q),
           Waiting(q) => Waiting(x)
    PROVE  Apart(x, p) /\ Apart(p, x)
BY DEF Apart

-----------------------------------------------------------------------------
(* The first state, and arrivals. *)

LEMMA Initially == Init => Inductive
<1> SUFFICES ASSUME Init PROVE Inductive
  OBVIOUS
<1>1. VolumeOK(vol)
  BY EmptyIsVolume DEF Init, VolumeOK
<1>2. TablesOK(staged, rows, live, sess, kappa, used)
  BY DEF Init, TablesOK, NoRows
<1>3. /\ req \in [Actors -> Local]
      /\ \A a \in Actors : Ready(req[a], vol, staged, rows, live, sess, kappa, used)
      /\ \A a, b \in Actors : a # b => Apart(req[a], req[b])
  BY IdleIsReady DEF Init
<1>4. QED  BY <1>1, <1>2, <1>3 DEF Inductive, Init

(* A request on an upload that was begun. *)
LEMMA RequestKeeps ==
    ASSUME Inductive, NEW a \in Requests, NEW x \in Local, Arrive(a, x),
           UNCHANGED <<durable, volatile, used>>,
           x.pc = "status", x.id \in used, x.todo = {}
    PROVE  Inductive'
<1>1. up = TRUE /\ a \in Actors /\ Set(a, x)
  BY DEF Inductive, Arrive, At, Actors
<1>2. UNCHANGED <<vol, staged, rows, live, sess, kappa, used, up>>
  BY DEF durable, volatile
<1>3. Ready(x, vol, staged, rows, live, sess, kappa, used)
  BY DEF Ready, Known, Began, Appending, Holds, Committing, Beginning, Holding
<1>4. \A p : Apart(x, p) /\ Apart(p, x)
  BY DEF Apart, Beginning, Holding, Waiting
<1>5. QED  BY <1>1, <1>2, <1>3, <1>4, MovesQuietly

(* POST: the id is new, so nobody else knows it. *)
LEMMA StartKeeps ==
    ASSUME Inductive, NEW a \in Requests, NEW id \in Ids, NEW r \in Repos,
           NEW body \in Seq(Byte), NEW claims, claims = {} \/ \E c \in Claims : claims = {c},
           Start(a, id, r, body, claims)
    PROVE  Inductive'
<1> DEFINE claim == IF claims = {} THEN NoClaim ELSE CHOOSE c \in claims : TRUE
           x == [Idle EXCEPT !.op = IF claims = {} THEN "begin" ELSE "put",
                             !.pc = "begin_row", !.id = id, !.repo = r,
                             !.body = body, !.rest = body, !.claim = claim]
<1>1. claim \in Digests
  <2>1. CASE claims = {}
    BY <2>1, EmptySeq DEF NoClaim, Digest, Digests
  <2>2. CASE claims # {}
    BY <2>2, UploadsAssumption DEF Digests
  <2>3. QED  BY <2>1, <2>2
<1>2. Arrive(a, x)
  BY DEF Start
<1> HIDE DEF claim
<1>3. x \in Local
  BY <1>1, IdleIsReady DEF Local
<1>4. x.pc = "begin_row" /\ x.id = id /\ x.repo = r /\ x.todo = {}
  BY DEF Idle
<1> HIDE DEF x
<1>5. up' = TRUE /\ a \in Actors /\ Set(a, x)
  BY <1>2 DEF Start, Inductive, Arrive, At, Actors
<1>6. /\ id \notin used /\ used' = used \cup {id}
      /\ UNCHANGED <<vol, rows, live, sess>>
      /\ DOMAIN staged' = DOMAIN staged \cup {id} /\ staged'[id] = <<>>
      /\ \A k \in DOMAIN staged : k # id => staged'[k] = staged[k]
      /\ DOMAIN kappa' = DOMAIN kappa \cup {id} /\ kappa'[id] = 0
      /\ \A k \in DOMAIN kappa : k # id => kappa'[k] = kappa[k]
  BY DEF Start, Put
<1>7. TablesOK(staged, rows, live, sess, kappa, used) /\ VolumeOK(vol)
  BY DEF Inductive
<1>8. TablesOK(staged', rows', live', sess', kappa', used')
  <2>1. <<>> \in Seq(Byte)
    BY EmptySeq
  <2>2. \A k \in DOMAIN sess : k # id /\ staged'[k] = staged[k]
    BY <1>6, <1>7 DEF TablesOK
  <2>3. ~DiskErrors => \A k \in DOMAIN sess' : sess'[k].hash \subseteq {staged'[k]}
    BY <1>6, <1>7, <2>2 DEF TablesOK
  <2>4. \A k \in DOMAIN staged' : staged'[k] \in Seq(Byte)
    BY <1>6, <1>7, <2>1 DEF TablesOK
  <2>5. QED  BY <1>6, <1>7, <2>3, <2>4 DEF TablesOK
<1>9. Ready(x, vol', staged', rows', live', sess', kappa', used')
  BY <1>4, <1>6, <1>7 DEF TablesOK, Ready, Known, Began, Appending, Holds, Committing,
                          Beginning, Holding
<1>10. ASSUME NEW b \in Actors, b # a
       PROVE  /\ Ready(req[b], vol', staged', rows', live', sess', kappa', used')
              /\ Apart(x, req[b]) /\ Apart(req[b], x)
  <2>1. Ready(req[b], vol, staged, rows, live, sess, kappa, used)
    BY DEF Inductive
  <2>2. ~Waiting(req[b]) => req[b].id # id
    BY <1>6, <2>1 DEF Ready, Known, Waiting
  <2>3. id \notin req[b].todo
    BY <1>6, <2>1 DEF Ready, Known
  <2>4. Apart(x, req[b]) /\ Apart(req[b], x)
    BY <1>4, <2>2, <2>3 DEF Apart, Beginning, Holding, Waiting
  <2>5. Ready(req[b], vol', staged', rows', live', sess', kappa', used')
    BY <1>6, <1>7, <2>1 DEF TablesOK, Ready, Known, Began, Appending, Holds, Committing,
                            Beginning, Holding
  <2>6. QED  BY <2>4, <2>5
<1>11. QED  BY <1>3, <1>5, <1>6, <1>7, <1>8, <1>9, <1>10, MovesOn

LEMMA ArrivalKeeps == Inductive /\ Arrival => Inductive'
<1> SUFFICES ASSUME Inductive, Arrival PROVE Inductive'
  OBVIOUS
<1>1. PICK a \in Requests, id \in Ids, r \in Repos :
       \/ Start(a, id, r, <<>>, {})
       \/ \E body \in Bodies, claim \in Claims : Start(a, id, r, body, {claim})
       \/ \E body \in Bodies : Patch(a, id, r, body)
       \/ \E body \in Bodies, claim \in Claims : Finish(a, id, r, body, claim)
       \/ Cancel(a, id, r)
  BY DEF Arrival
<1>2. Bodies \subseteq Seq(Byte) /\ Claims \subseteq Digests
  BY UploadsAssumption DEF Digests
<1>3. CASE Start(a, id, r, <<>>, {})
  BY <1>3, EmptySeq, StartKeeps
<1>4. ASSUME NEW body \in Bodies, NEW claim \in Claims, Start(a, id, r, body, {claim})
      PROVE  Inductive'
  BY <1>2, <1>4, StartKeeps
<1>5. ASSUME NEW body \in Bodies, Patch(a, id, r, body)
      PROVE  Inductive'
  <2> DEFINE x == [Idle EXCEPT !.op = "patch", !.pc = "status", !.id = id, !.repo = r,
                               !.body = body, !.rest = body]
  <2>1. x \in Local
    BY <1>2, IdleIsReady DEF Local
  <2>2. x.pc = "status" /\ x.id = id /\ x.todo = {}
    BY DEF Idle
  <2>3. Arrive(a, x) /\ id \in used /\ UNCHANGED <<durable, volatile, used>>
    BY <1>5 DEF Patch
  <2> HIDE DEF x
  <2>4. QED  BY <2>1, <2>2, <2>3, RequestKeeps
<1>6. ASSUME NEW body \in Bodies, NEW claim \in Claims, Finish(a, id, r, body, claim)
      PROVE  Inductive'
  <2> DEFINE x == [Idle EXCEPT !.op = "put", !.pc = "status", !.id = id, !.repo = r,
                               !.body = body, !.rest = body, !.claim = claim]
  <2>1. x \in Local
    BY <1>2, IdleIsReady DEF Local
  <2>2. x.pc = "status" /\ x.id = id /\ x.todo = {}
    BY DEF Idle
  <2>3. Arrive(a, x) /\ id \in used /\ UNCHANGED <<durable, volatile, used>>
    BY <1>6 DEF Finish
  <2> HIDE DEF x
  <2>4. QED  BY <2>1, <2>2, <2>3, RequestKeeps
<1>7. CASE Cancel(a, id, r)
  <2> DEFINE x == [Idle EXCEPT !.op = "cancel", !.pc = "status", !.id = id, !.repo = r]
  <2>1. x \in Local
    BY IdleIsReady DEF Local
  <2>2. x.pc = "status" /\ x.id = id /\ x.todo = {}
    BY DEF Idle
  <2>3. Arrive(a, x) /\ id \in used /\ UNCHANGED <<durable, volatile, used>>
    BY <1>7 DEF Cancel
  <2> HIDE DEF x
  <2>4. QED  BY <2>1, <2>2, <2>3, RequestKeeps
<1>8. QED  BY <1>1, <1>3, <1>4, <1>5, <1>6, <1>7

-----------------------------------------------------------------------------
(* The steps of a request. *)

(* What the invariant says of a request at a step. *)
LEMMA AtStep ==
    ASSUME Inductive, NEW a \in Actors, NEW pc, At(a, pc)
    PROVE  /\ up = TRUE /\ req[a] \in Local /\ req[a].pc = pc
           /\ VolumeOK(vol) /\ TablesOK(staged, rows, live, sess, kappa, used)
           /\ \A b \in Actors : Ready(req[b], vol, staged, rows, live, sess, kappa, used)
           /\ \A b \in Actors : b # a => Apart(req[a], req[b]) /\ Apart(req[b], req[a])
BY DEF Inductive, At

(* A step to another pc that begins and takes nothing. *)
LEMMA StepsQuietly ==
    ASSUME Inductive, NEW a \in Actors, NEW pc, At(a, pc),
           NEW x \in Local, Set(a, x),
           UNCHANGED <<vol, staged, rows, live, sess, kappa, used, up>>,
           Ready(x, vol, staged, rows, live, sess, kappa, used),
           x.id = req[a].id, x.todo = req[a].todo,
           Beginning(x) => Beginning(req[a]), Holding(x) => Holding(req[a]),
           Waiting(req[a]) => Waiting(x)
    PROVE  Inductive'
<1>1. up = TRUE /\ \A b \in Actors : b # a => Apart(req[a], req[b]) /\ Apart(req[b], req[a])
  BY AtStep
<1>2. \A b \in Actors : b # a => Apart(x, req[b]) /\ Apart(req[b], x)
  BY <1>1, StaysApart
<1>3. QED  BY <1>1, <1>2, MovesQuietly

LEMMA BeginRowKeeps ==
    ASSUME Inductive, NEW a \in Actors, BeginRow(a)
    PROVE  Inductive'
<1> DEFINE q == req[a]
           x == [q EXCEPT !.pc = "begin_repo"]
<1>1. At(a, "begin_row") /\ Set(a, x)
  BY DEF BeginRow, Goto
<1>2. /\ up = TRUE /\ q \in Local /\ q.pc = "begin_row"
      /\ VolumeOK(vol) /\ TablesOK(staged, rows, live, sess, kappa, used)
      /\ \A b \in Actors : Ready(req[b], vol, staged, rows, live, sess, kappa, used)
      /\ \A b \in Actors : b # a => Apart(q, req[b]) /\ Apart(req[b], q)
  BY <1>1, AtStep
<1>3. /\ x \in Local /\ x.pc = "begin_repo" /\ x.id = q.id /\ x.repo = q.repo
      /\ x.todo = q.todo
  BY <1>2 DEF Local
<1>4. /\ q.id \in used /\ q.repo \in Repos
      /\ q.id \in DOMAIN staged /\ staged[q.id] = <<>> /\ q.id \notin DOMAIN sess
  BY <1>2 DEF Ready, Known, Began, Beginning
<1>5. /\ UNCHANGED <<vol, staged, live, sess, kappa, used>> /\ up' = TRUE
      /\ rows' = Put(rows, q.id, [repo |-> q.repo, age |-> 0])
  BY <1>2 DEF BeginRow, volatile
<1> HIDE DEF x
<1>6. /\ DOMAIN rows' = DOMAIN rows \cup {q.id}
      /\ \A k \in DOMAIN rows' : rows'[k] \in [repo : Repos, age : Ages]
  <2>1. [repo |-> q.repo, age |-> 0] \in [repo : Repos, age : Ages]
    BY <1>4, AgesStay
  <2>2. QED  BY <1>2, <1>5, <2>1 DEF Put, TablesOK
<1>7. TablesOK(staged', rows', live', sess', kappa', used')
  BY <1>2, <1>4, <1>5, <1>6 DEF TablesOK
<1>8. Ready(x, vol', staged', rows', live', sess', kappa', used')
  BY <1>2, <1>3, <1>4, <1>5, <1>6 DEF Ready, Known, Began, Appending, Holds, Committing,
                                      Beginning, Holding
<1>9. \A b \in Actors : Ready(req[b], vol', staged', rows', live', sess', kappa', used')
  BY <1>2, <1>5, <1>6 DEF Ready, Began
<1>10. \A b \in Actors : b # a => Apart(x, req[b]) /\ Apart(req[b], x)
  BY <1>2, <1>3, StaysApart DEF Beginning, Holding, Waiting
<1>11. QED  BY <1>1, <1>2, <1>3, <1>5, <1>7, <1>8, <1>9, <1>10, MovesOn

LEMMA BeginRepoKeeps ==
    ASSUME Inductive, NEW a \in Actors, BeginRepo(a)
    PROVE  Inductive'
<1> DEFINE q == req[a]
           x == [q EXCEPT !.pc = "begin_session"]
<1>1. At(a, "begin_repo") /\ Set(a, x)
  BY DEF BeginRepo, Goto
<1>2. /\ up = TRUE /\ q \in Local /\ q.pc = "begin_repo"
      /\ VolumeOK(vol) /\ TablesOK(staged, rows, live, sess, kappa, used)
      /\ \A b \in Actors : Ready(req[b], vol, staged, rows, live, sess, kappa, used)
      /\ \A b \in Actors : b # a => Apart(q, req[b]) /\ Apart(req[b], q)
  BY <1>1, AtStep
<1>3. /\ x \in Local /\ x.pc = "begin_session" /\ x.id = q.id /\ x.repo = q.repo
      /\ x.todo = q.todo
  BY <1>2 DEF Local
<1>4. UNCHANGED <<staged, rows, live, sess, kappa, used>> /\ up' = TRUE
  BY <1>2 DEF BeginRepo, volatile, history
<1>5. VolumeOK(vol') /\ vol'.files = vol.files
  BY <1>2, RepoTouchKeeps DEF BeginRepo
<1> HIDE DEF x
<1>6. TablesOK(staged', rows', live', sess', kappa', used')
  BY <1>2, <1>4
<1>7. Ready(x, vol', staged', rows', live', sess', kappa', used')
  BY <1>2, <1>3, <1>4 DEF Ready, Known, Began, Appending, Holds, Committing,
                          Beginning, Holding
<1>8. \A b \in Actors : Ready(req[b], vol', staged', rows', live', sess', kappa', used')
  BY <1>2, <1>4, <1>5 DEF Ready, Committing
<1>9. \A b \in Actors : b # a => Apart(x, req[b]) /\ Apart(req[b], x)
  BY <1>2, <1>3, StaysApart DEF Beginning, Holding, Waiting
<1>10. QED  BY <1>1, <1>3, <1>4, <1>5, <1>6, <1>7, <1>8, <1>9, MovesOn

(* The id enters the map: it was in nobody else's hands. *)
LEMMA BeginSessionKeeps ==
    ASSUME Inductive, NEW a \in Actors, BeginSession(a)
    PROVE  Inductive'
<1> DEFINE q == req[a]
           x == IF q.op = "begin" THEN Idle ELSE [q EXCEPT !.pc = "frame"]
           s == [repo |-> q.repo, received |-> 0, hash |-> {<<>>},
                 age |-> rows[q.id].age, written |-> rows[q.id].age]
<1>1. At(a, "begin_session") /\ Set(a, x)
  BY DEF BeginSession, Goto, End
<1>2. /\ up = TRUE /\ q \in Local /\ q.pc = "begin_session"
      /\ VolumeOK(vol) /\ TablesOK(staged, rows, live, sess, kappa, used)
      /\ \A b \in Actors : Ready(req[b], vol, staged, rows, live, sess, kappa, used)
      /\ \A b \in Actors : b # a => Apart(q, req[b]) /\ Apart(req[b], q)
  BY <1>1, AtStep
<1>3. /\ q.id \in used /\ q.repo \in Repos /\ q.todo \subseteq used
      /\ q.id \in DOMAIN staged /\ staged[q.id] = <<>> /\ q.id \notin DOMAIN sess
      /\ q.id \in DOMAIN rows
  BY <1>2 DEF Ready, Known, Began, Beginning
<1>4. s \in Session /\ s.hash = {<<>>}
  <2>1. rows[q.id].age \in Ages
    BY <1>2, <1>3 DEF TablesOK
  <2>2. {<<>>} \in SUBSET Seq(Byte)
    BY EmptySeq
  <2>3. QED  BY <1>3, <2>1, <2>2 DEF Session
<1>5. /\ UNCHANGED <<vol, staged, rows, kappa, used>> /\ up' = TRUE
      /\ sess' = Put(sess, q.id, s) /\ live' = live \cup {q.id}
  BY <1>2 DEF BeginSession, durable, history
<1> HIDE DEF s
<1>6. /\ DOMAIN sess' = DOMAIN sess \cup {q.id} /\ sess'[q.id] = s
      /\ \A k \in DOMAIN sess : sess'[k] = sess[k]
  BY <1>3, <1>5 DEF Put
<1>7. x \in Local
  <2>1. [q EXCEPT !.pc = "frame"] \in Local
    BY <1>2 DEF Local
  <2>2. QED  BY <2>1, IdleIsReady
<1>8. \/ x = Idle
      \/ x.pc = "frame" /\ x.id = q.id /\ x.todo = q.todo
  BY <1>2 DEF Local
<1> HIDE DEF x
<1>9. TablesOK(staged', rows', live', sess', kappa', used')
  <2>1. ~DiskErrors => \A k \in DOMAIN sess' : sess'[k].hash \subseteq {staged'[k]}
    BY <1>2, <1>3, <1>4, <1>5, <1>6 DEF TablesOK
  <2>2. \A k \in DOMAIN sess' : sess'[k] \in Session
    BY <1>2, <1>4, <1>6 DEF TablesOK
  <2>3. QED  BY <1>2, <1>3, <1>5, <1>6, <2>1, <2>2 DEF TablesOK
<1>10. Ready(x, vol', staged', rows', live', sess', kappa', used')
  <2>1. CASE x = Idle
    BY <2>1, IdleIsReady
  <2>2. CASE x.pc = "frame" /\ x.id = q.id /\ x.todo = q.todo
    BY <1>3, <1>5, <2>2 DEF Ready, Known, Began, Appending, Holds, Committing,
                            Beginning, Holding
  <2>3. QED  BY <1>8, <2>1, <2>2
<1>11. ASSUME NEW b \in Actors, b # a
       PROVE  Ready(req[b], vol', staged', rows', live', sess', kappa', used')
  <2>1. Apart(q, req[b]) /\ Apart(req[b], q)
        /\ Ready(req[b], vol, staged, rows, live, sess, kappa, used)
    BY <1>2, <1>11
  <2>2. Beginning(req[b]) \/ Holding(req[b]) => req[b].id # q.id
    BY <1>2, <2>1 DEF Apart, Beginning, Holding, Waiting
  <2>3. QED  BY <1>5, <1>6, <2>1, <2>2 DEF Ready, Known, Began, Appending, Holds, Committing,
                                           Beginning
<1>12. \A b \in Actors : b # a => Apart(x, req[b]) /\ Apart(req[b], x)
  <2>1. CASE x = Idle
    BY <2>1, IdleIsReady
  <2>2. CASE x.pc = "frame" /\ x.id = q.id /\ x.todo = q.todo
    BY <1>2, <2>2, StaysApart DEF Beginning, Holding, Waiting
  <2>3. QED  BY <1>8, <2>1, <2>2
<1>13. VolumeOK(vol')
  BY <1>2, <1>5
<1>14. QED  BY <1>1, <1>5, <1>7, <1>9, <1>10, <1>11, <1>12, <1>13, MovesOn

(* A session found in the map is not one that is being begun. *)
LEMMA StatusKeeps ==
    ASSUME Inductive, NEW a \in Actors, Status(a)
    PROVE  Inductive'
<1> DEFINE q == req[a]
           s == sess[q.id]
           x == [q EXCEPT !.from = s.received, !.at = s.received,
                          !.pc = IF q.op = "cancel" THEN "remove" ELSE "frame"]
<1>1. At(a, "status") /\ UNCHANGED <<vol, staged, rows, live, sess, kappa, used, up>>
  BY DEF Status, durable, volatile, history
<1>2. /\ up = TRUE /\ q \in Local /\ q.pc = "status"
      /\ VolumeOK(vol) /\ TablesOK(staged, rows, live, sess, kappa, used)
      /\ \A b \in Actors : Ready(req[b], vol, staged, rows, live, sess, kappa, used)
      /\ \A b \in Actors : b # a => Apart(q, req[b]) /\ Apart(req[b], q)
  BY <1>1, AtStep
<1>3. CASE ~(q.id \in live /\ sess[q.id].repo = q.repo)
  <2>1. End(a)
    BY <1>3 DEF Status
  <2>2. QED  BY <1>1, <1>2, <2>1, EndsQuietly
<1>4. CASE q.id \in live /\ sess[q.id].repo = q.repo
  <2>1. Set(a, x)
    BY <1>4 DEF Status
  <2>2. q.id \in DOMAIN sess /\ s.received \in Nat
    BY <1>2, <1>4 DEF TablesOK, Session
  <2>3. x \in Local
    BY <1>2, <2>2 DEF Local
  <2>4. x.pc \in {"remove", "frame"} /\ x.id = q.id /\ x.todo = q.todo
    BY <1>2 DEF Local
  <2> HIDE DEF x
  <2>5. Ready(x, vol, staged, rows, live, sess, kappa, used)
    BY <1>2, <2>4 DEF Ready, Known, Began, Appending, Holds, Committing, Beginning, Holding
  <2>6. ASSUME NEW b \in Actors, b # a
        PROVE  Apart(x, req[b]) /\ Apart(req[b], x)
    <3>1. Beginning(req[b]) => req[b].id # q.id /\ req[b].id \notin q.todo
      BY <1>2, <2>2, <2>6 DEF Ready, Began, Apart
    <3>2. QED  BY <2>4, <3>1 DEF Apart, Beginning, Holding
  <2>7. QED  BY <1>1, <1>2, <2>1, <2>3, <2>5, <2>6, MovesQuietly
<1>5. QED  BY <1>3, <1>4

LEMMA StreamingKeeps ==
    ASSUME Inductive, NEW a \in Actors,
           RangeRefused(a) \/ ClientGone(a) \/ Frame(a) \/ BodyEnds(a)
    PROVE  Inductive'
<1> DEFINE q == req[a]
<1>1. CASE RangeRefused(a)
  <2>1. /\ At(a, "status") /\ End(a)
        /\ UNCHANGED <<vol, staged, rows, live, sess, kappa, used, up>>
    BY <1>1 DEF RangeRefused, durable, volatile, history
  <2>2. QED  BY <2>1, AtStep, EndsQuietly
<1>2. CASE ClientGone(a)
  <2>1. /\ At(a, "frame") /\ End(a)
        /\ UNCHANGED <<vol, staged, rows, live, sess, kappa, used, up>>
    BY <1>2 DEF ClientGone, durable, volatile, history
  <2>2. QED  BY <2>1, AtStep, EndsQuietly
<1>3. CASE Frame(a)
  <2> DEFINE x == [q EXCEPT !.pc = "append"]
  <2>1. At(a, "frame") /\ UNCHANGED <<vol, staged, rows, live, sess, kappa, used, up>>
    BY <1>3 DEF Frame, durable, volatile, history
  <2>2. /\ up = TRUE /\ q \in Local /\ q.pc = "frame"
        /\ TablesOK(staged, rows, live, sess, kappa, used)
        /\ Ready(q, vol, staged, rows, live, sess, kappa, used)
    BY <2>1, AtStep
  <2>3. CASE q.id \notin live
    <3>1. End(a)
      BY <1>3, <2>3 DEF Frame
    <3>2. QED  BY <2>1, <2>2, <3>1, EndsQuietly
  <2>4. CASE q.id \in live
    <3>1. Set(a, x)
      BY <1>3, <2>4 DEF Frame, Goto
    <3>2. x \in Local /\ x.pc = "append" /\ x.id = q.id /\ x.todo = q.todo
      BY <2>2 DEF Local
    <3> HIDE DEF x
    <3>3. Ready(x, vol, staged, rows, live, sess, kappa, used)
      BY <2>2, <2>4, <3>2 DEF TablesOK, Ready, Known, Began, Appending, Holds, Committing,
                              Beginning, Holding
    <3>4. /\ Beginning(x) => Beginning(q)
          /\ Holding(x) => Holding(q)
          /\ Waiting(q) => Waiting(x)
      BY <2>2, <3>2 DEF Beginning, Holding, Waiting
    <3>5. QED  BY <2>1, <3>1, <3>2, <3>3, <3>4, StepsQuietly
  <2>5. QED  BY <2>3, <2>4
<1>4. CASE BodyEnds(a)
  <2> DEFINE x == [q EXCEPT !.pc = "remove"]
  <2>1. At(a, "frame") /\ UNCHANGED <<vol, staged, rows, live, sess, kappa, used, up>>
    BY <1>4 DEF BodyEnds, durable, volatile, history
  <2>2. /\ up = TRUE /\ q \in Local /\ q.pc = "frame"
        /\ TablesOK(staged, rows, live, sess, kappa, used)
        /\ Ready(q, vol, staged, rows, live, sess, kappa, used)
    BY <2>1, AtStep
  <2>3. CASE q.op # "put"
    <3>1. End(a)
      BY <1>4, <2>3 DEF BodyEnds
    <3>2. QED  BY <2>1, <2>2, <3>1, EndsQuietly
  <2>4. CASE q.op = "put"
    <3>1. Set(a, x)
      BY <1>4, <2>4 DEF BodyEnds, Goto
    <3>2. x \in Local /\ x.pc = "remove" /\ x.id = q.id /\ x.todo = q.todo
      BY <2>2 DEF Local
    <3> HIDE DEF x
    <3>3. Ready(x, vol, staged, rows, live, sess, kappa, used)
      BY <2>2, <3>2 DEF Ready, Known, Began, Appending, Holds, Committing, Beginning, Holding
    <3>4. /\ Beginning(x) => Beginning(q)
          /\ Holding(x) => Holding(q)
          /\ Waiting(q) => Waiting(x)
      BY <2>2, <3>2 DEF Beginning, Holding, Waiting
    <3>5. QED  BY <2>1, <3>1, <3>2, <3>3, <3>4, StepsQuietly
  <2>5. QED  BY <2>3, <2>4
<1>5. QED  BY <1>1, <1>2, <1>3, <1>4

(* The frame goes to the staging file and to the running hash alike. *)
LEMMA AppendFrameKeeps ==
    ASSUME Inductive, NEW a \in Actors, AppendFrame(a)
    PROVE  Inductive'
<1> DEFINE q == req[a]
           id == q.id
           frame == NextFrame(q.rest)
           total == q.at + Len(frame)
           x == [q EXCEPT !.pc = "frame", !.at = total, !.rest = AfterFrame(q.rest)]
<1>1. At(a, "append") /\ UNCHANGED <<vol, live, used, up>>
  BY DEF AppendFrame
<1>2. /\ up = TRUE /\ q \in Local /\ q.pc = "append"
      /\ VolumeOK(vol) /\ TablesOK(staged, rows, live, sess, kappa, used)
      /\ \A b \in Actors : Ready(req[b], vol, staged, rows, live, sess, kappa, used)
      /\ \A b \in Actors : b # a => Apart(q, req[b]) /\ Apart(req[b], q)
  BY <1>1, AtStep
<1>3. CASE ~AppendAccepted(a)
  <2>1. End(a) /\ UNCHANGED <<staged, kappa, sess, rows>>
    BY <1>3 DEF AppendFrame
  <2>2. QED  BY <1>1, <1>2, <2>1, EndsQuietly
<1>4. CASE AppendAccepted(a)
  <2>1. id \in DOMAIN kappa /\ id \in DOMAIN sess /\ id \in DOMAIN staged /\ id \in used
    BY <1>2, <1>4 DEF AppendAccepted, Ready, Appending, Known, TablesOK
  <2>2. /\ q.rest \in Seq(Byte) /\ q.at \in Nat
        /\ frame \in Seq(Byte) /\ Len(frame) \in Nat /\ AfterFrame(q.rest) \in Seq(Byte)
    BY <1>2, FramesAreBytes DEF Local
  <2>3. total \in Nat
    BY <2>2
  <2>4. Set(a, x)
    BY <1>4 DEF AppendFrame
  <2>5. x \in Local /\ x.pc = "frame" /\ x.id = id /\ x.todo = q.todo
    BY <1>2, <2>2, <2>3 DEF Local
  <2> DEFINE s == Appended(sess[id], frame, total, RowDue(id))
             row == [repo |-> sess[id].repo, age |-> 0]
  <2>6. /\ staged' = [staged EXCEPT ![id] = @ \o frame]
        /\ kappa' = [kappa EXCEPT ![id] = total]
        /\ sess' = [sess EXCEPT ![id] = s]
        /\ rows' = IF RowDue(id) THEN Put(rows, id, row) ELSE rows
    BY <1>4 DEF AppendFrame
  <2> HIDE DEF frame, total, x
  <2>7. s \in Session /\ s.hash = {bytes \o frame : bytes \in sess[id].hash}
    <3>1. sess[id] \in Session
      BY <1>2, <2>1 DEF TablesOK
    <3>2. \A bytes \in sess[id].hash : bytes \o frame \in Seq(Byte)
      BY <2>2, <3>1, ConcatProperties DEF Session
    <3>3. {bytes \o frame : bytes \in sess[id].hash} \in SUBSET Seq(Byte)
      BY <3>2
    <3>4. QED  BY <2>3, <3>1, <3>3, AgesStay DEF Session, Appended
  <2>8. row \in [repo : Repos, age : Ages]
    BY <1>2, <2>1, AgesStay DEF TablesOK, Session
  <2> HIDE DEF s, row
  <2>9. /\ DOMAIN staged' = DOMAIN staged /\ DOMAIN kappa' = DOMAIN kappa
        /\ DOMAIN sess' = DOMAIN sess /\ DOMAIN rows' \subseteq DOMAIN rows \cup {id}
        /\ DOMAIN rows \subseteq DOMAIN rows'
        /\ sess'[id] = s /\ \A k \in DOMAIN sess : k # id => sess'[k] = sess[k]
        /\ staged'[id] = staged[id] \o frame
        /\ \A k \in DOMAIN staged : k # id => staged'[k] = staged[k]
    BY <2>1, <2>6 DEF Put
  <2>10. \A k \in DOMAIN rows' : rows'[k] \in [repo : Repos, age : Ages]
    BY <1>2, <2>6, <2>8 DEF Put, TablesOK
  <2>11. \A k \in DOMAIN staged' : staged'[k] \in Seq(Byte)
    <3>1. staged[id] \o frame \in Seq(Byte)
      BY <1>2, <2>1, <2>2, ConcatProperties DEF TablesOK
    <3>2. QED  BY <1>2, <2>9, <3>1 DEF TablesOK
  <2>12. \A k \in DOMAIN kappa' : kappa'[k] \in Nat
    BY <1>2, <2>3, <2>6 DEF TablesOK
  <2>13. ~DiskErrors => \A k \in DOMAIN sess' : sess'[k].hash \subseteq {staged'[k]}
    <3>1. ASSUME ~DiskErrors PROVE s.hash \subseteq {staged'[id]}
      <4>1. sess[id].hash \subseteq {staged[id]}
        BY <1>2, <2>1, <3>1 DEF TablesOK
      <4>2. QED  BY <2>7, <2>9, <4>1
    <3>2. QED  BY <1>2, <2>9, <3>1 DEF TablesOK
  <2>14. TablesOK(staged', rows', live', sess', kappa', used')
    <3>1. \A k \in DOMAIN sess' : sess'[k] \in Session
      BY <1>2, <2>7, <2>9 DEF TablesOK
    <3>2. QED
      BY <1>1, <1>2, <2>1, <2>9, <2>10, <2>11, <2>12, <2>13, <3>1 DEF TablesOK
  <2>15. Ready(x, vol', staged', rows', live', sess', kappa', used')
    BY <1>1, <1>2, <2>5 DEF Ready, Known, Began, Appending, Holds, Committing, Beginning, Holding
  <2>16. ASSUME NEW b \in Actors, b # a
         PROVE  Ready(req[b], vol', staged', rows', live', sess', kappa', used')
    <3>1. Apart(req[b], q) /\ Ready(req[b], vol, staged, rows, live, sess, kappa, used)
      BY <1>2, <2>16
    <3>2. Beginning(req[b]) => req[b].id # id
      BY <1>2, <3>1 DEF Apart, Waiting
    <3>3. Began(req[b], staged', rows', sess')
      BY <2>9, <3>1, <3>2 DEF Ready, Began, Beginning
    <3>4. QED  BY <1>1, <2>9, <3>1, <3>3 DEF Ready, Appending, Holds
  <2>17. \A b \in Actors : b # a => Apart(x, req[b]) /\ Apart(req[b], x)
    BY <1>2, <2>5, StaysApart DEF Beginning, Holding, Waiting
  <2>18. VolumeOK(vol') /\ up' = TRUE
    BY <1>1, <1>2
  <2>19. QED  BY <2>4, <2>5, <2>14, <2>15, <2>16, <2>17, <2>18, MovesOn
<1>5. QED  BY <1>3, <1>4

(* A write that fails leaves bytes the hash has not seen: with a disk that  *)
(* fails nothing is claimed of the hash.                                    *)
LEMMA AppendFrameFailsKeeps ==
    ASSUME Inductive, NEW a \in Actors, AppendFrameFails(a)
    PROVE  Inductive'
<1> DEFINE q == req[a]
           id == q.id
           frame == NextFrame(q.rest)
<1>1. /\ At(a, "append") /\ Set(a, Idle) /\ DiskErrors
      /\ UNCHANGED <<vol, rows, live, sess, kappa, used, up>>
  BY DEF AppendFrameFails, End, volatile, history
<1>2. /\ up = TRUE /\ q \in Local /\ q.pc = "append"
      /\ VolumeOK(vol) /\ TablesOK(staged, rows, live, sess, kappa, used)
      /\ \A b \in Actors : Ready(req[b], vol, staged, rows, live, sess, kappa, used)
      /\ \A b \in Actors : b # a => Apart(q, req[b]) /\ Apart(req[b], q)
  BY <1>1, AtStep
<1>3. id \in DOMAIN staged
  BY <1>2 DEF AppendFrameFails, AppendAccepted, Ready, Appending, TablesOK
<1>4. PICK n \in 0 .. Len(frame) - 1 :
         staged' = [staged EXCEPT ![id] = @ \o SubSeq(frame, 1, n)]
  BY DEF AppendFrameFails
<1> DEFINE part == SubSeq(frame, 1, n)
<1>5. part \in Seq(Byte)
  <2>1. q.rest \in Seq(Byte) /\ Len(frame) \in Nat
    BY <1>2, FramesAreBytes DEF Local
  <2>2. n \in Nat /\ n <= Len(frame)
    BY <1>4, <2>1
  <2>3. QED  BY <2>1, <2>2, FramePartsAreBytes
<1>6. staged' = [staged EXCEPT ![id] = staged[id] \o part]
  BY <1>4
<1> HIDE DEF part
<1>7. /\ DOMAIN staged' = DOMAIN staged /\ staged'[id] = staged[id] \o part
      /\ \A k \in DOMAIN staged : k # id => staged'[k] = staged[k]
  BY <1>3, <1>6
<1>8. TablesOK(staged', rows', live', sess', kappa', used')
  <2>1. staged[id] \o part \in Seq(Byte)
    BY <1>2, <1>3, <1>5, ConcatProperties DEF TablesOK
  <2>2. \A k \in DOMAIN staged' : staged'[k] \in Seq(Byte)
    BY <1>2, <1>7, <2>1 DEF TablesOK
  <2>3. QED  BY <1>1, <1>2, <1>7, <2>2 DEF TablesOK
<1>9. ASSUME NEW b \in Actors, b # a
      PROVE  Ready(req[b], vol', staged', rows', live', sess', kappa', used')
  <2>1. Apart(req[b], q) /\ Ready(req[b], vol, staged, rows, live, sess, kappa, used)
    BY <1>2, <1>9
  <2>2. Beginning(req[b]) => req[b].id # id
    BY <1>2, <2>1 DEF Apart, Waiting
  <2>3. Began(req[b], staged', rows', sess')
    BY <1>1, <1>7, <2>1, <2>2 DEF Ready, Began, Beginning
  <2>4. QED  BY <1>1, <2>1, <2>3 DEF Ready
<1>10. VolumeOK(vol') /\ up' = TRUE
  BY <1>1, <1>2
<1>11. QED  BY <1>1, <1>8, <1>9, <1>10, IdleIsReady, MovesOn

(* Of those that race for a session, one takes it from the map: whoever     *)
(* holds another has another id, for what is held is not in the map.        *)
LEMMA RemoveKeeps ==
    ASSUME Inductive, NEW a \in Actors, Remove(a)
    PROVE  Inductive'
<1> DEFINE q == req[a]
<1>1. At(a, "remove") /\ UNCHANGED <<vol, staged, rows, sess, kappa, used, up>>
  BY DEF Remove, durable, history
<1>2. /\ up = TRUE /\ q \in Local /\ q.pc = "remove"
      /\ VolumeOK(vol) /\ TablesOK(staged, rows, live, sess, kappa, used)
      /\ \A b \in Actors : Ready(req[b], vol, staged, rows, live, sess, kappa, used)
      /\ \A b \in Actors : b # a => Apart(q, req[b]) /\ Apart(req[b], q)
  BY <1>1, AtStep
<1>3. q.id \in used /\ q.todo \subseteq used
  BY <1>2 DEF Ready, Known
<1>4. CASE q.id \in live
  <2> DEFINE x == [q EXCEPT !.pc = IF q.op = "put" THEN "complete" ELSE "abort"]
  <2>1. live' = live \ {q.id} /\ Set(a, x)
    BY <1>4 DEF Remove, Goto
  <2>2. /\ x \in Local /\ x.pc \in {"complete", "abort"} /\ x.id = q.id
        /\ x.todo = q.todo
    BY <1>2 DEF Local
  <2> HIDE DEF x
  <2>3. TablesOK(staged', rows', live', sess', kappa', used')
    BY <1>1, <1>2, <2>1 DEF TablesOK
  <2>4. Ready(x, vol', staged', rows', live', sess', kappa', used')
    BY <1>1, <1>2, <1>3, <1>4, <2>1, <2>2 DEF TablesOK, Ready, Known, Began, Appending,
                                              Holds, Committing, Beginning
  <2>5. \A b \in Actors : Ready(req[b], vol', staged', rows', live', sess', kappa', used')
    BY <1>1, <1>2, <2>1 DEF Ready, Holds
  <2>6. ASSUME NEW b \in Actors, b # a
        PROVE  Apart(x, req[b]) /\ Apart(req[b], x)
    <3>1. Holding(req[b]) => req[b].id # q.id
      BY <1>2, <1>4 DEF Ready, Holds
    <3>2. Beginning(req[b]) => req[b].id # q.id /\ req[b].id \notin q.todo
      BY <1>2, <2>6 DEF Apart, Waiting
    <3>3. QED  BY <2>2, <3>1, <3>2 DEF Apart, Beginning, Holding
  <2>7. VolumeOK(vol') /\ up' = TRUE
    BY <1>1, <1>2
  <2>8. QED  BY <2>1, <2>2, <2>3, <2>4, <2>5, <2>6, <2>7, MovesOn
<1>5. CASE q.id \notin live /\ q.op = "put"
  <2>1. End(a) /\ UNCHANGED live
    BY <1>5 DEF Remove
  <2>2. QED  BY <1>1, <1>2, <2>1, EndsQuietly
<1>6. CASE q.id \notin live /\ q.op # "put"
  <2> DEFINE x == [q EXCEPT !.pc = "row_delete"]
  <2>1. Set(a, x) /\ UNCHANGED live
    BY <1>6 DEF Remove, Goto
  <2>2. x \in Local /\ x.pc = "row_delete" /\ x.id = q.id /\ x.todo = q.todo
    BY <1>2 DEF Local
  <2> HIDE DEF x
  <2>3. Ready(x, vol, staged, rows, live, sess, kappa, used)
    BY <1>3, <2>2 DEF Ready, Known, Began, Appending, Holds, Committing, Beginning, Holding
  <2>4. /\ Beginning(x) => Beginning(q)
        /\ Holding(x) => Holding(q)
        /\ Waiting(q) => Waiting(x)
    BY <1>2, <2>2 DEF Beginning, Holding, Waiting
  <2>5. QED  BY <1>1, <2>1, <2>2, <2>3, <2>4, StepsQuietly
<1>7. QED  BY <1>4, <1>5, <1>6

(* The holder of an upload drops it, with or without its file: no other     *)
(* request relied on it.                                                    *)
LEMMA DropsHeld ==
    ASSUME Inductive, NEW a \in Actors, Holding(req[a]),
           VolumeOK(vol'), DOMAIN vol.files \subseteq DOMAIN vol'.files,
           UNCHANGED <<rows, live, used>>,
           kappa' = Drop(kappa, {req[a].id}), sess' = Drop(sess, {req[a].id}),
           staged' = staged \/ staged' = Drop(staged, {req[a].id})
    PROVE  /\ TablesOK(staged', rows', live', sess', kappa', used')
           /\ \A b \in Actors : b # a =>
                 Ready(req[b], vol', staged', rows', live', sess', kappa', used')
<1> DEFINE id == req[a].id
<1>1. /\ TablesOK(staged, rows, live, sess, kappa, used)
      /\ \A b \in Actors : Ready(req[b], vol, staged, rows, live, sess, kappa, used)
      /\ \A b \in Actors : b # a => Apart(req[a], req[b])
  BY DEF Inductive
<1>2. id \in DOMAIN sess /\ id \notin live
  BY <1>1 DEF Ready, Holds
<1>3. /\ DOMAIN kappa' = DOMAIN kappa \ {id} /\ \A k \in DOMAIN kappa' : kappa'[k] = kappa[k]
      /\ DOMAIN sess' = DOMAIN sess \ {id} /\ \A k \in DOMAIN sess' : sess'[k] = sess[k]
  BY DEF Drop
<1>4. /\ DOMAIN staged' \subseteq DOMAIN staged /\ DOMAIN staged \ {id} \subseteq DOMAIN staged'
      /\ \A k \in DOMAIN staged' : staged'[k] = staged[k]
  BY DEF Drop
<1>5. TablesOK(staged', rows', live', sess', kappa', used')
  <2>1. live' \subseteq DOMAIN sess' /\ DOMAIN sess' \subseteq DOMAIN staged'
    BY <1>1, <1>2, <1>3, <1>4 DEF TablesOK
  <2>2. ~DiskErrors => \A k \in DOMAIN sess' : sess'[k].hash \subseteq {staged'[k]}
    BY <1>1, <1>3, <1>4, <2>1 DEF TablesOK
  <2>3. QED  BY <1>1, <1>3, <1>4, <2>1, <2>2 DEF TablesOK
<1>6. ASSUME NEW b \in Actors, b # a
      PROVE  Ready(req[b], vol', staged', rows', live', sess', kappa', used')
  <2>1. Apart(req[a], req[b]) /\ Ready(req[b], vol, staged, rows, live, sess, kappa, used)
    BY <1>1, <1>6
  <2>2. Began(req[b], staged', rows', sess')
    BY <1>2, <1>3, <1>4, <2>1 DEF Ready, Began, Beginning
  <2>3. Appending(req[b], sess', kappa')
    BY <1>3, <2>1 DEF Ready, Appending
  <2>4. Holds(req[b], live', sess')
    BY <1>3, <2>1 DEF Ready, Holds, Apart
  <2>5. Committing(req[b], vol')
    BY <2>1 DEF Ready, Committing
  <2>6. QED  BY <2>1, <2>2, <2>3, <2>4, <2>5 DEF Ready
<1>7. QED  BY <1>5, <1>6

(* The bytes are stored only under the claim they hash to. *)
LEMMA CompleteStepKeeps ==
    ASSUME Inductive, NEW a \in Actors, Complete(a)
    PROVE  Inductive'
<1> DEFINE q == req[a]
           id == q.id
           s == sess[id]
           x == [q EXCEPT !.newly = NewlyStored(vol, q.claim), !.hash = s.hash,
                          !.repo = s.repo,
                          !.pc = IF NeedsHardLink(q.claim) THEN "hard_link" ELSE "commit"]
           y == [q EXCEPT !.pc = "row_delete"]
<1>1. /\ At(a, "complete") /\ UNCHANGED <<rows, live, used, up>>
      /\ kappa' = Drop(kappa, {id}) /\ sess' = Drop(sess, {id})
      /\ staged' = Drop(staged, {id})
  BY DEF Complete, history
<1>2. /\ up = TRUE /\ q \in Local /\ q.pc = "complete"
      /\ VolumeOK(vol) /\ TablesOK(staged, rows, live, sess, kappa, used)
      /\ \A b \in Actors : Ready(req[b], vol, staged, rows, live, sess, kappa, used)
      /\ \A b \in Actors : b # a => Apart(q, req[b]) /\ Apart(req[b], q)
  BY <1>1, AtStep
<1>3. /\ id \in used /\ q.todo \subseteq used /\ id \in DOMAIN sess /\ s \in Session
      /\ Holding(q) /\ q.claim \in Digests
  BY <1>2 DEF Ready, Known, Holds, Holding, TablesOK, Local
<1>4. CASE staged[id] = q.claim.of
  <2>1. vol' = StoreFile(vol, q.claim, q.claim.of) /\ Set(a, x)
    BY <1>4 DEF Complete
  <2>2. /\ VolumeOK(vol') /\ q.claim \in DOMAIN vol'.files
        /\ DOMAIN vol.files \subseteq DOMAIN vol'.files
    BY <1>2, <1>3, <2>1, StoreKeeps
  <2>3. x \in Local
    <3>1. s.repo \in Repos /\ s.hash \in SUBSET Seq(Byte)
      BY <1>3 DEF Session
    <3>2. NewlyStored(vol, q.claim) \in BOOLEAN
      BY DEF NewlyStored
    <3> HIDE DEF s
    <3>3. QED  BY <1>2, <3>1, <3>2 DEF Local
  <2>4. /\ x.pc \in {"hard_link", "commit"} /\ x.id = id /\ x.todo = q.todo
        /\ x.repo = s.repo /\ x.hash = s.hash /\ x.claim = q.claim
    BY <1>2 DEF Local
  <2>5. s.repo \in Repos
    BY <1>3 DEF Session
  <2>6. ~DiskErrors => s.hash \subseteq {q.claim.of}
    BY <1>2, <1>3, <1>4 DEF TablesOK
  <2> HIDE DEF x, s
  <2>7. Ready(x, vol', staged', rows', live', sess', kappa', used')
    <3>1. Committing(x, vol')
      BY <2>2, <2>4, <2>5, <2>6 DEF Committing
    <3>2. QED  BY <1>1, <1>3, <2>4, <3>1 DEF Ready, Known, Began, Appending, Holds,
                                             Beginning, Holding
  <2>8. /\ TablesOK(staged', rows', live', sess', kappa', used')
        /\ \A b \in Actors : b # a =>
              Ready(req[b], vol', staged', rows', live', sess', kappa', used')
    BY <1>1, <1>3, <2>2, DropsHeld
  <2>9. \A b \in Actors : b # a => Apart(x, req[b]) /\ Apart(req[b], x)
    BY <1>2, <2>4, StaysApart DEF Beginning, Holding, Waiting
  <2>10. up' = TRUE
    BY <1>1, <1>2
  <2>11. QED  BY <2>1, <2>2, <2>3, <2>7, <2>8, <2>9, <2>10, MovesOn
<1>5. CASE staged[id] # q.claim.of
  <2>1. UNCHANGED vol /\ Set(a, y)
    BY <1>5 DEF Complete, Goto
  <2>2. y \in Local /\ y.pc = "row_delete" /\ y.id = id /\ y.todo = q.todo
    BY <1>2 DEF Local
  <2> HIDE DEF y
  <2>3. Ready(y, vol', staged', rows', live', sess', kappa', used')
    BY <1>1, <1>3, <2>2 DEF Ready, Known, Began, Appending, Holds, Committing,
                            Beginning, Holding
  <2>4. VolumeOK(vol') /\ DOMAIN vol.files \subseteq DOMAIN vol'.files /\ up' = TRUE
    BY <1>1, <1>2, <2>1
  <2>5. /\ TablesOK(staged', rows', live', sess', kappa', used')
        /\ \A b \in Actors : b # a =>
              Ready(req[b], vol', staged', rows', live', sess', kappa', used')
    BY <1>1, <1>3, <2>4, DropsHeld
  <2>6. \A b \in Actors : b # a => Apart(y, req[b]) /\ Apart(req[b], y)
    BY <1>2, <2>2, StaysApart DEF Beginning, Holding, Waiting
  <2>7. QED  BY <2>1, <2>2, <2>3, <2>4, <2>5, <2>6, MovesOn
<1>6. QED  BY <1>4, <1>5

LEMMA CompleteFailsKeeps ==
    ASSUME Inductive, NEW a \in Actors, CompleteFails(a)
    PROVE  Inductive'
<1>1. /\ At(a, "complete") /\ UNCHANGED <<vol, staged, rows, live, used, up>>
      /\ kappa' = Drop(kappa, {req[a].id}) /\ sess' = Drop(sess, {req[a].id})
      /\ Set(a, Idle)
  BY DEF CompleteFails, End, durable, history
<1>2. up = TRUE /\ req[a].pc = "complete" /\ VolumeOK(vol)
  BY <1>1, AtStep
<1>3. VolumeOK(vol') /\ DOMAIN vol.files \subseteq DOMAIN vol'.files /\ up' = TRUE
  BY <1>1, <1>2
<1>4. /\ TablesOK(staged', rows', live', sess', kappa', used')
      /\ \A b \in Actors : b # a =>
            Ready(req[b], vol', staged', rows', live', sess', kappa', used')
  BY <1>1, <1>2, <1>3, DropsHeld DEF Holding
<1>5. QED  BY <1>1, <1>3, <1>4, IdleIsReady, MovesOn

LEMMA AbortKeeps ==
    ASSUME Inductive, NEW a \in Actors, Abort(a)
    PROVE  Inductive'
<1> DEFINE q == req[a]
           x == [q EXCEPT !.pc = "row_delete"]
<1>1. /\ At(a, "abort") /\ UNCHANGED <<vol, rows, live, used, up>>
      /\ kappa' = Drop(kappa, {q.id}) /\ sess' = Drop(sess, {q.id})
      /\ staged' = Drop(staged, {q.id})
      /\ Set(a, x)
  BY DEF Abort, Goto, history
<1>2. /\ up = TRUE /\ q \in Local /\ q.pc = "abort" /\ VolumeOK(vol)
      /\ \A b \in Actors : Ready(req[b], vol, staged, rows, live, sess, kappa, used)
      /\ \A b \in Actors : b # a => Apart(q, req[b]) /\ Apart(req[b], q)
  BY <1>1, AtStep
<1>3. VolumeOK(vol') /\ DOMAIN vol.files \subseteq DOMAIN vol'.files /\ up' = TRUE
  BY <1>1, <1>2
<1>4. /\ TablesOK(staged', rows', live', sess', kappa', used')
      /\ \A b \in Actors : b # a =>
            Ready(req[b], vol', staged', rows', live', sess', kappa', used')
  BY <1>1, <1>2, <1>3, DropsHeld DEF Holding
<1>5. x \in Local /\ x.pc = "row_delete" /\ x.id = q.id /\ x.todo = q.todo
  BY <1>2 DEF Local
<1> HIDE DEF x
<1>6. Ready(x, vol', staged', rows', live', sess', kappa', used')
  BY <1>1, <1>2, <1>5 DEF Ready, Known, Began, Appending, Holds, Committing,
                          Beginning, Holding
<1>7. \A b \in Actors : b # a => Apart(x, req[b]) /\ Apart(req[b], x)
  BY <1>2, <1>5, StaysApart DEF Beginning, Holding, Waiting
<1>8. QED  BY <1>1, <1>3, <1>4, <1>5, <1>6, <1>7, MovesOn

LEMMA HardLinkStepKeeps ==
    ASSUME Inductive, NEW a \in Actors, HardLink(a)
    PROVE  Inductive'
<1> DEFINE q == req[a]
           x == [q EXCEPT !.pc = "commit"]
<1>1. /\ At(a, "hard_link") /\ Set(a, x)
      /\ UNCHANGED <<staged, rows, live, sess, kappa, used, up>>
  BY DEF HardLink, Goto, volatile, history
<1>2. /\ up = TRUE /\ q \in Local /\ q.pc = "hard_link" /\ VolumeOK(vol)
      /\ TablesOK(staged, rows, live, sess, kappa, used)
      /\ \A b \in Actors : Ready(req[b], vol, staged, rows, live, sess, kappa, used)
      /\ \A b \in Actors : b # a => Apart(q, req[b]) /\ Apart(req[b], q)
  BY <1>1, AtStep
<1>3. /\ x \in Local /\ x.pc = "commit" /\ x.id = q.id /\ x.todo = q.todo
      /\ x.repo = q.repo /\ x.hash = q.hash /\ x.claim = q.claim
  BY <1>2 DEF Local
<1>4. /\ q.id \in used /\ q.todo \subseteq used /\ q.claim \in Digests
      /\ Committing(q, vol) /\ q.claim \in DOMAIN vol.files
  BY <1>2 DEF Ready, Known, Committing, Local
<1> HIDE DEF x
<1>5. VolumeOK(vol') /\ DOMAIN vol.files \subseteq DOMAIN vol'.files
  <2>1. CASE vol' = HardLinkSha256(vol, q.claim)
    BY <1>2, <1>4, <2>1, HardLinkKeeps
  <2>2. CASE UNCHANGED vol
    BY <1>2, <2>2
  <2>3. QED  BY <2>1, <2>2 DEF HardLink
<1>6. TablesOK(staged', rows', live', sess', kappa', used') /\ up' = TRUE
  BY <1>1, <1>2
<1>7. Ready(x, vol', staged', rows', live', sess', kappa', used')
  <2>1. Committing(x, vol')
    BY <1>2, <1>3, <1>4, <1>5 DEF Committing
  <2>2. QED  BY <1>1, <1>3, <1>4, <2>1 DEF Ready, Known, Began, Appending, Holds,
                                           Beginning, Holding
<1>8. \A b \in Actors : Ready(req[b], vol', staged', rows', live', sess', kappa', used')
  BY <1>1, <1>2, <1>5 DEF Ready, Committing
<1>9. \A b \in Actors : b # a => Apart(x, req[b]) /\ Apart(req[b], x)
  BY <1>2, <1>3, StaysApart DEF Beginning, Holding, Waiting
<1>10. QED  BY <1>1, <1>3, <1>5, <1>6, <1>7, <1>8, <1>9, MovesOn

(* A row is dropped only by a request that shares its id with nobody who is *)
(* still beginning.                                                         *)
LEMMA DropsRow ==
    ASSUME Inductive, NEW a \in Actors, ~Waiting(req[a]),
           UNCHANGED <<staged, live, sess, kappa, used>>,
           rows' = Drop(rows, {req[a].id}),
           VolumeOK(vol'), vol'.files = vol.files
    PROVE  /\ TablesOK(staged', rows', live', sess', kappa', used')
           /\ \A b \in Actors : b # a =>
                 Ready(req[b], vol', staged', rows', live', sess', kappa', used')
<1>1. /\ TablesOK(staged, rows, live, sess, kappa, used)
      /\ \A b \in Actors : Ready(req[b], vol, staged, rows, live, sess, kappa, used)
      /\ \A b \in Actors : b # a => Apart(req[b], req[a])
  BY DEF Inductive
<1>2. /\ DOMAIN rows' = DOMAIN rows \ {req[a].id}
      /\ \A k \in DOMAIN rows' : rows'[k] = rows[k]
  BY DEF Drop
<1>3. TablesOK(staged', rows', live', sess', kappa', used')
  BY <1>1, <1>2 DEF TablesOK
<1>4. ASSUME NEW b \in Actors, b # a
      PROVE  Ready(req[b], vol', staged', rows', live', sess', kappa', used')
  <2>1. Apart(req[b], req[a]) /\ Ready(req[b], vol, staged, rows, live, sess, kappa, used)
    BY <1>1, <1>4
  <2>2. Began(req[b], staged', rows', sess')
    BY <1>2, <2>1 DEF Ready, Began, Beginning, Apart
  <2>3. QED  BY <2>1, <2>2 DEF Ready, Committing
<1>5. QED  BY <1>3, <1>4

LEMMA CommitStepKeeps ==
    ASSUME Inductive, NEW a \in Actors, Commit(a)
    PROVE  Inductive'
<1> DEFINE q == req[a]
           d == q.claim
           e == OtherName(d, q.hash, d.of)
<1>1. /\ At(a, "commit") /\ Set(a, Idle)
      /\ UNCHANGED <<staged, live, sess, kappa, used, up>>
      /\ rows' = Drop(rows, {q.id})
  BY DEF Commit, End, volatile, history
<1>2. /\ up = TRUE /\ q \in Local /\ q.pc = "commit" /\ VolumeOK(vol)
      /\ \A b \in Actors : Ready(req[b], vol, staged, rows, live, sess, kappa, used)
  BY <1>1, AtStep
<1>3. /\ d \in Digests /\ q.hash \in SUBSET Seq(Byte) /\ q.repo \in Repos
      /\ d \in DOMAIN vol.files /\ (~DiskErrors => q.hash \subseteq {d.of})
  BY <1>2 DEF Ready, Committing, Local
<1>4. vol.files[d] = d.of
  BY <1>2, <1>3 DEF VolumeOK
<1>5. vol' = CommitFinishedUpload(vol, q.repo, d, e, q.newly)
  BY <1>4 DEF Commit
<1>6. e \in Digests /\ d # e /\ (~DiskErrors => e.of = d.of)
  BY <1>3, OtherNameIsDigest
<1> HIDE DEF e
<1>7. VolumeOK(vol') /\ vol'.files = vol.files
  BY <1>2, <1>3, <1>5, <1>6, CommitKeeps
<1>8. /\ TablesOK(staged', rows', live', sess', kappa', used')
      /\ \A b \in Actors : b # a =>
            Ready(req[b], vol', staged', rows', live', sess', kappa', used')
  BY <1>1, <1>2, <1>7, DropsRow DEF Waiting
<1>9. up' = TRUE
  BY <1>1, <1>2
<1>10. QED  BY <1>1, <1>7, <1>8, <1>9, IdleIsReady, MovesOn

LEMMA RowDeleteKeeps ==
    ASSUME Inductive, NEW a \in Actors, RowDelete(a)
    PROVE  Inductive'
<1> DEFINE q == req[a]
           x == IF q.op = "purge" THEN [q EXCEPT !.pc = "purge"] ELSE Idle
<1>1. /\ At(a, "row_delete") /\ Set(a, x)
      /\ UNCHANGED <<vol, staged, live, sess, kappa, used, up>>
      /\ rows' = Drop(rows, {q.id})
  BY DEF RowDelete, Goto, End, volatile, history
<1>2. /\ up = TRUE /\ q \in Local /\ q.pc = "row_delete" /\ VolumeOK(vol)
      /\ \A b \in Actors : Ready(req[b], vol, staged, rows, live, sess, kappa, used)
      /\ \A b \in Actors : b # a => Apart(q, req[b]) /\ Apart(req[b], q)
  BY <1>1, AtStep
<1>3. VolumeOK(vol') /\ vol'.files = vol.files /\ up' = TRUE
  BY <1>1, <1>2
<1>4. /\ TablesOK(staged', rows', live', sess', kappa', used')
      /\ \A b \in Actors : b # a =>
            Ready(req[b], vol', staged', rows', live', sess', kappa', used')
  BY <1>1, <1>2, <1>3, DropsRow DEF Waiting
<1>5. x \in Local
  <2>1. [q EXCEPT !.pc = "purge"] \in Local
    BY <1>2 DEF Local
  <2>2. QED  BY <2>1, IdleIsReady
<1>6. \/ x = Idle
      \/ x.pc = "purge" /\ x.id = q.id /\ x.todo = q.todo
  BY <1>2 DEF Local
<1> HIDE DEF x
<1>7. Ready(x, vol', staged', rows', live', sess', kappa', used')
  <2>1. CASE x = Idle
    BY <2>1, IdleIsReady
  <2>2. CASE x.pc = "purge" /\ x.id = q.id /\ x.todo = q.todo
    BY <1>1, <1>2, <2>2 DEF Ready, Known, Began, Appending, Holds, Committing,
                            Beginning, Holding
  <2>3. QED  BY <1>6, <2>1, <2>2
<1>8. \A b \in Actors : b # a => Apart(x, req[b]) /\ Apart(req[b], x)
  <2>1. CASE x = Idle
    BY <2>1, IdleIsReady
  <2>2. CASE x.pc = "purge" /\ x.id = q.id /\ x.todo = q.todo
    BY <1>2, <2>2, StaysApart DEF Beginning, Holding, Waiting
  <2>3. QED  BY <1>6, <2>1, <2>2
<1>9. QED  BY <1>1, <1>3, <1>4, <1>5, <1>7, <1>8, MovesOn

-----------------------------------------------------------------------------
(* Purging, kills, restarts and time. *)

LEMMA PurgeKeeps == Inductive /\ Purge => Inductive'
<1> SUFFICES ASSUME Inductive, Purge PROVE Inductive'
  OBVIOUS
<1> DEFINE q == req[Purger]
<1>1. Purger \in Actors
  BY DEF Actors
<1>2. CASE PurgeScan
  <2> DEFINE x == [Idle EXCEPT !.op = "purge", !.pc = "purge", !.todo = ExpiredUploads]
  <2>1. /\ At(Purger, "idle") /\ Set(Purger, x)
        /\ UNCHANGED <<vol, staged, rows, live, sess, kappa, used, up>>
    BY <1>2 DEF PurgeScan, durable, volatile, history
  <2>2. /\ up = TRUE
        /\ TablesOK(staged, rows, live, sess, kappa, used)
        /\ \A b \in Actors : Ready(req[b], vol, staged, rows, live, sess, kappa, used)
    BY <1>1, <2>1, AtStep
  <2>3. ExpiredUploads \subseteq DOMAIN sess /\ DOMAIN sess \subseteq used /\ used \subseteq Ids
    BY <2>2 DEF ExpiredUploads, TablesOK
  <2>4. ExpiredUploads \in SUBSET Ids
    BY <2>3
  <2>5. x \in Local
    BY <2>4, IdleIsReady DEF Local
  <2>6. x.pc = "purge" /\ x.todo = ExpiredUploads
    BY DEF Idle
  <2> HIDE DEF x
  <2>7. Ready(x, vol, staged, rows, live, sess, kappa, used)
    BY <2>3, <2>6 DEF Ready, Known, Began, Appending, Holds, Committing, Beginning, Holding
  <2>8. ASSUME NEW b \in Actors PROVE Apart(x, req[b]) /\ Apart(req[b], x)
    <3>1. Beginning(req[b]) => req[b].id \notin x.todo
      BY <2>2, <2>3, <2>6 DEF Ready, Began
    <3>2. QED  BY <2>6, <3>1 DEF Apart, Beginning, Holding, Waiting
  <2>9. QED  BY <1>1, <2>1, <2>2, <2>5, <2>7, <2>8, MovesQuietly
<1>3. CASE PurgeNext
  <2>1. At(Purger, "purge") /\ UNCHANGED <<vol, staged, rows, live, sess, kappa, used, up>>
    BY <1>3 DEF PurgeNext, durable, volatile, history
  <2>2. /\ up = TRUE /\ q \in Local
        /\ TablesOK(staged, rows, live, sess, kappa, used)
        /\ \A b \in Actors : Ready(req[b], vol, staged, rows, live, sess, kappa, used)
        /\ \A b \in Actors : b # Purger => Apart(q, req[b]) /\ Apart(req[b], q)
    BY <1>1, <2>1, AtStep
  <2>3. CASE q.todo = {}
    <3>1. End(Purger)
      BY <1>3, <2>3 DEF PurgeNext
    <3>2. QED  BY <1>1, <2>1, <2>2, <3>1, EndsQuietly
  <2>4. CASE q.todo # {}
    <3>1. PICK id \in q.todo :
             Set(Purger, [q EXCEPT !.id = id, !.pc = "remove", !.todo = @ \ {id}])
      BY <1>3, <2>4 DEF PurgeNext
    <3> DEFINE x == [q EXCEPT !.id = id, !.pc = "remove", !.todo = q.todo \ {id}]
    <3>2. Set(Purger, x)
      BY <3>1
    <3>3. q.todo \subseteq used /\ q.todo \in SUBSET Ids
      BY <1>1, <2>2 DEF Ready, Known, Local
    <3>4. x \in Local /\ x.pc = "remove" /\ x.id = id /\ x.todo = q.todo \ {id}
      BY <2>2, <3>3 DEF Local
    <3> HIDE DEF x
    <3>5. Ready(x, vol, staged, rows, live, sess, kappa, used)
      BY <3>1, <3>3, <3>4 DEF Ready, Known, Began, Appending, Holds, Committing, Beginning,
                              Holding
    <3>6. ASSUME NEW b \in Actors, b # Purger
          PROVE  Apart(x, req[b]) /\ Apart(req[b], x)
      <4>1. Beginning(req[b]) => req[b].id \notin q.todo
        BY <2>2, <3>6 DEF Apart
      <4>2. QED  BY <3>1, <3>4, <4>1 DEF Apart, Beginning, Holding
    <3>7. QED  BY <1>1, <2>1, <2>2, <3>2, <3>4, <3>5, <3>6, MovesQuietly
  <2>5. QED  BY <2>3, <2>4
<1>4. QED  BY <1>2, <1>3 DEF Purge

(* What a kill leaves of a frame is bytes of that frame. *)
LEMMA TornIsBytes ==
    ASSUME Inductive, NEW st \in Torn
    PROVE  DOMAIN st = DOMAIN staged /\ \A id \in DOMAIN st : st[id] \in Seq(Byte)
<1>1. /\ TablesOK(staged, rows, live, sess, kappa, used)
      /\ req \in [Actors -> Local]
      /\ \A a \in Actors : Ready(req[a], vol, staged, rows, live, sess, kappa, used)
  BY DEF Inductive
<1>2. CASE st = staged
  BY <1>1, <1>2 DEF TablesOK
<1>3. CASE st # staged
  <2>1. PICK a \in {b \in Actors : req[b].pc = "append" /\ AppendAccepted(b)} :
           \E n \in 1 .. Len(NextFrame(req[a].rest)) :
              st = [staged EXCEPT ![req[a].id] = @ \o SubSeq(req[a].rest, 1, n)]
    BY <1>3 DEF Torn
  <2>2. PICK n \in 1 .. Len(NextFrame(req[a].rest)) :
           st = [staged EXCEPT ![req[a].id] = @ \o SubSeq(req[a].rest, 1, n)]
    BY <2>1
  <2> DEFINE id == req[a].id
             part == SubSeq(req[a].rest, 1, n)
  <2>3. id \in DOMAIN staged
    BY <1>1, <2>1 DEF AppendAccepted, Ready, Appending, TablesOK
  <2>4. req[a].rest \in Seq(Byte)
    BY <1>1, <2>1 DEF Local
  <2>5. n \in Nat /\ n <= Len(NextFrame(req[a].rest))
    BY <2>2, <2>4, FramesAreBytes
  <2>6. part \in Seq(Byte)
    BY <2>4, <2>5, FramePartsAreBytes
  <2>7. st = [staged EXCEPT ![id] = staged[id] \o part]
    BY <2>2
  <2> HIDE DEF part, id
  <2>8. staged[id] \o part \in Seq(Byte)
    BY <1>1, <2>3, <2>6, ConcatProperties DEF TablesOK
  <2>9. QED  BY <1>1, <2>3, <2>7, <2>8 DEF TablesOK
<1>4. QED  BY <1>2, <1>3

LEMMA KillKeeps == Inductive /\ Kill => Inductive'
<1> SUFFICES ASSUME Inductive, Kill PROVE Inductive'
  OBVIOUS
<1>1. VolumeOK(vol) /\ TablesOK(staged, rows, live, sess, kappa, used)
  BY DEF Inductive
<1>2. DOMAIN staged' = DOMAIN staged /\ \A id \in DOMAIN staged' : staged'[id] \in Seq(Byte)
  BY TornIsBytes DEF Kill
<1>3. TablesOK(staged', rows', live', sess', kappa', used')
  BY <1>1, <1>2 DEF Kill, TablesOK, NoRows
<1>4. /\ req' \in [Actors -> Local]
      /\ \A a \in Actors : req'[a] = Idle
      /\ \A a \in Actors : Ready(req'[a], vol', staged', rows', live', sess', kappa', used')
      /\ \A a, b \in Actors : a # b => Apart(req'[a], req'[b])
  BY IdleIsReady DEF Kill
<1>5. VolumeOK(vol') /\ up' = FALSE
  BY <1>1 DEF Kill
<1>6. QED  BY <1>3, <1>4, <1>5 DEF Inductive

(* A resumed session does not know its hash, so nothing has to hold of it. *)
LEMMA RestartKeeps == Inductive /\ Restart => Inductive'
<1> SUFFICES ASSUME Inductive, Restart PROVE Inductive'
  OBVIOUS
<1> DEFINE both == DOMAIN rows \cap DOMAIN staged
           s(id) == [repo |-> rows[id].repo, received |-> Len(staged[id]), hash |-> {},
                     age |-> rows[id].age, written |-> rows[id].age]
<1>1. VolumeOK(vol) /\ TablesOK(staged, rows, live, sess, kappa, used)
  BY DEF Inductive
<1>2. /\ rows' = Drop(rows, DOMAIN rows \ both) /\ staged' = Drop(staged, DOMAIN staged \ both)
      /\ kappa' = [id \in both |-> Len(staged[id])] /\ sess' = [id \in both |-> s(id)]
      /\ live' = both /\ UNCHANGED <<vol, req, used>> /\ up' = TRUE /\ ~up
  BY DEF Restart, history
<1>3. ASSUME NEW id \in both
      PROVE  Len(staged[id]) \in Nat /\ s(id) \in Session /\ s(id).hash = {}
  <2>1. rows[id] \in [repo : Repos, age : Ages] /\ staged[id] \in Seq(Byte)
    BY <1>1 DEF TablesOK
  <2>2. Len(staged[id]) \in Nat
    BY <2>1, LenProperties
  <2>3. QED  BY <2>1, <2>2 DEF Session
<1> HIDE DEF s
<1>4. /\ DOMAIN rows' = both /\ \A id \in both : rows'[id] = rows[id]
      /\ DOMAIN staged' = both /\ \A id \in both : staged'[id] = staged[id]
      /\ DOMAIN kappa' = both /\ \A id \in both : kappa'[id] \in Nat
      /\ DOMAIN sess' = both /\ \A id \in both : sess'[id] \in Session /\ sess'[id].hash = {}
  BY <1>2, <1>3 DEF Drop
<1>5. TablesOK(staged', rows', live', sess', kappa', used')
  BY <1>1, <1>2, <1>4 DEF TablesOK
<1>6. req \in [Actors -> Local] /\ \A a \in Actors : req[a] = Idle
  BY <1>2 DEF Inductive
<1>7. /\ req' \in [Actors -> Local]
      /\ \A a \in Actors : Ready(req'[a], vol', staged', rows', live', sess', kappa', used')
      /\ \A a, b \in Actors : a # b => Apart(req'[a], req'[b])
  BY <1>2, <1>6, IdleIsReady
<1>8. VolumeOK(vol') /\ up' = TRUE
  BY <1>1, <1>2
<1>9. QED  BY <1>5, <1>7, <1>8 DEF Inductive

LEMMA TickKeeps == Inductive /\ Tick => Inductive'
<1> SUFFICES ASSUME Inductive, Tick PROVE Inductive'
  OBVIOUS
<1>1. TablesOK(staged, rows, live, sess, kappa, used)
  BY DEF Inductive
<1>2. UNCHANGED <<vol, staged, up, live, kappa, req, used>>
  BY DEF Tick
<1>3. /\ DOMAIN rows' = DOMAIN rows /\ DOMAIN sess' = DOMAIN sess
      /\ \A id \in DOMAIN rows : rows'[id] = [rows[id] EXCEPT !.age = Older(@)]
      /\ \A id \in DOMAIN sess : sess'[id] = [sess[id] EXCEPT !.age = Older(@),
                                                              !.written = Older(@)]
  BY DEF Tick
<1>4. ASSUME NEW id \in DOMAIN rows
      PROVE  rows'[id] \in [repo : Repos, age : Ages]
  <2>1. rows[id] \in [repo : Repos, age : Ages]
    BY <1>1 DEF TablesOK
  <2>2. rows'[id] = [rows[id] EXCEPT !.age = Older(rows[id].age)]
    BY <1>3
  <2>3. Older(rows[id].age) \in Ages
    BY <2>1, AgesStay
  <2>4. QED  BY <2>1, <2>2, <2>3
<1>5. ASSUME NEW id \in DOMAIN sess
      PROVE  sess'[id] \in Session /\ sess'[id].hash = sess[id].hash
  <2>1. sess[id] \in Session
    BY <1>1 DEF TablesOK
  <2>2. sess'[id] = [sess[id] EXCEPT !.age = Older(sess[id].age),
                                     !.written = Older(sess[id].written)]
    BY <1>3
  <2>3. Older(sess[id].age) \in Ages /\ Older(sess[id].written) \in Ages
    BY <2>1, AgesStay DEF Session
  <2>4. QED  BY <2>1, <2>2, <2>3 DEF Session
<1>6. ~DiskErrors => \A id \in DOMAIN sess' : sess'[id].hash \subseteq {staged'[id]}
  BY <1>1, <1>2, <1>3, <1>5 DEF TablesOK
<1>7. TablesOK(staged', rows', live', sess', kappa', used')
  BY <1>1, <1>2, <1>3, <1>4, <1>5, <1>6 DEF TablesOK
<1>8. \A a \in Actors : Ready(req'[a], vol', staged', rows', live', sess', kappa', used')
  <2> TAKE a \in Actors
  <2>1. Ready(req[a], vol, staged, rows, live, sess, kappa, used)
    BY DEF Inductive
  <2>2. QED  BY <1>2, <1>3, <2>1 DEF Ready, Began, Appending, Holds
<1>9. QED  BY <1>2, <1>7, <1>8 DEF Inductive

-----------------------------------------------------------------------------
LEMMA ServeKeeps ==
    ASSUME Inductive, NEW a \in Actors, Serve(a)
    PROVE  Inductive'
BY BeginRowKeeps, BeginRepoKeeps, BeginSessionKeeps, StatusKeeps, StreamingKeeps,
   AppendFrameKeeps, AppendFrameFailsKeeps, RemoveKeeps, CompleteStepKeeps,
   CompleteFailsKeeps, HardLinkStepKeeps, CommitStepKeeps, AbortKeeps, RowDeleteKeeps
   DEF Serve

LEMMA StutterKeeps == Inductive /\ UNCHANGED vars => Inductive'
BY DEF Inductive, vars, durable, volatile, history

LEMMA StepKeeps == Inductive /\ [Next]_vars => Inductive'
<1> SUFFICES ASSUME Inductive, [Next]_vars PROVE Inductive'
  OBVIOUS
<1>1. ASSUME NEW a \in Actors, Client(a) PROVE Inductive'
  BY <1>1, StreamingKeeps DEF Client
<1>2. ASSUME NEW a \in Actors, Serve(a) PROVE Inductive'
  BY <1>2, ServeKeeps
<1>3. QED
  BY <1>1, <1>2, ArrivalKeeps, PurgeKeeps, KillKeeps, RestartKeeps, TickKeeps, StutterKeeps
     DEF Next

LEMMA AlwaysInductive == Spec => []Inductive
BY Initially, StepKeeps, PTL DEF Spec

(* The upload tables, the volume and the requests in flight keep their      *)
(* types through every interleaving, kill and restart (TypeOK).             *)
THEOREM UploadsTypes == Spec => []TypeOK
<1>1. Inductive => TypeOK
  <2> SUFFICES ASSUME Inductive PROVE TypeOK
    OBVIOUS
  <2>1. /\ VolumeOK(vol) /\ TablesOK(staged, rows, live, sess, kappa, used)
        /\ up \in BOOLEAN /\ req \in [Actors -> Local]
    BY DEF Inductive
  <2>2. \A d \in DOMAIN vol.files : d \in Digests /\ vol.files[d] \in Seq(Byte)
    BY <2>1 DEF VolumeOK, Digests
  <2>3. /\ \A key \in DOMAIN vol.links : key \in Repos \X Digests
        /\ \A d \in DOMAIN vol.aliases : d \in Digests /\ vol.aliases[d] \in Digests
    BY <2>1 DEF VolumeOK
  <2>4. /\ \A id \in DOMAIN staged : id \in Ids /\ staged[id] \in Seq(Byte)
        /\ \A id \in DOMAIN rows : id \in Ids /\ rows[id] \in [repo : Repos, age : Ages]
        /\ \A id \in DOMAIN sess : id \in Ids /\ sess[id] \in Session
        /\ \A id \in DOMAIN kappa : id \in Ids /\ kappa[id] \in Nat
        /\ live \in SUBSET Ids
    BY <2>1 DEF TablesOK
  <2>5. QED  BY <2>1, <2>2, <2>3, <2>4 DEF TypeOK
<1>2. QED  BY <1>1, AlwaysInductive, PTL

(* A file under an address holds the bytes of that address, however the     *)
(* appends and finishes of concurrent requests interleave, whatever a kill  *)
(* tears and whether or not the disk fails (Kappa's upload_complete).       *)
THEOREM UploadsHashOnWrite == Spec => []HashOnWrite
<1>1. Inductive => HashOnWrite
  BY DEF Inductive, VolumeOK, HashOnWrite
<1>2. QED  BY <1>1, AlwaysInductive, PTL

(* A link is committed only over stored bytes, through every kill and       *)
(* failed finish (OciStore::upload_finish).                                 *)
THEOREM UploadsLinksStored == Spec => []LinkedIsStored
<1>1. Inductive => LinkedIsStored
  BY DEF Inductive, VolumeOK, LinkedIsStored
<1>2. QED  BY <1>1, AlwaysInductive, PTL

(* On a disk that does not fail, the two names a finish records are two     *)
(* names of the same bytes, for a session resumed after a kill too          *)
(* (OciStore::upload_finish, SessionState.blake3).                          *)
THEOREM UploadsAliases == Spec => [](~DiskErrors => AliasNamesSameBytes)
<1>1. Inductive => (~DiskErrors => AliasNamesSameBytes)
  BY DEF Inductive, VolumeOK, AliasNamesSameBytes
<1>2. QED  BY <1>1, AlwaysInductive, PTL


-----------------------------------------------------------------------------
(***************************************************************************)
(* Expiry.  A session's age is the age of its row when the server last     *)
(* started, so it may be older than its last append; but the row is never  *)
(* more than RowInterval behind, because `written` is at least the row's   *)
(* age and an append with `written` at RowInterval rewrites the row.       *)
(***************************************************************************)
Timely ==
    /\ \A id \in DOMAIN idle : idle[id] \in Ages
    /\ \A id \in DOMAIN rows :
          id \in DOMAIN idle /\ rows[id].age < idle[id] + RowInterval
    /\ \A id \in DOMAIN sess :
          /\ id \in DOMAIN idle /\ sess[id].age < idle[id] + RowInterval
          /\ id \in DOMAIN rows => rows[id].age <= sess[id].written

(* Ages are naturals. *)
LEMMA AgesAreNat ==
    /\ \A age \in Ages : age \in Nat
    /\ RowInterval \in Nat /\ RowInterval > 0 /\ MaxAge \in Nat /\ AgeCap \in Nat
BY UploadsAssumption DEF Ages, AgeCap

(* Rows and sessions may go; what stays is as timely as it was. *)
LEMMA TimelyStays ==
    ASSUME Timely, idle' = idle,
           \A id \in DOMAIN rows' : id \in DOMAIN rows /\ rows'[id] = rows[id],
           \A id \in DOMAIN sess' : id \in DOMAIN sess /\ sess'[id] = sess[id]
    PROVE  Timely'
BY DEF Timely

LEMMA TimelyBeginRow ==
    ASSUME Inductive, Timely, NEW a \in Actors, BeginRow(a)
    PROVE  Timely'
<1> DEFINE id == req[a].id
           row == [repo |-> req[a].repo, age |-> 0]
<1>1. At(a, "begin_row")
  BY DEF BeginRow
<1>2. Ready(req[a], vol, staged, rows, live, sess, kappa, used) /\ req[a].pc = "begin_row"
  BY <1>1, AtStep
<1>3. id \notin DOMAIN sess
  BY <1>2 DEF Ready, Began, Beginning
<1>4. rows' = Put(rows, id, row) /\ idle' = Put(idle, id, 0) /\ sess' = sess
  BY DEF BeginRow, volatile
<1>5. row.age = 0
  OBVIOUS
<1> HIDE DEF row, id
<1>6. /\ DOMAIN rows' = DOMAIN rows \cup {id} /\ rows'[id] = row
      /\ \A k \in DOMAIN rows : k # id => rows'[k] = rows[k]
      /\ DOMAIN idle' = DOMAIN idle \cup {id} /\ idle'[id] = 0
      /\ \A k \in DOMAIN idle : k # id => idle'[k] = idle[k]
  BY <1>4 DEF Put
<1>7. \A k \in DOMAIN idle' : idle'[k] \in Ages
  BY <1>6, AgesStay DEF Timely
<1>8. \A k \in DOMAIN rows' : k \in DOMAIN idle' /\ rows'[k].age < idle'[k] + RowInterval
  <2> TAKE k \in DOMAIN rows'
  <2>1. CASE k = id
    BY <1>5, <1>6, <2>1, AgesAreNat
  <2>2. CASE k # id
    BY <1>6, <2>2 DEF Timely
  <2>3. QED  BY <2>1, <2>2
<1>9. \A k \in DOMAIN sess' :
          /\ k \in DOMAIN idle' /\ sess'[k].age < idle'[k] + RowInterval
          /\ k \in DOMAIN rows' => rows'[k].age <= sess'[k].written
  BY <1>3, <1>4, <1>6 DEF Timely
<1>10. QED  BY <1>7, <1>8, <1>9 DEF Timely

(* A session starts with its row's age. *)
LEMMA TimelyBeginSession ==
    ASSUME Inductive, Timely, NEW a \in Actors, BeginSession(a)
    PROVE  Timely'
<1> DEFINE id == req[a].id
           s == [repo |-> req[a].repo, received |-> 0, hash |-> {<<>>},
                 age |-> rows[id].age, written |-> rows[id].age]
<1>1. At(a, "begin_session")
  BY DEF BeginSession
<1>2. /\ Ready(req[a], vol, staged, rows, live, sess, kappa, used)
      /\ TablesOK(staged, rows, live, sess, kappa, used) /\ req[a].pc = "begin_session"
  BY <1>1, AtStep
<1>3. id \in DOMAIN rows
  BY <1>2 DEF Ready, Began
<1>4. rows[id].age \in Nat
  BY <1>2, <1>3, AgesAreNat DEF TablesOK
<1>5. sess' = Put(sess, id, s) /\ UNCHANGED <<rows, idle>>
  BY DEF BeginSession, durable, history
<1>6. s.age = rows[id].age /\ s.written = rows[id].age
  OBVIOUS
<1> HIDE DEF s, id
<1>7. /\ DOMAIN sess' = DOMAIN sess \cup {id} /\ sess'[id] = s
      /\ \A k \in DOMAIN sess : k # id => sess'[k] = sess[k]
  BY <1>5 DEF Put
<1>8. ASSUME NEW k \in DOMAIN sess'
      PROVE  /\ k \in DOMAIN idle' /\ sess'[k].age < idle'[k] + RowInterval
             /\ k \in DOMAIN rows' => rows'[k].age <= sess'[k].written
  <2>1. CASE k = id
    BY <1>3, <1>4, <1>5, <1>6, <1>7, <2>1 DEF Timely
  <2>2. CASE k # id
    BY <1>5, <1>7, <2>2 DEF Timely
  <2>3. QED  BY <2>1, <2>2
<1>9. QED  BY <1>5, <1>8 DEF Timely

(* An append that leaves the row alone leaves one younger than RowInterval. *)
LEMMA TimelyAppendFrame ==
    ASSUME Inductive, Timely, NEW a \in Actors, AppendFrame(a)
    PROVE  Timely'
<1> DEFINE q == req[a]
           id == q.id
           frame == NextFrame(q.rest)
           total == q.at + Len(frame)
<1>1. At(a, "append")
  BY DEF AppendFrame
<1>2. /\ TablesOK(staged, rows, live, sess, kappa, used) /\ req[a].pc = "append"
      /\ Ready(req[a], vol, staged, rows, live, sess, kappa, used)
  BY <1>1, AtStep
<1>3. CASE ~AppendAccepted(a)
  BY <1>3, TimelyStays DEF AppendFrame
<1>4. CASE AppendAccepted(a)
  <2> DEFINE s == Appended(sess[id], frame, total, RowDue(id))
             row == [repo |-> sess[id].repo, age |-> 0]
  <2>1. id \in DOMAIN sess
    BY <1>2, <1>4 DEF AppendAccepted, Ready, Appending
  <2>2. id \in DOMAIN idle
    BY <2>1 DEF Timely
  <2>3. /\ sess' = [sess EXCEPT ![id] = s] /\ idle' = [idle EXCEPT ![id] = 0]
        /\ rows' = IF RowDue(id) THEN Put(rows, id, row) ELSE rows
    BY <1>4 DEF AppendFrame
  <2>4. row.age = 0 /\ s.age = 0 /\ s.written = IF RowDue(id) THEN 0 ELSE sess[id].written
    BY DEF Appended
  <2> HIDE DEF s, row
  <2>5. /\ DOMAIN sess' = DOMAIN sess /\ sess'[id] = s
        /\ \A k \in DOMAIN sess : k # id => sess'[k] = sess[k]
        /\ DOMAIN idle' = DOMAIN idle /\ idle'[id] = 0
        /\ \A k \in DOMAIN idle : k # id => idle'[k] = idle[k]
    BY <2>1, <2>2, <2>3
  <2>6. sess[id].written \in Nat /\ (id \in DOMAIN rows => rows[id].age \in Nat)
    BY <1>2, <2>1, AgesAreNat DEF TablesOK, Session
  <2>7. /\ \A k \in DOMAIN rows' : k # id => k \in DOMAIN rows /\ rows'[k] = rows[k]
        /\ id \in DOMAIN rows' =>
              /\ rows'[id].age < RowInterval
              /\ rows'[id].age <= s.written
    <3>1. CASE RowDue(id)
      BY <2>3, <2>4, <3>1, AgesAreNat DEF Put
    <3>2. CASE ~RowDue(id)
      <4>1. sess[id].written < RowInterval /\ rows' = rows /\ s.written = sess[id].written
        BY <2>3, <2>4, <2>6, <3>2, AgesAreNat DEF RowDue
      <4>2. id \in DOMAIN rows => rows[id].age <= sess[id].written
        BY <2>1 DEF Timely
      <4>3. QED  BY <2>6, <4>1, <4>2, AgesAreNat
    <3>3. QED  BY <3>1, <3>2
  <2>8. \A k \in DOMAIN idle' : idle'[k] \in Ages
    BY <2>5, AgesStay DEF Timely
  <2>9. \A k \in DOMAIN rows' : k \in DOMAIN idle' /\ rows'[k].age < idle'[k] + RowInterval
    <3> TAKE k \in DOMAIN rows'
    <3>1. CASE k = id
      BY <2>2, <2>5, <2>7, <3>1, AgesAreNat
    <3>2. CASE k # id
      BY <2>5, <2>7, <3>2 DEF Timely
    <3>3. QED  BY <3>1, <3>2
  <2>10. ASSUME NEW k \in DOMAIN sess'
         PROVE  /\ k \in DOMAIN idle' /\ sess'[k].age < idle'[k] + RowInterval
                /\ k \in DOMAIN rows' => rows'[k].age <= sess'[k].written
    <3>1. CASE k = id
      BY <2>2, <2>4, <2>5, <2>7, <3>1, AgesAreNat
    <3>2. CASE k # id
      BY <2>5, <2>7, <3>2 DEF Timely
    <3>3. QED  BY <3>1, <3>2
  <2>11. QED  BY <2>8, <2>9, <2>10 DEF Timely
<1>5. QED  BY <1>3, <1>4

(* A resumed session is as old as its row. *)
LEMMA TimelyRestart ==
    ASSUME Inductive, Timely, Restart
    PROVE  Timely'
<1> DEFINE both == DOMAIN rows \cap DOMAIN staged
           s(id) == [repo |-> rows[id].repo, received |-> Len(staged[id]), hash |-> {},
                     age |-> rows[id].age, written |-> rows[id].age]
<1>1. /\ rows' = Drop(rows, DOMAIN rows \ both) /\ sess' = [id \in both |-> s(id)]
      /\ idle' = idle
  BY DEF Restart, history
<1>2. \A id \in both : s(id).age = rows[id].age /\ s(id).written = rows[id].age
  OBVIOUS
<1> HIDE DEF s
<1>3. /\ DOMAIN rows' = both /\ \A id \in both : rows'[id] = rows[id]
      /\ DOMAIN sess' = both /\ \A id \in both : sess'[id] = s(id)
  BY <1>1 DEF Drop
<1>4. ASSUME NEW id \in both PROVE rows[id].age \in Nat
  <2>1. TablesOK(staged, rows, live, sess, kappa, used)
    BY DEF Inductive
  <2>2. QED  BY <2>1, AgesAreNat DEF TablesOK
<1>5. ASSUME NEW id \in both
      PROVE  /\ id \in DOMAIN idle' /\ rows'[id].age < idle'[id] + RowInterval
             /\ sess'[id].age < idle'[id] + RowInterval
             /\ rows'[id].age <= sess'[id].written
  <2>1. id \in DOMAIN rows /\ rows[id].age \in Nat
    BY <1>4
  <2>2. id \in DOMAIN idle /\ rows[id].age < idle[id] + RowInterval
    BY <2>1 DEF Timely
  <2>3. rows'[id] = rows[id] /\ sess'[id].age = rows[id].age /\ sess'[id].written = rows[id].age
    BY <1>2, <1>3
  <2>4. QED  BY <1>1, <2>1, <2>2, <2>3
<1>6. QED  BY <1>1, <1>3, <1>5 DEF Timely

(* Growing older, up to the cap, keeps ages in their order. *)
LEMMA OlderKeepsOrder ==
    ASSUME NEW x \in Ages, NEW y \in Ages
    PROVE  /\ x < y + RowInterval => Older(x) < Older(y) + RowInterval
           /\ x <= y => Older(x) <= Older(y)
<1>1. x \in Nat /\ y \in Nat /\ RowInterval \in Nat /\ RowInterval > 0 /\ AgeCap \in Nat
  BY AgesAreNat
<1>2. x <= AgeCap /\ y <= AgeCap
  BY AgesAreNat DEF Ages
<1> HIDE DEF AgeCap
<1>3. QED  BY <1>1, <1>2 DEF Older

LEMMA TimelyTick ==
    ASSUME Inductive, Timely, Tick
    PROVE  Timely'
<1>1. TablesOK(staged, rows, live, sess, kappa, used)
  BY DEF Inductive
<1> DEFINE row(id) == [rows[id] EXCEPT !.age = Older(@)]
           s(id) == [sess[id] EXCEPT !.age = Older(@), !.written = Older(@)]
<1>a. /\ rows' = [id \in DOMAIN rows |-> row(id)] /\ sess' = [id \in DOMAIN sess |-> s(id)]
      /\ idle' = [id \in DOMAIN idle |-> Older(idle[id])]
  BY Zenon DEF Tick
<1> HIDE DEF row, s
<1>2. /\ DOMAIN rows' = DOMAIN rows /\ DOMAIN sess' = DOMAIN sess /\ DOMAIN idle' = DOMAIN idle
      /\ \A id \in DOMAIN rows : rows'[id] = row(id)
      /\ \A id \in DOMAIN sess : sess'[id] = s(id)
      /\ \A id \in DOMAIN idle : idle'[id] = Older(idle[id])
  BY <1>a
<1>3. ASSUME NEW id \in DOMAIN rows
      PROVE  rows[id].age \in Ages /\ rows'[id].age = Older(rows[id].age)
  <2>1. rows[id] \in [repo : Repos, age : Ages]
    BY <1>1 DEF TablesOK
  <2>2. rows'[id] = [rows[id] EXCEPT !.age = Older(rows[id].age)]
    BY <1>2 DEF row
  <2>3. QED  BY <2>1, <2>2
<1>4. ASSUME NEW id \in DOMAIN sess
      PROVE  /\ sess[id].age \in Ages /\ sess'[id].age = Older(sess[id].age)
             /\ sess[id].written \in Ages /\ sess'[id].written = Older(sess[id].written)
  <2>1. sess[id] \in Session
    BY <1>1 DEF TablesOK
  <2>2. sess'[id] = [sess[id] EXCEPT !.age = Older(sess[id].age),
                                     !.written = Older(sess[id].written)]
    BY <1>2, Zenon DEF s
  <2>3. QED  BY <2>1, <2>2 DEF Session
<1>5. \A id \in DOMAIN idle : idle[id] \in Ages /\ idle'[id] \in Ages
  BY <1>2, AgesStay DEF Timely
<1>6. ASSUME NEW id \in DOMAIN rows
      PROVE  id \in DOMAIN idle' /\ rows'[id].age < idle'[id] + RowInterval
  <2>1. id \in DOMAIN idle /\ rows[id].age < idle[id] + RowInterval
    BY DEF Timely
  <2>2. QED  BY <1>2, <1>3, <1>5, <2>1, OlderKeepsOrder
<1>7. ASSUME NEW id \in DOMAIN sess
      PROVE  /\ id \in DOMAIN idle' /\ sess'[id].age < idle'[id] + RowInterval
             /\ id \in DOMAIN rows => rows'[id].age <= sess'[id].written
  <2>1. /\ id \in DOMAIN idle /\ sess[id].age < idle[id] + RowInterval
        /\ id \in DOMAIN rows => rows[id].age <= sess[id].written
    BY DEF Timely
  <2>2. sess'[id].age < idle'[id] + RowInterval
    BY <1>2, <1>4, <1>5, <2>1, OlderKeepsOrder
  <2>3. id \in DOMAIN rows => rows'[id].age <= sess'[id].written
    BY <1>3, <1>4, <2>1, OlderKeepsOrder
  <2>4. QED  BY <1>2, <2>1, <2>2, <2>3
<1>8. QED  BY <1>2, <1>5, <1>6, <1>7 DEF Timely

(* Every other step of a request leaves rows, sessions and idle times, or   *)
(* drops some.                                                              *)
LEMMA TimelyServe ==
    ASSUME Inductive, Timely, NEW a \in Actors, Serve(a)
    PROVE  Timely'
<1>1. CASE BeginRepo(a) \/ Status(a) \/ Frame(a) \/ BodyEnds(a) \/ AppendFrameFails(a) \/ Remove(a)
           \/ HardLink(a)
  <2>1. UNCHANGED <<rows, sess, idle>>
    BY <1>1 DEF BeginRepo, Status, Frame, BodyEnds, AppendFrameFails, Remove, HardLink,
                durable, volatile, history
  <2>2. QED  BY <2>1, TimelyStays
<1>2. CASE Complete(a) \/ CompleteFails(a) \/ Abort(a)
  <2>1. UNCHANGED <<rows, idle>> /\ sess' = Drop(sess, {req[a].id})
    BY <1>2 DEF Complete, CompleteFails, Abort, durable, history
  <2>2. QED  BY <2>1, TimelyStays DEF Drop
<1>3. CASE Commit(a) \/ RowDelete(a)
  <2>1. UNCHANGED <<sess, idle>> /\ rows' = Drop(rows, {req[a].id})
    BY <1>3 DEF Commit, RowDelete, volatile, history
  <2>2. QED  BY <2>1, TimelyStays DEF Drop
<1>4. QED
  BY <1>1, <1>2, <1>3, TimelyBeginRow, TimelyBeginSession, TimelyAppendFrame DEF Serve

LEMMA TimelyStep == Inductive /\ Timely /\ [Next]_vars => Timely'
<1> SUFFICES ASSUME Inductive, Timely, [Next]_vars PROVE Timely'
  OBVIOUS
<1>1. CASE Arrival
  <2>1. UNCHANGED <<rows, sess, idle>>
    <3>1. \A a, id, r, body, claims : Start(a, id, r, body, claims) => UNCHANGED <<rows, sess, idle>>
      BY Zenon DEF Start
    <3>2. \A a, id, r, body : Patch(a, id, r, body) => UNCHANGED <<rows, sess, idle>>
      BY Zenon DEF Patch, durable, volatile
    <3>3. \A a, id, r, body, claim : Finish(a, id, r, body, claim) => UNCHANGED <<rows, sess, idle>>
      BY Zenon DEF Finish, durable, volatile
    <3>4. \A a, id, r : Cancel(a, id, r) => UNCHANGED <<rows, sess, idle>>
      BY Zenon DEF Cancel, durable, volatile
    <3>5. QED  BY <1>1, <3>1, <3>2, <3>3, <3>4, Zenon DEF Arrival
  <2>2. QED  BY <2>1, TimelyStays
<1>2. ASSUME NEW a \in Actors, Client(a) PROVE Timely'
  <2>1. UNCHANGED <<rows, sess, idle>>
    BY <1>2 DEF Client, RangeRefused, ClientGone, durable, volatile, history
  <2>2. QED  BY <2>1, TimelyStays
<1>3. ASSUME NEW a \in Actors, Serve(a) PROVE Timely'
  BY <1>3, TimelyServe
<1>4. CASE Purge
  <2>1. UNCHANGED <<rows, sess, idle>>
    BY <1>4, Zenon DEF Purge, PurgeScan, PurgeNext, durable, volatile, history
  <2>2. QED  BY <2>1, TimelyStays
<1>5. CASE Kill
  <2>1. UNCHANGED <<rows, idle>> /\ DOMAIN sess' = {}
    BY <1>5 DEF Kill, NoRows
  <2>2. QED  BY <2>1, TimelyStays
<1>6. CASE UNCHANGED vars
  <2>1. UNCHANGED <<rows, sess, idle>>
    BY <1>6 DEF vars, durable, volatile, history
  <2>2. QED  BY <2>1, TimelyStays
<1>7. QED
  BY <1>1, <1>2, <1>3, <1>4, <1>5, <1>6, TimelyRestart, TimelyTick DEF Next

(* A session the purge timer takes for expired has been idle for at least   *)
(* MaxAge less the interval at which rows are written, through any number   *)
(* of kills and restarts (purge_expired_uploads, ROW_WRITE_INTERVAL_MS).    *)
THEOREM UploadsExpiry == Spec => []ExpiryNearlyTrue
<1>1. Init => Timely
  BY DEF Init, Timely, NoRows
<1>2. Inductive /\ Timely => ExpiryNearlyTrue
  <2> SUFFICES ASSUME Inductive, Timely, NEW id \in live, sess[id].age > MaxAge
               PROVE  idle[id] + RowInterval > MaxAge
    BY DEF ExpiryNearlyTrue
  <2>1. TablesOK(staged, rows, live, sess, kappa, used)
    BY DEF Inductive
  <2>2. id \in DOMAIN sess /\ sess[id].age \in Nat
    BY <2>1, AgesAreNat DEF TablesOK, Session
  <2>3. id \in DOMAIN idle /\ sess[id].age < idle[id] + RowInterval /\ idle[id] \in Nat
    BY <2>2, AgesAreNat DEF Timely
  <2>4. QED  BY <2>2, <2>3, AgesAreNat
<1>3. QED  BY <1>1, <1>2, AlwaysInductive, TimelyStep, PTL DEF Spec

-----------------------------------------------------------------------------
(***************************************************************************)
(* The four tables agree when nothing is in flight.  While requests run    *)
(* they may differ, but every difference belongs to a request that is      *)
(* going to settle it: what is staged and not in the map is being begun or *)
(* is held by the finish, cancel or purge that took it; a row that is not  *)
(* in the map belongs to one of these, or to one that still has to delete  *)
(* it.  On a disk that does not fail: a failed rename leaves the staging   *)
(* file and its row to the next start (CompleteFails).                     *)
(***************************************************************************)
Ending(q) == q.pc \in {"complete", "abort", "hard_link", "commit", "row_delete"}
OwnsFile(q) == Beginning(q) \/ Holding(q)
OwnsRow(q) == q.pc \in {"begin_repo", "begin_session"} \/ Ending(q)

Owned(st, rw, lv, kp, rq) ==
    /\ \A id \in lv : id \in DOMAIN kp /\ id \in DOMAIN rw
    /\ \A id \in DOMAIN kp \cup DOMAIN st :
          id \in lv \/ \E a \in Actors : rq[a].id = id /\ OwnsFile(rq[a])
    /\ \A id \in DOMAIN rw :
          id \in lv \/ \E a \in Actors : rq[a].id = id /\ OwnsRow(rq[a])
    /\ \A a \in Actors : Ending(rq[a]) => rq[a].id \notin lv
    /\ \A a \in Actors : Beginning(rq[a]) => rq[a].id \in DOMAIN kp

Settling == up => Owned(staged, rows, live, kappa, req)

(* One request moves on, and what it owned it still owns, or has put in the *)
(* map or dropped; the other requests and what they own are as before.      *)
LEMMA OwnersMove ==
    ASSUME Inductive, NEW a \in Actors, NEW x \in Local, Set(a, x), up = TRUE, Settling,
           \A id \in live' : id \in DOMAIN kappa' /\ id \in DOMAIN rows',
           \A id \in DOMAIN kappa' \cup DOMAIN staged' :
              \/ id \in live'
              \/ x.id = id /\ OwnsFile(x)
              \/ /\ id \in DOMAIN kappa \cup DOMAIN staged /\ id \notin live
                 /\ id # req[a].id \/ ~OwnsFile(req[a]),
           \A id \in DOMAIN rows' :
              \/ id \in live'
              \/ x.id = id /\ OwnsRow(x)
              \/ \E b \in Actors : b # a /\ req[b].id = id /\ OwnsRow(req[b])
              \/ /\ id \in DOMAIN rows /\ id \notin live
                 /\ id # req[a].id \/ ~OwnsRow(req[a]),
           Ending(x) => x.id \notin live',
           Beginning(x) => x.id \in DOMAIN kappa',
           \A b \in Actors : b # a => /\ Ending(req[b]) => req[b].id \notin live'
                                      /\ Beginning(req[b]) => req[b].id \in DOMAIN kappa'
    PROVE  Settling'
<1>1. req'[a] = x /\ \A b \in Actors : b # a => req'[b] = req[b]
  BY DEF Inductive, Set
<1>2. Owned(staged, rows, live, kappa, req)
  BY DEF Settling
<1>3. ASSUME NEW id \in DOMAIN kappa' \cup DOMAIN staged', id \notin live'
      PROVE  \E b \in Actors : req'[b].id = id /\ OwnsFile(req'[b])
  <2>1. CASE x.id = id /\ OwnsFile(x)
    BY <1>1, <2>1
  <2>2. CASE /\ id \in DOMAIN kappa \cup DOMAIN staged /\ id \notin live
             /\ id # req[a].id \/ ~OwnsFile(req[a])
    <3>1. PICK b \in Actors : req[b].id = id /\ OwnsFile(req[b])
      BY <1>2, <2>2 DEF Owned
    <3>2. QED  BY <1>1, <2>2, <3>1
  <2>3. QED  BY <1>3, <2>1, <2>2
<1>4. ASSUME NEW id \in DOMAIN rows', id \notin live'
      PROVE  \E b \in Actors : req'[b].id = id /\ OwnsRow(req'[b])
  <2>1. CASE x.id = id /\ OwnsRow(x)
    BY <1>1, <2>1
  <2>2. CASE /\ id \in DOMAIN rows /\ id \notin live
             /\ id # req[a].id \/ ~OwnsRow(req[a])
    <3>1. PICK b \in Actors : req[b].id = id /\ OwnsRow(req[b])
      BY <1>2, <2>2 DEF Owned
    <3>2. QED  BY <1>1, <2>2, <3>1
  <2>3. CASE \E b \in Actors : b # a /\ req[b].id = id /\ OwnsRow(req[b])
    BY <1>1, <2>3
  <2>4. QED  BY <1>4, <2>1, <2>2, <2>3
<1>5. \A b \in Actors : /\ Ending(req'[b]) => req'[b].id \notin live'
                        /\ Beginning(req'[b]) => req'[b].id \in DOMAIN kappa'
  <2> TAKE b \in Actors
  <2>1. CASE b = a
    BY <1>1, <2>1
  <2>2. CASE b # a
    BY <1>1, <2>2
  <2>3. QED  BY <2>1, <2>2
<1>6. Owned(staged', rows', live', kappa', req')
  BY <1>3, <1>4, <1>5 DEF Owned
<1>7. QED  BY <1>6 DEF Settling

(* A request that moves on with the tables as they are, and owns as much. *)
LEMMA OwnersStay ==
    ASSUME Inductive, NEW a \in Actors, NEW x \in Local, Set(a, x), up = TRUE, Settling,
           DOMAIN staged' = DOMAIN staged, DOMAIN rows' = DOMAIN rows,
           DOMAIN kappa' = DOMAIN kappa, live' = live,
           OwnsFile(req[a]) => x.id = req[a].id /\ OwnsFile(x),
           OwnsRow(req[a]) => x.id = req[a].id /\ OwnsRow(x),
           Ending(x) => x.id \notin live,
           Beginning(x) => Beginning(req[a]) /\ x.id = req[a].id
    PROVE  Settling'
<1>1. req'[a] = x /\ \A b \in Actors : b # a => req'[b] = req[b]
  BY DEF Inductive, Set
<1>2. Owned(staged, rows, live, kappa, req)
  BY DEF Settling
<1>3. ASSUME NEW id \in DOMAIN kappa \cup DOMAIN staged, id \notin live
      PROVE  \E b \in Actors : req'[b].id = id /\ OwnsFile(req'[b])
  <2>1. PICK b \in Actors : req[b].id = id /\ OwnsFile(req[b])
    BY <1>2, <1>3 DEF Owned
  <2>2. QED  BY <1>1, <2>1
<1>4. ASSUME NEW id \in DOMAIN rows, id \notin live
      PROVE  \E b \in Actors : req'[b].id = id /\ OwnsRow(req'[b])
  <2>1. PICK b \in Actors : req[b].id = id /\ OwnsRow(req[b])
    BY <1>2, <1>4 DEF Owned
  <2>2. QED  BY <1>1, <2>1
<1>5. \A b \in Actors : /\ Ending(req'[b]) => req'[b].id \notin live
                        /\ Beginning(req'[b]) => req'[b].id \in DOMAIN kappa
  <2> TAKE b \in Actors
  <2>1. CASE b = a
    BY <1>1, <1>2, <2>1 DEF Owned
  <2>2. CASE b # a
    BY <1>1, <1>2, <2>2 DEF Owned
  <2>3. QED  BY <2>1, <2>2
<1>6. Owned(staged', rows', live', kappa', req')
  BY <1>2, <1>3, <1>4, <1>5 DEF Owned
<1>7. QED  BY <1>6 DEF Settling

(* A request that neither owned nor will own anything. *)
LEMMA OwnsNothing ==
    ASSUME Inductive, NEW a \in Actors, NEW x \in Local, Set(a, x), up = TRUE, Settling,
           DOMAIN staged' = DOMAIN staged, DOMAIN rows' = DOMAIN rows,
           DOMAIN kappa' = DOMAIN kappa, live' = live,
           req[a].pc \in {"idle", "status", "frame", "append", "remove", "purge"},
           x.pc \in {"idle", "status", "frame", "append", "remove", "purge"}
    PROVE  Settling'
<1>1. /\ ~OwnsFile(req[a]) /\ ~OwnsRow(req[a]) /\ ~Ending(x) /\ ~Beginning(x)
  BY DEF OwnsFile, OwnsRow, Ending, Beginning, Holding
<1>2. QED  BY <1>1, OwnersStay

(* The holder of an upload has dropped it; it still has the row. *)
LEMMA HeldDropped ==
    ASSUME Inductive, NEW a \in Actors, Holding(req[a]), NEW x \in Local, Set(a, x),
           up = TRUE, Settling, x.id = req[a].id,
           x.pc \in {"hard_link", "commit", "row_delete"},
           kappa' = Drop(kappa, {req[a].id}), staged' = Drop(staged, {req[a].id}),
           UNCHANGED <<rows, live>>
    PROVE  Settling'
<1> DEFINE id == req[a].id
<1>1. Owned(staged, rows, live, kappa, req)
  BY DEF Settling
<1>2. /\ DOMAIN kappa' = DOMAIN kappa \ {id} /\ DOMAIN staged' = DOMAIN staged \ {id}
  BY DEF Drop
<1>3. id \notin live
  BY <1>1 DEF Owned, Ending, Holding
<1>4. Ending(x) /\ OwnsRow(x) /\ ~Beginning(x)
  BY DEF Ending, OwnsRow, Beginning
<1>5. \A k \in live' : k \in DOMAIN kappa' /\ k \in DOMAIN rows'
  BY <1>1, <1>2, <1>3 DEF Owned
<1>6. \A k \in DOMAIN kappa' \cup DOMAIN staged' :
         \/ k \in live'
         \/ /\ k \in DOMAIN kappa \cup DOMAIN staged /\ k \notin live
            /\ k # id
  BY <1>2
<1>7. \A k \in DOMAIN rows' :
         \/ k \in live'
         \/ x.id = k /\ OwnsRow(x)
         \/ /\ k \in DOMAIN rows /\ k \notin live
            /\ k # id
  BY <1>4
<1>8. ASSUME NEW b \in Actors, b # a
      PROVE  /\ Ending(req[b]) => req[b].id \notin live'
             /\ Beginning(req[b]) => req[b].id \in DOMAIN kappa'
  <2>1. Beginning(req[b]) => req[b].id # id
    BY <1>8 DEF Inductive, Apart, Waiting, Holding
  <2>2. QED  BY <1>1, <1>2, <2>1 DEF Owned
<1>9. Ending(x) => x.id \notin live'
  BY <1>3
<1>10. QED  BY <1>4, <1>5, <1>6, <1>7, <1>8, <1>9, OwnersMove

(* Whoever still had a row to delete has deleted it. *)
LEMMA RowDropped ==
    ASSUME Inductive, NEW a \in Actors, NEW x \in Local, Set(a, x), up = TRUE, Settling,
           req[a].pc \in {"commit", "row_delete"}, x.pc \in {"idle", "purge"},
           rows' = Drop(rows, {req[a].id}), UNCHANGED <<kappa, staged, live>>
    PROVE  Settling'
<1> DEFINE id == req[a].id
<1>1. Owned(staged, rows, live, kappa, req)
  BY DEF Settling
<1>2. DOMAIN rows' = DOMAIN rows \ {id}
  BY DEF Drop
<1>3. id \notin live
  BY <1>1 DEF Owned, Ending
<1>4. ~Ending(x) /\ ~Beginning(x) /\ ~OwnsFile(req[a])
  BY DEF Ending, OwnsFile, Beginning, Holding
<1>5. \A k \in live' : k \in DOMAIN kappa' /\ k \in DOMAIN rows'
  BY <1>1, <1>2, <1>3 DEF Owned
<1>6. \A k \in DOMAIN rows' :
         \/ k \in live'
         \/ k \in DOMAIN rows /\ k \notin live /\ k # id
  BY <1>2
<1>7. \A b \in Actors : b # a => /\ Ending(req[b]) => req[b].id \notin live'
                                 /\ Beginning(req[b]) => req[b].id \in DOMAIN kappa'
  BY <1>1 DEF Owned
<1>8. \A k \in DOMAIN kappa' \cup DOMAIN staged' :
         \/ k \in live'
         \/ k \in DOMAIN kappa \cup DOMAIN staged /\ k \notin live
  OBVIOUS
<1>9. QED  BY <1>4, <1>5, <1>6, <1>7, <1>8, OwnersMove

-----------------------------------------------------------------------------
(* How a request moves. *)

Same(x, q) ==
    /\ x.op = q.op /\ x.id = q.id /\ x.from = q.from /\ x.at = q.at
    /\ x.rest = q.rest /\ x.body = q.body

LEMMA Moving ==
    ASSUME Inductive, NEW a \in Actors,
           NEW pc \in {"begin_repo", "begin_session", "frame", "append", "remove", "complete",
                       "commit", "abort", "row_delete", "purge"},
           Goto(a, pc)
    PROVE  \E x \in Local : Set(a, x) /\ x.pc = pc /\ Same(x, req[a])
<1> DEFINE q == req[a]
           x == [q EXCEPT !.pc = pc]
<1>1. q \in Local
  BY DEF Inductive
<1>2. x \in Local /\ x.pc = pc
  BY <1>1 DEF Local
<1>3. Same(x, q)
  BY <1>1 DEF Local, Same
<1>4. Set(a, x)
  BY DEF Goto
<1> HIDE DEF x
<1>5. QED  BY <1>2, <1>3, <1>4

LEMMA Ended ==
    ASSUME NEW a, End(a)
    PROVE  \E x \in Local : x = Idle /\ Set(a, x) /\ x.pc = "idle"
<1>1. Idle.pc = "idle"
  BY DEF Idle
<1>2. QED  BY <1>1, IdleIsReady DEF End

(* A request that arrives asks for the status of an upload that was begun,  *)
(* or begins one with a new id.                                             *)
AsksOf(a, x) ==
    /\ x.pc = "status" /\ x.id \in used
    /\ UNCHANGED <<vol, staged, rows, up, live, sess, kappa, used, acks>>
Begins(a, x) ==
    /\ x.pc = "begin_row" /\ x.id \in Ids /\ x.id \notin used
    /\ used' = used \cup {x.id}
    /\ staged' = Put(staged, x.id, <<>>) /\ kappa' = Put(kappa, x.id, 0)
    /\ UNCHANGED <<vol, rows, up, live, sess, acks>>

LEMMA Arrivals ==
    ASSUME Inductive, Arrival
    PROVE  \E a \in Actors, x \in Local :
              /\ Arrive(a, x) /\ x.rest = x.body /\ x.from = 0 /\ x.at = 0
              /\ AsksOf(a, x) \/ Begins(a, x)
<1>1. PICK a \in Requests, id \in Ids, r \in Repos :
       \/ Start(a, id, r, <<>>, {})
       \/ \E body \in Bodies, claim \in Claims : Start(a, id, r, body, {claim})
       \/ \E body \in Bodies : Patch(a, id, r, body)
       \/ \E body \in Bodies, claim \in Claims : Finish(a, id, r, body, claim)
       \/ Cancel(a, id, r)
  BY DEF Arrival
<1>2. Bodies \subseteq Seq(Byte) /\ Claims \subseteq Digests /\ a \in Actors
  BY UploadsAssumption DEF Digests, Actors
<1> DEFINE Goal == \E b \in Actors, x \in Local :
                      /\ Arrive(b, x) /\ x.rest = x.body /\ x.from = 0 /\ x.at = 0
                      /\ AsksOf(b, x) \/ Begins(b, x)
<1>3. ASSUME NEW body \in Seq(Byte), NEW claims,
             claims = {} \/ \E c \in Claims : claims = {c},
             Start(a, id, r, body, claims)
      PROVE  Goal
  <2> DEFINE claim == IF claims = {} THEN NoClaim ELSE CHOOSE c \in claims : TRUE
             op == IF claims = {} THEN "begin" ELSE "put"
             x == [Idle EXCEPT !.op = op,
                               !.pc = "begin_row", !.id = id, !.repo = r,
                               !.body = body, !.rest = body, !.claim = claim]
  <2>1. claim \in Digests
    <3>1. CASE claims = {}
      BY <3>1, EmptySeq DEF NoClaim, Digest, Digests
    <3>2. CASE claims # {}
      BY <1>2, <1>3, <3>2
    <3>3. QED  BY <3>1, <3>2
  <2>2. Arrive(a, x)
    BY <1>3 DEF Start
  <2>a. op \in {"begin", "put"}
    OBVIOUS
  <2> HIDE DEF claim, op
  <2>3. x \in Local
    BY <2>1, <2>a, IdleIsReady DEF Local
  <2>4. x.pc = "begin_row" /\ x.id = id /\ x.rest = x.body /\ x.from = 0 /\ x.at = 0
    BY DEF Idle
  <2> HIDE DEF x
  <2>5. Begins(a, x)
    BY <1>3, <2>4 DEF Start, Begins
  <2>6. QED  BY <1>2, <2>2, <2>3, <2>4, <2>5
<1>4. ASSUME NEW x \in Local, Arrive(a, x), x.pc = "status", x.id \in used, x.rest = x.body,
             x.from = 0, x.at = 0, UNCHANGED <<durable, volatile, used, acks>>
      PROVE  Goal
  BY <1>2, <1>4 DEF AsksOf, durable, volatile
<1>5. ASSUME NEW body \in Bodies, Patch(a, id, r, body)
      PROVE  Goal
  <2> DEFINE x == [Idle EXCEPT !.op = "patch", !.pc = "status", !.id = id, !.repo = r,
                               !.body = body, !.rest = body]
  <2>1. x \in Local
    BY <1>2, IdleIsReady DEF Local
  <2>2. x.pc = "status" /\ x.id = id /\ x.rest = x.body /\ x.from = 0 /\ x.at = 0
    BY DEF Idle
  <2>3. Arrive(a, x) /\ id \in used /\ UNCHANGED <<durable, volatile, used, acks>>
    BY <1>5 DEF Patch
  <2> HIDE DEF x, Goal
  <2>4. QED  BY <1>4, <2>1, <2>2, <2>3
<1>6. ASSUME NEW body \in Bodies, NEW claim \in Claims, Finish(a, id, r, body, claim)
      PROVE  Goal
  <2> DEFINE x == [Idle EXCEPT !.op = "put", !.pc = "status", !.id = id, !.repo = r,
                               !.body = body, !.rest = body, !.claim = claim]
  <2>1. x \in Local
    BY <1>2, IdleIsReady DEF Local
  <2>2. x.pc = "status" /\ x.id = id /\ x.rest = x.body /\ x.from = 0 /\ x.at = 0
    BY DEF Idle
  <2>3. Arrive(a, x) /\ id \in used /\ UNCHANGED <<durable, volatile, used, acks>>
    BY <1>6 DEF Finish
  <2> HIDE DEF x, Goal
  <2>4. QED  BY <1>4, <2>1, <2>2, <2>3
<1>7. ASSUME Cancel(a, id, r)
      PROVE  Goal
  <2> DEFINE x == [Idle EXCEPT !.op = "cancel", !.pc = "status", !.id = id, !.repo = r]
  <2>1. x \in Local
    BY IdleIsReady DEF Local
  <2>2. x.pc = "status" /\ x.id = id /\ x.rest = x.body /\ x.from = 0 /\ x.at = 0
    BY DEF Idle
  <2>3. Arrive(a, x) /\ id \in used /\ UNCHANGED <<durable, volatile, used, acks>>
    BY <1>7 DEF Cancel
  <2> HIDE DEF x, Goal
  <2>4. QED  BY <1>4, <2>1, <2>2, <2>3
<1>8. <<>> \in Seq(Byte)
  BY EmptySeq
<1> HIDE DEF Goal
<1>a. ASSUME NEW body \in Bodies, NEW claim \in Claims, Start(a, id, r, body, {claim})
      PROVE  Goal
  BY <1>2, <1>3, <1>a
<1>b. ASSUME Start(a, id, r, <<>>, {})
      PROVE  Goal
  BY <1>3, <1>8, <1>b
<1>9. Goal
  BY <1>1, <1>5, <1>6, <1>7, <1>a, <1>b
<1>10. QED  BY <1>9 DEF Goal

-----------------------------------------------------------------------------
LEMMA SettlingArrival ==
    ASSUME Inductive, Settling, Arrival
    PROVE  Settling'
<1>1. PICK a \in Actors, x \in Local :
         /\ Arrive(a, x) /\ x.rest = x.body /\ x.from = 0 /\ x.at = 0
         /\ AsksOf(a, x) \/ Begins(a, x)
  BY Arrivals
<1>2. up = TRUE /\ req[a].pc = "idle" /\ Set(a, x)
  BY <1>1 DEF Arrive, At, Inductive
<1>3. CASE AsksOf(a, x)
  <2>1. UNCHANGED <<staged, rows, kappa, live>> /\ x.pc = "status"
    BY <1>3 DEF AsksOf
  <2>2. QED  BY <1>1, <1>2, <2>1, OwnsNothing
<1>4. CASE Begins(a, x)
  <2>1. /\ DOMAIN staged' = DOMAIN staged \cup {x.id}
        /\ DOMAIN kappa' = DOMAIN kappa \cup {x.id}
        /\ UNCHANGED <<rows, live>> /\ x.pc = "begin_row"
    BY <1>4 DEF Begins, Put
  <2>2. Owned(staged, rows, live, kappa, req)
    BY <1>2 DEF Settling
  <2>3. OwnsFile(x) /\ ~Ending(x) /\ ~OwnsFile(req[a]) /\ ~OwnsRow(req[a])
    BY <1>2, <2>1 DEF OwnsFile, OwnsRow, Beginning, Holding, Ending
  <2>4. \A k \in live' : k \in DOMAIN kappa' /\ k \in DOMAIN rows'
    BY <2>1, <2>2 DEF Owned
  <2>5. \A k \in DOMAIN kappa' \cup DOMAIN staged' :
           \/ k \in live'
           \/ x.id = k /\ OwnsFile(x)
           \/ k \in DOMAIN kappa \cup DOMAIN staged /\ k \notin live
    BY <2>1, <2>3
  <2>6. \A k \in DOMAIN rows' : k \in live' \/ (k \in DOMAIN rows /\ k \notin live)
    BY <2>1
  <2>7. \A b \in Actors : /\ Ending(req[b]) => req[b].id \notin live'
                          /\ Beginning(req[b]) => req[b].id \in DOMAIN kappa'
    BY <2>1, <2>2 DEF Owned
  <2>8. x.id \in DOMAIN kappa'
    BY <2>1
  <2>9. QED  BY <1>1, <1>2, <2>3, <2>4, <2>5, <2>6, <2>7, <2>8, OwnersMove
<1>5. QED  BY <1>1, <1>3, <1>4

LEMMA SettlingBeginRow ==
    ASSUME Inductive, Settling, NEW a \in Actors, BeginRow(a)
    PROVE  Settling'
<1> DEFINE q == req[a]
<1>1. /\ At(a, "begin_row") /\ Goto(a, "begin_repo") /\ UNCHANGED <<staged, live, kappa>>
      /\ DOMAIN rows' = DOMAIN rows \cup {q.id}
  BY DEF BeginRow, volatile, Put
<1>2. up = TRUE /\ q.pc = "begin_row"
  BY <1>1, AtStep
<1>3. PICK x \in Local : Set(a, x) /\ x.pc = "begin_repo" /\ Same(x, q)
  BY <1>1, Moving
<1>4. Owned(staged, rows, live, kappa, req)
  BY <1>2 DEF Settling
<1>5. x.id = q.id /\ OwnsFile(x) /\ OwnsRow(x) /\ ~Ending(x)
  BY <1>3 DEF OwnsFile, OwnsRow, Beginning, Ending, Same
<1>6. \A k \in live' : k \in DOMAIN kappa' /\ k \in DOMAIN rows'
  BY <1>1, <1>4 DEF Owned
<1>7. \A k \in DOMAIN kappa' \cup DOMAIN staged' :
         \/ k \in live'
         \/ x.id = k /\ OwnsFile(x)
         \/ k \in DOMAIN kappa \cup DOMAIN staged /\ k \notin live /\ k # q.id
  BY <1>1, <1>5
<1>8. \A k \in DOMAIN rows' :
         \/ k \in live'
         \/ x.id = k /\ OwnsRow(x)
         \/ k \in DOMAIN rows /\ k \notin live /\ k # q.id
  BY <1>1, <1>5
<1>9. \A b \in Actors : /\ Ending(req[b]) => req[b].id \notin live'
                        /\ Beginning(req[b]) => req[b].id \in DOMAIN kappa'
  BY <1>1, <1>4 DEF Owned
<1>10. x.id \in DOMAIN kappa'
  BY <1>2, <1>5, <1>9 DEF Beginning
<1>11. QED  BY <1>2, <1>3, <1>5, <1>6, <1>7, <1>8, <1>9, <1>10, OwnersMove

(* What was owned goes into the map. *)
LEMMA SettlingBeginSession ==
    ASSUME Inductive, Settling, NEW a \in Actors, BeginSession(a)
    PROVE  Settling'
<1> DEFINE q == req[a]
<1>1. /\ At(a, "begin_session") /\ UNCHANGED <<staged, rows, kappa>>
      /\ live' = live \cup {q.id} /\ (End(a) \/ Goto(a, "frame"))
  BY DEF BeginSession, durable
<1>2. /\ up = TRUE /\ q.pc = "begin_session"
      /\ Ready(q, vol, staged, rows, live, sess, kappa, used)
      /\ \A b \in Actors : b # a => Apart(q, req[b])
  BY <1>1, AtStep
<1>3. PICK x \in Local : Set(a, x) /\ x.pc \in {"idle", "frame"}
  BY <1>1, Moving, Ended
<1>4. Owned(staged, rows, live, kappa, req)
  BY <1>2 DEF Settling
<1>5. ~Ending(x) /\ ~Beginning(x)
  BY <1>3 DEF Beginning, Ending
<1>6. q.id \in DOMAIN kappa /\ q.id \in DOMAIN rows
  BY <1>2, <1>4 DEF Owned, Beginning, Ready, Began
<1>7. \A k \in live' : k \in DOMAIN kappa' /\ k \in DOMAIN rows'
  BY <1>1, <1>4, <1>6 DEF Owned
<1>8. \A k \in DOMAIN kappa' \cup DOMAIN staged' :
         \/ k \in live'
         \/ k \in DOMAIN kappa \cup DOMAIN staged /\ k \notin live /\ k # q.id
  BY <1>1
<1>9. \A k \in DOMAIN rows' :
         \/ k \in live'
         \/ k \in DOMAIN rows /\ k \notin live /\ k # q.id
  BY <1>1
<1>10. ASSUME NEW b \in Actors, b # a
       PROVE  /\ Ending(req[b]) => req[b].id \notin live'
              /\ Beginning(req[b]) => req[b].id \in DOMAIN kappa'
  <2>1. Ending(req[b]) => req[b].id # q.id
    BY <1>2, <1>10 DEF Apart, Beginning, Waiting, Ending
  <2>2. QED  BY <1>1, <1>4, <2>1 DEF Owned
<1>11. QED  BY <1>2, <1>3, <1>5, <1>7, <1>8, <1>9, <1>10, OwnersMove

(* An append may write a row for a session that a finish has taken from     *)
(* the map; the holder will delete it.                                      *)
LEMMA SettlingAppendFrame ==
    ASSUME Inductive, Settling, NEW a \in Actors, AppendFrame(a)
    PROVE  Settling'
<1> DEFINE q == req[a]
           id == q.id
<1>1. At(a, "append") /\ live' = live
  BY DEF AppendFrame
<1>2. /\ up = TRUE /\ q.pc = "append" /\ q \in Local
      /\ Ready(q, vol, staged, rows, live, sess, kappa, used)
      /\ TablesOK(staged, rows, live, sess, kappa, used)
      /\ \A b \in Actors : b # a => Apart(req[b], q)
  BY <1>1, AtStep
<1>3. CASE ~AppendAccepted(a)
  <2>1. End(a) /\ UNCHANGED <<staged, kappa, rows>>
    BY <1>3 DEF AppendFrame
  <2>2. PICK x \in Local : Set(a, x) /\ x.pc = "idle"
    BY <2>1, Ended
  <2>3. QED  BY <1>1, <1>2, <2>1, <2>2, OwnsNothing
<1>4. CASE AppendAccepted(a)
  <2>1. PICK x \in Local : Set(a, x) /\ x.pc = "frame"
    <3> DEFINE frame == NextFrame(q.rest)
               total == q.at + Len(frame)
               x == [q EXCEPT !.pc = "frame", !.at = total, !.rest = AfterFrame(q.rest)]
    <3>1. Set(a, x)
      BY <1>4 DEF AppendFrame
    <3>2. total \in Nat /\ AfterFrame(q.rest) \in Seq(Byte)
      BY <1>2, FramesAreBytes DEF Local
    <3> HIDE DEF total
    <3>3. x \in Local /\ x.pc = "frame"
      BY <1>2, <3>2 DEF Local
    <3> HIDE DEF x
    <3>4. QED  BY <3>1, <3>3
  <2>2. id \in DOMAIN kappa /\ id \in DOMAIN staged
    BY <1>2, <1>4 DEF AppendAccepted, Ready, Appending, TablesOK
  <2>3. /\ DOMAIN staged' = DOMAIN staged /\ DOMAIN kappa' = DOMAIN kappa
        /\ DOMAIN rows \subseteq DOMAIN rows' /\ DOMAIN rows' \subseteq DOMAIN rows \cup {id}
    <3> HIDE DEF NextFrame
    <3>1. QED  BY <1>4, <2>2 DEF AppendFrame, Put
  <2>4. Owned(staged, rows, live, kappa, req)
    BY <1>2 DEF Settling
  <2>5. ~OwnsFile(q) /\ ~OwnsRow(q) /\ ~Ending(x) /\ ~Beginning(x)
    BY <1>2, <2>1 DEF OwnsFile, OwnsRow, Beginning, Holding, Ending
  <2>6. \A k \in live' : k \in DOMAIN kappa' /\ k \in DOMAIN rows'
    BY <1>1, <2>3, <2>4 DEF Owned
  <2>7. \A k \in DOMAIN kappa' \cup DOMAIN staged' :
           \/ k \in live'
           \/ k \in DOMAIN kappa \cup DOMAIN staged /\ k \notin live
    BY <1>1, <2>3
  <2>8. id \in live \/ \E b \in Actors : b # a /\ req[b].id = id /\ OwnsRow(req[b])
    <3>1. SUFFICES ASSUME id \notin live
                   PROVE  \E b \in Actors : b # a /\ req[b].id = id /\ OwnsRow(req[b])
      OBVIOUS
    <3>2. PICK b \in Actors : req[b].id = id /\ OwnsFile(req[b])
      BY <2>2, <2>4, <3>1 DEF Owned
    <3>3. b # a
      BY <2>5, <3>2
    <3>4. ~Beginning(req[b])
      BY <1>2, <3>2, <3>3 DEF Apart, Waiting
    <3>5. OwnsRow(req[b])
      BY <3>2, <3>4 DEF OwnsFile, OwnsRow, Holding, Ending
    <3>6. QED  BY <3>2, <3>3, <3>5
  <2>9. \A k \in DOMAIN rows' :
           \/ k \in live'
           \/ \E b \in Actors : b # a /\ req[b].id = k /\ OwnsRow(req[b])
           \/ k \in DOMAIN rows /\ k \notin live
    BY <1>1, <2>3, <2>8
  <2>10. \A b \in Actors : /\ Ending(req[b]) => req[b].id \notin live'
                           /\ Beginning(req[b]) => req[b].id \in DOMAIN kappa'
    BY <1>1, <2>3, <2>4 DEF Owned
  <2>11. QED  BY <1>2, <2>1, <2>5, <2>6, <2>7, <2>9, <2>10, OwnersMove
<1>5. QED  BY <1>3, <1>4

(* The one that takes a session from the map owns what it had there. *)
LEMMA SettlingRemove ==
    ASSUME Inductive, Settling, NEW a \in Actors, Remove(a)
    PROVE  Settling'
<1> DEFINE q == req[a]
<1>1. At(a, "remove") /\ UNCHANGED <<staged, rows, kappa>>
  BY DEF Remove, durable
<1>2. up = TRUE /\ q.pc = "remove"
  BY <1>1, AtStep
<1>3. Owned(staged, rows, live, kappa, req)
  BY <1>2 DEF Settling
<1>4. CASE q.id \in live
  <2>1. Goto(a, "complete") \/ Goto(a, "abort")
    BY <1>4 DEF Remove
  <2>2. PICK x \in Local : Set(a, x) /\ x.pc \in {"complete", "abort"} /\ Same(x, q)
    BY <2>1, Moving
  <2>3. x.id = q.id /\ OwnsFile(x) /\ OwnsRow(x) /\ Ending(x) /\ ~Beginning(x)
    BY <2>2 DEF OwnsFile, OwnsRow, Beginning, Holding, Ending, Same
  <2>4. live' = live \ {q.id}
    BY <1>4 DEF Remove
  <2>5. \A k \in live' : k \in DOMAIN kappa' /\ k \in DOMAIN rows'
    BY <1>1, <1>3, <2>4 DEF Owned
  <2>6. \A k \in DOMAIN kappa' \cup DOMAIN staged' :
           \/ k \in live'
           \/ x.id = k /\ OwnsFile(x)
           \/ k \in DOMAIN kappa \cup DOMAIN staged /\ k \notin live /\ k # q.id
    BY <1>1, <2>3, <2>4
  <2>7. \A k \in DOMAIN rows' :
           \/ k \in live'
           \/ x.id = k /\ OwnsRow(x)
           \/ k \in DOMAIN rows /\ k \notin live /\ k # q.id
    BY <1>1, <2>3, <2>4
  <2>8. \A b \in Actors : /\ Ending(req[b]) => req[b].id \notin live'
                          /\ Beginning(req[b]) => req[b].id \in DOMAIN kappa'
    BY <1>1, <1>3, <2>4 DEF Owned
  <2>9. x.id \notin live'
    BY <2>3, <2>4
  <2>10. QED  BY <1>2, <2>2, <2>3, <2>5, <2>6, <2>7, <2>8, <2>9, OwnersMove
<1>5. CASE q.id \notin live
  <2>1. End(a) \/ Goto(a, "row_delete")
    BY <1>5 DEF Remove
  <2>2. live' = live
    BY <1>5 DEF Remove
  <2>3. PICK x \in Local : Set(a, x) /\ (x.pc = "idle" \/ (x.pc = "row_delete" /\ Same(x, q)))
    BY <2>1, Moving, Ended
  <2>4. /\ ~OwnsFile(q) /\ ~OwnsRow(q) /\ ~Beginning(x)
        /\ Ending(x) => x.id \notin live
    BY <1>2, <1>5, <2>3 DEF OwnsFile, OwnsRow, Beginning, Holding, Ending, Same
  <2>5. QED  BY <1>1, <1>2, <2>2, <2>3, <2>4, OwnersStay
<1>6. QED  BY <1>4, <1>5

(* A finish or cancel that has dropped what it held turns to the row. *)
LEMMA HeldMoves ==
    ASSUME Inductive, NEW a \in Actors, Complete(a) \/ Abort(a)
    PROVE  \E x \in Local : /\ Set(a, x) /\ x.id = req[a].id
                            /\ x.pc \in {"hard_link", "commit", "row_delete"}
<1> DEFINE q == req[a]
<1>a. q \in Local
  BY DEF Inductive
<1>1. CASE Goto(a, "row_delete")
  <2>1. PICK x \in Local : Set(a, x) /\ x.pc = "row_delete" /\ Same(x, q)
    BY <1>1, Moving
  <2>2. QED  BY <2>1 DEF Same
<1>2. CASE ~Goto(a, "row_delete")
  <2> DEFINE id == q.id
             claim == q.claim
             newly == NewlyStored(vol, claim)
             x == [q EXCEPT !.newly = newly, !.hash = sess[id].hash, !.repo = sess[id].repo,
                            !.pc = IF NeedsHardLink(claim) THEN "hard_link" ELSE "commit"]
  <2>1. Complete(a) /\ Set(a, x)
    BY <1>2 DEF Complete, Abort
  <2>2. At(a, "complete") /\ q.pc = "complete"
    BY <2>1 DEF Complete, At
  <2>3. sess[id] \in Session
    BY <2>2, AtStep DEF Ready, Holds, Holding, TablesOK
  <2>4. newly \in BOOLEAN /\ sess[id].hash \in SUBSET Seq(Byte) /\ sess[id].repo \in Repos
    BY <2>3 DEF Session, NewlyStored
  <2> HIDE DEF newly
  <2>5. x \in Local /\ x.pc \in {"hard_link", "commit"} /\ x.id = id
    BY <1>a, <2>4 DEF Local
  <2> HIDE DEF x
  <2>6. QED  BY <2>1, <2>5
<1>3. QED  BY <1>1, <1>2

LEMMA SettlingHeld ==
    ASSUME Inductive, Settling, NEW a \in Actors, Complete(a) \/ Abort(a)
    PROVE  Settling'
<1> DEFINE q == req[a]
<1>1. /\ At(a, "complete") \/ At(a, "abort")
      /\ kappa' = Drop(kappa, {q.id}) /\ staged' = Drop(staged, {q.id})
      /\ UNCHANGED <<rows, live>>
  BY Zenon DEF Complete, Abort
<1>2. up = TRUE /\ q \in Local /\ Holding(q)
  BY <1>1, AtStep DEF Holding
<1>3. PICK x \in Local : /\ Set(a, x) /\ x.id = req[a].id
                         /\ x.pc \in {"hard_link", "commit", "row_delete"}
  BY HeldMoves
<1>4. QED  BY <1>1, <1>2, <1>3, HeldDropped

LEMMA SettlingServe ==
    ASSUME Inductive, Settling, ~DiskErrors, NEW a \in Actors, Serve(a)
    PROVE  Settling'
<1> DEFINE q == req[a]
           Outside == {"idle", "status", "frame", "append", "remove", "purge"}
<1>1. ASSUME End(a) \/ (\E pc \in {"append", "remove"} : Goto(a, pc)), At(a, "status") \/ At(a, "frame"),
             UNCHANGED <<staged, rows, kappa, live>>
      PROVE  Settling'
  <2>1. PICK x \in Local : Set(a, x) /\ x.pc \in {"idle", "append", "remove"}
    BY <1>1, Moving, Ended
  <2>2. up = TRUE /\ q.pc \in {"status", "frame"}
    BY <1>1, AtStep
  <2>3. QED  BY <1>1, <2>1, <2>2, OwnsNothing
<1>2. CASE BeginRepo(a)
  <2>1. /\ At(a, "begin_repo") /\ Goto(a, "begin_session")
        /\ UNCHANGED <<staged, rows, kappa, live>>
    BY <1>2 DEF BeginRepo, volatile
  <2>2. PICK x \in Local : Set(a, x) /\ x.pc = "begin_session" /\ Same(x, q)
    BY <2>1, Moving
  <2>3. up = TRUE /\ q.pc = "begin_repo"
    BY <2>1, AtStep
  <2>4. OwnsFile(x) /\ OwnsRow(x) /\ ~Ending(x) /\ Beginning(q) /\ x.id = q.id
    BY <2>2, <2>3 DEF OwnsFile, OwnsRow, Beginning, Ending, Same
  <2>5. QED  BY <2>1, <2>2, <2>3, <2>4, OwnersStay
<1>3. CASE Status(a)
  <2>1. At(a, "status") /\ UNCHANGED <<staged, rows, kappa, live>>
    BY <1>3 DEF Status, durable, volatile
  <2>2. CASE End(a)
    BY <1>1, <2>1, <2>2
  <2>3. CASE ~End(a)
    <3> DEFINE s == sess[q.id]
               x == [q EXCEPT !.from = s.received, !.at = s.received,
                              !.pc = IF q.op = "cancel" THEN "remove" ELSE "frame"]
    <3>1. q.id \in live /\ Set(a, x)
      BY <1>3, <2>3 DEF Status
    <3>2. q \in Local /\ up = TRUE /\ q.pc = "status" /\ s.received \in Nat
      BY <2>1, <3>1, AtStep DEF TablesOK, Session
    <3>3. x \in Local /\ x.pc \in {"remove", "frame"}
      BY <3>2 DEF Local
    <3> HIDE DEF x
    <3>4. QED  BY <2>1, <3>1, <3>2, <3>3, OwnsNothing
  <2>4. QED  BY <2>2, <2>3
<1>4. CASE Frame(a)
  <2>1. /\ At(a, "frame") /\ UNCHANGED <<staged, rows, kappa, live>>
        /\ End(a) \/ Goto(a, "append")
    BY <1>4 DEF Frame, durable, volatile
  <2>2. QED  BY <1>1, <2>1
<1>5. CASE BodyEnds(a)
  <2>1. /\ At(a, "frame") /\ UNCHANGED <<staged, rows, kappa, live>>
        /\ End(a) \/ Goto(a, "remove")
    BY <1>5 DEF BodyEnds, durable, volatile
  <2>2. QED  BY <1>1, <2>1
<1>6. CASE HardLink(a)
  <2>1. /\ At(a, "hard_link") /\ Goto(a, "commit")
        /\ UNCHANGED <<staged, rows, kappa, live>>
    BY <1>6 DEF HardLink, volatile
  <2>2. PICK x \in Local : Set(a, x) /\ x.pc = "commit" /\ Same(x, q)
    BY <2>1, Moving
  <2>3. up = TRUE /\ q.pc = "hard_link"
    BY <2>1, AtStep
  <2>4. ~OwnsFile(q) /\ OwnsRow(x) /\ ~Beginning(x) /\ Ending(q) /\ x.id = q.id
    BY <2>2, <2>3 DEF OwnsFile, OwnsRow, Beginning, Holding, Ending, Same
  <2>5. q.id \notin live
    BY <2>3, <2>4 DEF Settling, Owned
  <2>6. QED  BY <2>1, <2>2, <2>3, <2>4, <2>5, OwnersStay
<1>7. CASE Commit(a) \/ RowDelete(a)
  <2>1. /\ At(a, "commit") \/ At(a, "row_delete")
        /\ rows' = Drop(rows, {q.id}) /\ UNCHANGED <<staged, kappa, live>>
        /\ End(a) \/ Goto(a, "purge")
    BY <1>7, Zenon DEF Commit, RowDelete, volatile
  <2>2. PICK x \in Local : Set(a, x) /\ x.pc \in {"idle", "purge"}
    BY <2>1, Moving, Ended
  <2>3. up = TRUE /\ q.pc \in {"commit", "row_delete"}
    BY <2>1, AtStep
  <2>4. QED  BY <2>1, <2>2, <2>3, RowDropped
<1>8. ~AppendFrameFails(a) /\ ~CompleteFails(a)
  BY DEF AppendFrameFails, CompleteFails
<1>9. QED
  BY <1>2, <1>3, <1>4, <1>5, <1>6, <1>7, <1>8, SettlingBeginRow, SettlingBeginSession,
     SettlingAppendFrame, SettlingRemove, SettlingHeld DEF Serve

LEMMA PurgerMoves ==
    ASSUME Inductive, Purge
    PROVE  \E x \in Local : Set(Purger, x) /\ x.pc \in {"idle", "remove", "purge"}
<1> DEFINE q == req[Purger]
<1>a. q \in Local
  BY DEF Inductive, Actors
<1>1. CASE PurgeScan
  <2> DEFINE x == [Idle EXCEPT !.op = "purge", !.pc = "purge", !.todo = ExpiredUploads]
  <2>1. ExpiredUploads \in SUBSET Ids
    <3>1. TablesOK(staged, rows, live, sess, kappa, used)
      BY DEF Inductive
    <3>2. QED  BY <3>1 DEF TablesOK, ExpiredUploads
  <2>2. x \in Local /\ x.pc = "purge"
    BY <2>1, IdleIsReady DEF Local
  <2>3. Set(Purger, x)
    BY <1>1 DEF PurgeScan
  <2> HIDE DEF x
  <2>4. QED  BY <2>2, <2>3
<1>2. CASE PurgeNext /\ q.todo = {}
  BY <1>2, Ended DEF PurgeNext
<1>3. CASE PurgeNext /\ q.todo # {}
  <2>1. PICK id \in q.todo :
           Set(Purger, [q EXCEPT !.id = id, !.pc = "remove", !.todo = @ \ {id}])
    BY <1>3 DEF PurgeNext
  <2> DEFINE x == [q EXCEPT !.id = id, !.pc = "remove", !.todo = q.todo \ {id}]
  <2>2. Set(Purger, x)
    BY <2>1
  <2>3. q.todo \in SUBSET Ids
    BY <1>a DEF Local
  <2>4. x \in Local /\ x.pc = "remove"
    BY <1>a, <2>1, <2>3 DEF Local
  <2> HIDE DEF x
  <2>5. QED  BY <2>2, <2>4
<1>4. QED  BY <1>1, <1>2, <1>3 DEF Purge

LEMMA SettlingPurge ==
    ASSUME Inductive, Settling, Purge
    PROVE  Settling'
<1> DEFINE q == req[Purger]
<1>1. Purger \in Actors
  BY DEF Actors
<1>2. /\ At(Purger, "idle") \/ At(Purger, "purge")
      /\ UNCHANGED <<staged, rows, kappa, live>>
  BY Zenon DEF Purge, PurgeScan, PurgeNext, durable, volatile
<1>3. up = TRUE /\ q.pc \in {"idle", "purge"} /\ q \in Local
  BY <1>1, <1>2, AtStep
<1>5. PICK x \in Local : Set(Purger, x) /\ x.pc \in {"idle", "remove", "purge"}
  BY PurgerMoves
<1>6. QED  BY <1>1, <1>2, <1>3, <1>5, OwnsNothing

(* A start leaves the uploads that have both a row and a file. *)
LEMMA SettlingRestart ==
    ASSUME Inductive, Restart
    PROVE  Settling'
<1> DEFINE both == DOMAIN rows \cap DOMAIN staged
<1>1. /\ DOMAIN rows' = both /\ DOMAIN staged' = both /\ DOMAIN kappa' = both
      /\ live' = both /\ req' = req
  BY DEF Restart, Drop
<1>2. \A a \in Actors : req[a] = Idle
  BY DEF Restart, Inductive
<1>3. ~Ending(Idle) /\ ~Beginning(Idle)
  BY DEF Idle, Ending, Beginning
<1>4. Owned(staged', rows', live', kappa', req')
  BY <1>1, <1>2, <1>3 DEF Owned
<1>5. QED  BY <1>4 DEF Settling

LEMMA SettlingStep == ~DiskErrors /\ Inductive /\ Settling /\ [Next]_vars => Settling'
<1> SUFFICES ASSUME ~DiskErrors, Inductive, Settling, [Next]_vars PROVE Settling'
  OBVIOUS
<1>1. ASSUME NEW a \in Actors, Client(a) PROVE Settling'
  <2>1. /\ At(a, "status") \/ At(a, "frame")
        /\ End(a) /\ UNCHANGED <<staged, rows, kappa, live>>
    BY <1>1 DEF Client, RangeRefused, ClientGone, durable, volatile
  <2>2. PICK x \in Local : Set(a, x) /\ x.pc = "idle"
    BY <2>1, Ended
  <2>3. up = TRUE /\ req[a].pc \in {"status", "frame"}
    BY <2>1, AtStep
  <2>4. QED  BY <2>1, <2>2, <2>3, OwnsNothing
<1>2. ASSUME NEW a \in Actors, Serve(a) PROVE Settling'
  BY <1>2, SettlingServe
<1>3. CASE Kill
  BY <1>3 DEF Kill, Settling
<1>4. CASE Tick
  <2>1. /\ DOMAIN rows' = DOMAIN rows /\ UNCHANGED <<staged, kappa, live, req, up>>
    BY <1>4, Zenon DEF Tick
  <2>2. QED  BY <2>1 DEF Settling, Owned
<1>5. CASE UNCHANGED vars
  BY <1>5 DEF vars, durable, volatile, history, Settling
<1>6. QED
  BY <1>1, <1>2, <1>3, <1>4, <1>5, SettlingArrival, SettlingPurge, SettlingRestart DEF Next

(* On a disk that does not fail, whatever the interleaving of requests and  *)
(* the purge timer and wherever kills fell, when nothing is in flight the   *)
(* session map, Kappa's sessions, the UPLOADS rows and the staging files    *)
(* name the same uploads (upload_begin, upload_finish, upload_cancel,       *)
(* resume_uploads).                                                         *)
THEOREM UploadsQuietAgree ==
    ASSUME ~DiskErrors
    PROVE  Spec => []QuietAgree
<1>1. Init => Settling
  <2> SUFFICES ASSUME Init PROVE Owned(staged, rows, live, kappa, req)
    BY DEF Settling
  <2>1. ~Ending(Idle) /\ ~Beginning(Idle)
    BY DEF Idle, Ending, Beginning
  <2>2. QED  BY <2>1 DEF Init, Owned, NoRows
<1>2. Inductive /\ Settling => QuietAgree
  <2> SUFFICES ASSUME Inductive, Settling, up, \A a \in Actors : req[a].pc = "idle"
               PROVE  /\ live = DOMAIN sess /\ live = DOMAIN kappa
                      /\ live = DOMAIN rows /\ live = DOMAIN staged
    BY DEF QuietAgree
  <2>1. TablesOK(staged, rows, live, sess, kappa, used)
    BY DEF Inductive
  <2>2. Owned(staged, rows, live, kappa, req)
    BY DEF Settling
  <2>3. \A a \in Actors : ~OwnsFile(req[a]) /\ ~OwnsRow(req[a])
    BY DEF OwnsFile, OwnsRow, Beginning, Holding, Ending
  <2>4. live \subseteq DOMAIN sess /\ DOMAIN sess \subseteq DOMAIN staged
    BY <2>1 DEF TablesOK
  <2>5. live = DOMAIN kappa /\ DOMAIN staged \subseteq live /\ live = DOMAIN rows
    BY <2>2, <2>3 DEF Owned
  <2>6. QED  BY <2>4, <2>5
<1>3. Inductive /\ Settling /\ [Next]_vars => Settling'
  BY SettlingStep
<1>4. QED  BY <1>1, <1>2, <1>3, AlwaysInductive, PTL DEF Spec

-----------------------------------------------------------------------------
(***************************************************************************)
(* Acknowledged chunks.  A session's total is its file's length, so an     *)
(* append that passes the offset check writes at the end of the file, and  *)
(* a file only ever grows or goes away, never to come back under the same  *)
(* id (Grows).  A request therefore keeps what it has written so far where *)
(* it wrote it (Streaming), and so does a chunk once it is answered.  On a *)
(* disk that does not fail: a failed write leaves bytes no total counts    *)
(* (AppendFrameFails).                                                     *)
(***************************************************************************)
InPlace(bytes, from, body, n) ==
    /\ from + n <= Len(bytes)
    /\ \A k \in 1 .. n : bytes[from + k] = body[k]

(* `rest` is what of the body is still to come. *)
Leaves(rest, body, done) ==
    /\ done \in Nat /\ done + Len(rest) = Len(body)
    /\ \A k \in 1 .. Len(rest) : rest[k] = body[done + k]

Streaming(q, st) ==
    /\ Beginning(q) => q.from = 0 /\ q.at = 0
    /\ Beginning(q) \/ q.pc = "status" => q.rest = q.body
    /\ q.pc \in {"frame", "append"} =>
          /\ q.from <= q.at /\ Leaves(q.rest, q.body, q.at - q.from)
          /\ q.id \in DOMAIN st => InPlace(st[q.id], q.from, q.body, q.at - q.from)

Chunk(ack, st, us) ==
    /\ ack.id \in us /\ ack.from \in Nat /\ ack.body \in Seq(Byte)
    /\ ack.id \in DOMAIN st => InPlace(st[ack.id], ack.from, ack.body, Len(ack.body))

Totals(ss, st) == \A id \in DOMAIN ss : ss[id].received = Len(st[id])

Answered ==
    /\ Totals(sess, staged)
    /\ \A a \in Actors : Streaming(req[a], staged)
    /\ \A ack \in acks : Chunk(ack, staged, used)

(* Files of uploads that were begun only grow, or go. *)
Extends(new, old) ==
    new = old \/ (Len(old) <= Len(new) /\ \A k \in 1 .. Len(old) : new[k] = old[k])
Grows(new, old, us) ==
    \A id \in DOMAIN new : id \in us => id \in DOMAIN old /\ Extends(new[id], old[id])

-----------------------------------------------------------------------------
(* Arithmetic on places. *)
LEMMA PastDone ==
    ASSUME NEW from \in Nat, NEW done \in Nat, NEW len \in Nat, NEW frame \in Nat,
           NEW rest \in Nat, len = from + done, frame <= rest,
           NEW k \in 1 .. done + frame, ~(k <= done), NEW j, j = k - done
    PROVE  /\ ~(from + k <= len) /\ j \in 1 .. frame /\ j \in 1 .. rest
           /\ (from + k) - len = j /\ done + j = k
OBVIOUS

LEMMA ConcatExtends ==
    ASSUME NEW s \in Seq(Byte), NEW t \in Seq(Byte)
    PROVE  Extends(s \o t, s)
<1>1. /\ Len(s \o t) = Len(s) + Len(t)
      /\ \A i \in 1 .. Len(s) + Len(t) :
            (s \o t)[i] = IF i <= Len(s) THEN s[i] ELSE t[i - Len(s)]
  BY ConcatProperties
<1>2. Len(s) \in Nat /\ Len(t) \in Nat
  BY LenProperties
<1>3. \A k \in 1 .. Len(s) : (s \o t)[k] = s[k]
  BY <1>1, <1>2
<1>4. QED  BY <1>1, <1>2, <1>3 DEF Extends

LEMMA InPlaceStays ==
    ASSUME NEW new \in Seq(Byte), NEW old \in Seq(Byte), Extends(new, old),
           NEW from \in Nat, NEW n \in Nat, NEW body, InPlace(old, from, body, n)
    PROVE  InPlace(new, from, body, n)
<1>1. Len(new) \in Nat /\ Len(old) \in Nat
  BY LenProperties
<1>2. CASE new = old
  BY <1>2
<1>3. CASE Len(old) <= Len(new) /\ \A k \in 1 .. Len(old) : new[k] = old[k]
  <2>1. from + n <= Len(old) /\ \A k \in 1 .. n : old[from + k] = body[k]
    BY DEF InPlace
  <2>2. ASSUME NEW k \in 1 .. n PROVE new[from + k] = body[k]
    <3>1. from + k \in 1 .. Len(old)
      BY <1>1, <2>1
    <3>2. QED  BY <1>3, <2>1, <3>1
  <2>3. QED  BY <1>1, <1>3, <2>1, <2>2 DEF InPlace
<1>4. QED  BY <1>2, <1>3 DEF Extends

(* A frame is the front of what is left. *)
Follows(after, rest, n) ==
    n + Len(after) = Len(rest) /\ \A k \in 1 .. Len(after) : after[k] = rest[n + k]

LEMMA FrameSplits ==
    ASSUME NEW rest \in Seq(Byte)
    PROVE  /\ NextFrame(rest) \in Seq(Byte) /\ Len(NextFrame(rest)) \in Nat
           /\ Len(NextFrame(rest)) <= Len(rest)
           /\ \A k \in 1 .. Len(NextFrame(rest)) : NextFrame(rest)[k] = rest[k]
           /\ AfterFrame(rest) \in Seq(Byte)
           /\ Follows(AfterFrame(rest), rest, Len(NextFrame(rest)))
<1> DEFINE frame == NextFrame(rest)
           after == AfterFrame(rest)
<1>1. Len(rest) \in Nat /\ FrameSize \in Nat /\ \A i \in 1 .. Len(rest) : rest[i] \in Byte
  BY UploadsAssumption, LenProperties
<1>2. PICK n \in Nat : n <= Len(rest) /\ frame = SubSeq(rest, 1, n)
  BY <1>1 DEF NextFrame
<1>a. after = SubSeq(rest, Len(frame) + 1, Len(rest))
  BY DEF AfterFrame
<1> HIDE DEF frame, after
<1>3. /\ frame \in Seq(Byte) /\ Len(frame) = n
      /\ \A i \in 1 .. n : frame[i] = rest[i]
  <2>1. \A i \in 1 .. n : rest[i] \in Byte
    BY <1>1, <1>2
  <2>2. /\ SubSeq(rest, 1, n) \in Seq(Byte)
        /\ Len(SubSeq(rest, 1, n)) = IF 1 <= n THEN n - 1 + 1 ELSE 0
        /\ \A i \in 1 .. n - 1 + 1 : SubSeq(rest, 1, n)[i] = rest[1 + i - 1]
    BY <2>1, SubSeqProperties
  <2>3. \A i \in 1 .. n : frame[i] = rest[1 + i - 1] /\ 1 + i - 1 = i
    BY <1>2, <2>2
  <2>4. QED  BY <1>2, <2>2, <2>3
<1>4. after = SubSeq(rest, n + 1, Len(rest))
  BY <1>a, <1>3
<1>5. /\ after \in Seq(Byte) /\ n + Len(after) = Len(rest)
      /\ \A k \in 1 .. Len(after) : after[k] = rest[n + k]
  <2>1. \A i \in n + 1 .. Len(rest) : rest[i] \in Byte
    BY <1>1, <1>2
  <2>2. /\ after \in Seq(Byte)
        /\ Len(after) = IF n + 1 <= Len(rest) THEN Len(rest) - (n + 1) + 1 ELSE 0
        /\ \A i \in 1 .. Len(rest) - (n + 1) + 1 : after[i] = rest[(n + 1) + i - 1]
    BY <1>1, <1>2, <1>4, <2>1, SubSeqProperties
  <2>3. Len(after) = Len(rest) - n
    BY <1>1, <1>2, <2>2
  <2>4. ASSUME NEW k \in 1 .. Len(after) PROVE after[k] = rest[n + k]
    <3>1. k \in 1 .. Len(rest) - (n + 1) + 1 /\ (n + 1) + k - 1 = n + k
      BY <1>1, <1>2, <2>3
    <3>2. QED  BY <2>2, <3>1
  <2>5. QED  BY <1>1, <1>2, <2>2, <2>3, <2>4
<1>6. /\ frame \in Seq(Byte) /\ Len(frame) \in Nat /\ Len(frame) <= Len(rest)
      /\ \A k \in 1 .. Len(frame) : frame[k] = rest[k]
      /\ after \in Seq(Byte) /\ Follows(after, rest, Len(frame))
  BY <1>2, <1>3, <1>5 DEF Follows
<1>7. QED  BY <1>6 DEF frame, after

(* Written at the end of the file, a frame continues the body. *)
LEMMA AppendedInPlace ==
    ASSUME NEW bytes \in Seq(Byte), NEW frame \in Seq(Byte), NEW rest \in Seq(Byte), NEW body,
           NEW from \in Nat, NEW done \in Nat, Len(bytes) = from + done,
           Leaves(rest, body, done), Len(frame) <= Len(rest),
           \A k \in 1 .. Len(frame) : frame[k] = rest[k],
           InPlace(bytes, from, body, done)
    PROVE  InPlace(bytes \o frame, from, body, done + Len(frame))
<1>1. /\ Len(bytes \o frame) = Len(bytes) + Len(frame)
      /\ \A i \in 1 .. Len(bytes) + Len(frame) :
            (bytes \o frame)[i] = IF i <= Len(bytes) THEN bytes[i] ELSE frame[i - Len(bytes)]
  BY ConcatProperties
<1>2. Len(bytes) \in Nat /\ Len(frame) \in Nat /\ Len(rest) \in Nat
  BY LenProperties
<1>3. ASSUME NEW k \in 1 .. done + Len(frame)
      PROVE  (bytes \o frame)[from + k] = body[k]
  <2>1. k \in Int /\ from + k \in 1 .. Len(bytes) + Len(frame)
    BY <1>2
  <2>2. CASE k <= done
    <3>1. from + k <= Len(bytes) /\ k \in 1 .. done
      BY <1>2, <2>1, <2>2
    <3>2. (bytes \o frame)[from + k] = bytes[from + k]
      BY <1>1, <2>1, <3>1
    <3>3. QED  BY <3>1, <3>2 DEF InPlace
  <2>3. CASE ~(k <= done)
    <3> DEFINE j == k - done
    <3>1. /\ ~(from + k <= Len(bytes)) /\ j \in 1 .. Len(frame) /\ j \in 1 .. Len(rest)
          /\ (from + k) - Len(bytes) = j /\ done + j = k
      BY <1>2, <2>3, PastDone
    <3> HIDE DEF j
    <3>2. (bytes \o frame)[from + k] = frame[j]
      BY <1>1, <2>1, <3>1
    <3>3. frame[j] = rest[j] /\ rest[j] = body[done + j]
      BY <3>1 DEF Leaves
    <3>4. QED  BY <3>1, <3>2, <3>3
  <2>4. QED  BY <2>2, <2>3
<1>4. from + (done + Len(frame)) <= Len(bytes \o frame)
  BY <1>1, <1>2
<1>5. QED  BY <1>3, <1>4 DEF InPlace

LEMMA AfterLeaves ==
    ASSUME NEW rest \in Seq(Byte), NEW after \in Seq(Byte), NEW body \in Seq(Byte),
           NEW n \in Nat, NEW done \in Nat,
           Leaves(rest, body, done), Follows(after, rest, n)
    PROVE  Leaves(after, body, done + n)
<1>1. Len(rest) \in Nat /\ Len(after) \in Nat /\ Len(body) \in Nat
  BY LenProperties
<1>2. done + Len(rest) = Len(body) /\ n + Len(after) = Len(rest)
  BY DEF Leaves, Follows
<1>3. (done + n) + Len(after) = Len(body)
  BY <1>1, <1>2
<1>4. ASSUME NEW k \in 1 .. Len(after) PROVE after[k] = body[(done + n) + k]
  <2>1. n + k \in 1 .. Len(rest) /\ done + (n + k) = (done + n) + k
    BY <1>1, <1>2
  <2>2. rest[n + k] = body[done + (n + k)]
    BY <2>1 DEF Leaves
  <2>3. QED  BY <2>1, <2>2 DEF Follows
<1>5. done + n \in Nat
  OBVIOUS
<1>6. QED  BY <1>3, <1>4, <1>5 DEF Leaves

-----------------------------------------------------------------------------
(* What is in place stays in place. *)

LEMMA StreamingStays ==
    ASSUME NEW q \in Local, NEW new, NEW old, NEW us,
           \A id \in DOMAIN new : new[id] \in Seq(Byte),
           \A id \in DOMAIN old : old[id] \in Seq(Byte),
           Grows(new, old, us), q.pc \in {"frame", "append"} => q.id \in us,
           Streaming(q, old)
    PROVE  Streaming(q, new)
<1>1. ASSUME q.pc \in {"frame", "append"}, q.id \in DOMAIN new
      PROVE  InPlace(new[q.id], q.from, q.body, q.at - q.from)
  <2>1. q.id \in DOMAIN old /\ Extends(new[q.id], old[q.id])
    BY <1>1 DEF Grows
  <2>2. q.from \in Nat /\ q.at - q.from \in Nat
    BY <1>1 DEF Local, Streaming, Leaves
  <2>3. InPlace(old[q.id], q.from, q.body, q.at - q.from)
    BY <1>1, <2>1 DEF Streaming
  <2>4. new[q.id] \in Seq(Byte) /\ old[q.id] \in Seq(Byte)
    BY <1>1, <2>1
  <2> DEFINE n == q.at - q.from
             from == q.from
  <2> HIDE DEF n, from
  <2>5. QED  BY <2>1, <2>2, <2>3, <2>4, InPlaceStays DEF n, from
<1>2. QED  BY <1>1 DEF Streaming

LEMMA ChunkStays ==
    ASSUME NEW ack, NEW new, NEW old, NEW us, NEW more, us \subseteq more,
           \A id \in DOMAIN new : new[id] \in Seq(Byte),
           \A id \in DOMAIN old : old[id] \in Seq(Byte),
           Grows(new, old, us), Chunk(ack, old, us)
    PROVE  Chunk(ack, new, more)
<1>1. ack.id \in us /\ ack.from \in Nat /\ ack.body \in Seq(Byte) /\ Len(ack.body) \in Nat
  BY LenProperties DEF Chunk
<1>2. ASSUME ack.id \in DOMAIN new
      PROVE  InPlace(new[ack.id], ack.from, ack.body, Len(ack.body))
  <2>1. ack.id \in DOMAIN old /\ Extends(new[ack.id], old[ack.id])
    BY <1>1, <1>2 DEF Grows
  <2>2. InPlace(old[ack.id], ack.from, ack.body, Len(ack.body))
    BY <2>1 DEF Chunk
  <2>3. new[ack.id] \in Seq(Byte) /\ old[ack.id] \in Seq(Byte)
    BY <1>2, <2>1
  <2>4. QED  BY <1>1, <2>1, <2>2, <2>3, InPlaceStays
<1>3. QED  BY <1>1, <1>2 DEF Chunk

(* The files stay as they are, or some go. *)
LEMMA DroppingGrows ==
    ASSUME NEW new, NEW old, NEW us,
           \A id \in DOMAIN new : id \in DOMAIN old /\ new[id] = old[id]
    PROVE  Grows(new, old, us)
BY DEF Grows, Extends

LEMMA FilesAreBytes ==
    ASSUME Inductive
    PROVE  \A id \in DOMAIN staged : staged[id] \in Seq(Byte)
BY DEF Inductive, TablesOK

LEMMA FilesAreBytesNext ==
    ASSUME Inductive'
    PROVE  \A id \in DOMAIN staged' : staged'[id] \in Seq(Byte)
BY DEF Inductive, TablesOK

(* Every step: the files grow or go, the totals are kept, and the request   *)
(* that moves streams on from what it has written.                          *)
LEMMA AnswersMove ==
    ASSUME Inductive, Inductive', Answered, NEW a \in Actors, NEW x \in Local, Set(a, x),
           Grows(staged', staged, used), used \subseteq used', Totals(sess', staged'),
           Streaming(x, staged'),
           \A ack \in acks' : ack \in acks \/ Chunk(ack, staged', used')
    PROVE  Answered'
<1>1. req'[a] = x /\ \A b \in Actors : b # a => req'[b] = req[b]
  BY DEF Inductive, Set
<1>2. /\ \A id \in DOMAIN staged : staged[id] \in Seq(Byte)
      /\ \A id \in DOMAIN staged' : staged'[id] \in Seq(Byte)
  BY FilesAreBytes, FilesAreBytesNext
<1>3. ASSUME NEW b \in Actors PROVE Streaming(req'[b], staged')
  <2>1. CASE b = a
    BY <1>1, <2>1
  <2>2. CASE b # a
    <3>1. req[b] \in Local /\ Streaming(req[b], staged)
      BY DEF Inductive, Answered
    <3>2. req[b].pc \in {"frame", "append"} => req[b].id \in used
      BY DEF Inductive, Ready, Known
    <3>3. Streaming(req[b], staged')
      BY <1>2, <3>1, <3>2, StreamingStays
    <3>4. QED  BY <1>1, <2>2, <3>3
  <2>3. QED  BY <2>1, <2>2
<1>4. ASSUME NEW ack \in acks' PROVE Chunk(ack, staged', used')
  <2>1. CASE ack \in acks
    <3>1. Chunk(ack, staged, used)
      BY <2>1 DEF Answered
    <3>2. QED  BY <1>2, <3>1, ChunkStays
  <2>2. QED  BY <1>4, <2>1
<1>5. QED  BY <1>3, <1>4 DEF Answered

(* Steps at which a request does not stream. *)
LEMMA NotStreaming ==
    ASSUME NEW x, NEW st,
           x.pc \in {"idle", "remove", "complete", "hard_link", "commit", "abort",
                     "row_delete", "purge"}
    PROVE  Streaming(x, st)
BY DEF Streaming, Beginning

(* A session and its file stay as they are, or both go. *)
LEMMA TotalsStay ==
    ASSUME Inductive, Answered,
           \A id \in DOMAIN sess' : /\ id \in DOMAIN sess /\ sess'[id] = sess[id]
                                    /\ staged'[id] = staged[id]
    PROVE  Totals(sess', staged')
BY DEF Answered, Totals

(* A request moves without streaming, and files and sessions stay or go. *)
LEMMA AnswersQuietly ==
    ASSUME Inductive, Inductive', Answered, NEW a \in Actors, NEW x \in Local, Set(a, x),
           x.pc \in {"idle", "remove", "complete", "hard_link", "commit", "abort",
                     "row_delete", "purge"},
           \A id \in DOMAIN staged' : id \in DOMAIN staged /\ staged'[id] = staged[id],
           \A id \in DOMAIN sess' : /\ id \in DOMAIN sess /\ sess'[id] = sess[id]
                                    /\ staged'[id] = staged[id],
           UNCHANGED <<used, acks>>
    PROVE  Answered'
<1>1. Grows(staged', staged, used)
  BY DroppingGrows
<1>2. Totals(sess', staged') /\ Streaming(x, staged')
  BY TotalsStay, NotStreaming
<1>3. QED  BY <1>1, <1>2, AnswersMove

(* A request moves and streams on, the tables as they are. *)
LEMMA AnswersInPlace ==
    ASSUME Inductive, Inductive', Answered, NEW a \in Actors, NEW x \in Local, Set(a, x),
           UNCHANGED <<staged, sess, used, acks>>, Streaming(x, staged)
    PROVE  Answered'
<1>1. Grows(staged', staged, used)
  BY DroppingGrows
<1>2. Totals(sess', staged')
  BY TotalsStay
<1>3. QED  BY <1>1, <1>2, AnswersMove

-----------------------------------------------------------------------------
LEMMA AnsweredArrival ==
    ASSUME Inductive, Inductive', Answered, Arrival
    PROVE  Answered'
<1>1. PICK a \in Actors, x \in Local :
         /\ Arrive(a, x) /\ x.rest = x.body /\ x.from = 0 /\ x.at = 0
         /\ AsksOf(a, x) \/ Begins(a, x)
  BY Arrivals
<1>2. Set(a, x)
  BY <1>1 DEF Arrive
<1>3. CASE AsksOf(a, x)
  <2>1. UNCHANGED <<staged, sess, used, acks>> /\ x.pc = "status"
    BY <1>3 DEF AsksOf
  <2>2. Streaming(x, staged)
    BY <1>1, <2>1 DEF Streaming, Beginning
  <2>3. QED  BY <1>2, <2>1, <2>2, AnswersInPlace
<1>4. CASE Begins(a, x)
  <2>1. /\ DOMAIN staged' = DOMAIN staged \cup {x.id} /\ x.id \notin used
        /\ \A id \in DOMAIN staged : id # x.id => staged'[id] = staged[id]
        /\ UNCHANGED <<sess, acks>> /\ used' = used \cup {x.id} /\ x.pc = "begin_row"
    BY <1>4 DEF Begins, Put
  <2>2. DOMAIN sess \subseteq DOMAIN staged /\ DOMAIN staged \subseteq used
    BY DEF Inductive, TablesOK
  <2>3. Grows(staged', staged, used)
    BY <2>1 DEF Grows, Extends
  <2>4. \A id \in DOMAIN sess' : /\ id \in DOMAIN sess /\ sess'[id] = sess[id]
                                 /\ staged'[id] = staged[id]
    BY <2>1, <2>2
  <2>5. Totals(sess', staged')
    BY <2>4, TotalsStay
  <2>6. Streaming(x, staged')
    BY <1>1, <2>1 DEF Streaming, Beginning
  <2>7. QED  BY <1>2, <2>1, <2>3, <2>5, <2>6, AnswersMove
<1>5. QED  BY <1>1, <1>3, <1>4

(* A body that has only begun is all still to come. *)
LEMMA AllToCome ==
    ASSUME NEW q \in Local, NEW st, q.pc = "frame", q.rest = q.body, q.from = q.at,
           \A id \in DOMAIN st : st[id] \in Seq(Byte),
           q.id \in DOMAIN st => q.at <= Len(st[q.id])
    PROVE  Streaming(q, st)
<1>1. q.at \in Nat /\ Len(q.body) \in Nat /\ q.at - q.from = 0
  BY LenProperties DEF Local
<1>2. Leaves(q.rest, q.body, q.at - q.from)
  BY <1>1 DEF Leaves
<1>3. ASSUME q.id \in DOMAIN st
      PROVE  InPlace(st[q.id], q.from, q.body, q.at - q.from)
  BY <1>1, <1>3 DEF InPlace
<1>4. q.from <= q.at
  BY <1>1
<1>5. QED  BY <1>2, <1>3, <1>4 DEF Streaming, Beginning

LEMMA AnsweredBegin ==
    ASSUME Inductive, Inductive', Answered, NEW a \in Actors, BeginRow(a) \/ BeginRepo(a)
    PROVE  Answered'
<1> DEFINE q == req[a]
<1>1. /\ At(a, "begin_row") \/ At(a, "begin_repo")
      /\ Goto(a, "begin_repo") \/ Goto(a, "begin_session")
      /\ UNCHANGED <<staged, sess, used, acks>>
  BY DEF BeginRow, BeginRepo, volatile, history
<1>2. PICK x \in Local :
         Set(a, x) /\ x.pc \in {"begin_repo", "begin_session"} /\ Same(x, q)
  BY <1>1, Moving
<1>3. Beginning(q) /\ Streaming(q, staged)
  BY <1>1, AtStep DEF Beginning, Answered
<1>4. Streaming(x, staged)
  BY <1>2, <1>3 DEF Streaming, Same, Beginning
<1>5. QED  BY <1>1, <1>2, <1>4, AnswersInPlace

(* A new session has an empty file. *)
LEMMA AnsweredBeginSession ==
    ASSUME Inductive, Inductive', Answered, NEW a \in Actors, BeginSession(a)
    PROVE  Answered'
<1> DEFINE q == req[a]
           s == [repo |-> q.repo, received |-> 0, hash |-> {<<>>},
                 age |-> rows[q.id].age, written |-> rows[q.id].age]
<1>1. /\ At(a, "begin_session")
      /\ End(a) \/ Goto(a, "frame")
      /\ UNCHANGED <<staged, used, acks>>
      /\ sess' = Put(sess, q.id, s)
  BY DEF BeginSession, durable, history
<1>2. q.pc = "begin_session" /\ q.id \in DOMAIN staged /\ staged[q.id] = <<>>
  <2>1. q.pc = "begin_session" /\ Ready(q, vol, staged, rows, live, sess, kappa, used)
    BY <1>1, AtStep
  <2>2. QED  BY <2>1 DEF Ready, Began, Beginning
<1>3. s.received = 0
  OBVIOUS
<1> HIDE DEF s
<1>4. Streaming(q, staged) /\ Totals(sess, staged)
  BY DEF Answered
<1>5. Totals(sess', staged')
  <2>1. /\ DOMAIN sess' = DOMAIN sess \cup {q.id} /\ sess'[q.id] = s
        /\ \A k \in DOMAIN sess : k # q.id => sess'[k] = sess[k]
    BY <1>1 DEF Put
  <2>2. Len(staged[q.id]) = 0
    BY <1>2, EmptySeq
  <2>3. QED  BY <1>1, <1>3, <1>4, <2>1, <2>2 DEF Totals
<1>6. Grows(staged', staged, used)
  BY <1>1, DroppingGrows
<1>7. CASE End(a)
  <2>1. PICK x \in Local : Set(a, x) /\ x.pc = "idle"
    BY <1>7, Ended
  <2>2. QED  BY <1>1, <1>5, <1>6, <2>1, NotStreaming, AnswersMove
<1>8. CASE Goto(a, "frame")
  <2>1. PICK x \in Local : Set(a, x) /\ x.pc = "frame" /\ Same(x, q)
    BY <1>8, Moving
  <2>2. x.rest = x.body /\ x.from = x.at /\ x.at = 0 /\ x.id = q.id
    BY <1>2, <1>4, <2>1 DEF Streaming, Same, Beginning
  <2>3. x.at <= Len(staged[q.id])
    BY <1>2, <2>2, EmptySeq
  <2>4. Streaming(x, staged)
    BY <2>1, <2>2, <2>3, AllToCome, FilesAreBytes
  <2>5. QED  BY <1>1, <1>5, <1>6, <2>1, <2>4, AnswersMove
<1>9. QED  BY <1>1, <1>7, <1>8

(* The status of a session is the length of its file. *)
LEMMA AnsweredStatus ==
    ASSUME Inductive, Inductive', Answered, NEW a \in Actors, Status(a)
    PROVE  Answered'
<1> DEFINE q == req[a]
<1>1. At(a, "status") /\ UNCHANGED <<staged, sess, used, acks>>
  BY DEF Status, durable, volatile, history
<1>2. CASE End(a)
  <2>1. PICK x \in Local : Set(a, x) /\ x.pc = "idle"
    BY <1>2, Ended
  <2>2. QED  BY <1>1, <2>1, NotStreaming, AnswersInPlace
<1>3. CASE ~End(a)
  <2> DEFINE s == sess[q.id]
             x == [q EXCEPT !.from = s.received, !.at = s.received,
                            !.pc = IF q.op = "cancel" THEN "remove" ELSE "frame"]
  <2>1. q.id \in live /\ Set(a, x)
    BY <1>3 DEF Status
  <2>2. /\ q \in Local /\ q.pc = "status"
        /\ q.id \in DOMAIN sess /\ s.received \in Nat
    BY <1>1, <2>1, AtStep DEF TablesOK, Session
  <2>3. x \in Local /\ x.pc \in {"remove", "frame"}
    BY <2>2 DEF Local
  <2>4. x.from = s.received /\ x.at = s.received /\ x.rest = q.rest /\ x.body = q.body
        /\ x.id = q.id
    BY <2>2 DEF Local
  <2> HIDE DEF x
  <2>5. Streaming(q, staged) /\ s.received = Len(staged[q.id])
    BY <2>2 DEF Answered, Totals
  <2>6. x.rest = x.body /\ x.from = x.at /\ x.at <= Len(staged[x.id])
    BY <2>2, <2>4, <2>5 DEF Streaming
  <2>7. Streaming(x, staged)
    BY <2>3, <2>6, AllToCome, FilesAreBytes, NotStreaming
  <2>8. QED  BY <1>1, <2>1, <2>3, <2>7, AnswersInPlace
<1>4. QED  BY <1>2, <1>3

LEMMA AnsweredFrame ==
    ASSUME Inductive, Inductive', Answered, NEW a \in Actors, Frame(a)
    PROVE  Answered'
<1> DEFINE q == req[a]
<1>1. /\ At(a, "frame") /\ UNCHANGED <<staged, sess, used, acks>>
      /\ End(a) \/ Goto(a, "append")
  BY DEF Frame, durable, volatile, history
<1>2. CASE End(a)
  <2>1. PICK x \in Local : Set(a, x) /\ x.pc = "idle"
    BY <1>2, Ended
  <2>2. QED  BY <1>1, <2>1, NotStreaming, AnswersInPlace
<1>3. CASE Goto(a, "append")
  <2>1. PICK x \in Local : Set(a, x) /\ x.pc = "append" /\ Same(x, q)
    BY <1>3, Moving
  <2>2. q.pc = "frame" /\ Streaming(q, staged)
    BY <1>1, AtStep DEF Answered
  <2>3. Streaming(x, staged)
    BY <2>1, <2>2 DEF Streaming, Same, Beginning
  <2>4. QED  BY <1>1, <2>1, <2>3, AnswersInPlace
<1>4. QED  BY <1>1, <1>2, <1>3

(* At the end of its body a chunk is all in place: it may be answered. *)
LEMMA AnsweredBodyEnds ==
    ASSUME Inductive, Inductive', Answered, NEW a \in Actors, BodyEnds(a)
    PROVE  Answered'
<1> DEFINE q == req[a]
           ack == [id |-> q.id, from |-> q.from, body |-> q.body]
<1>1. At(a, "frame") /\ q.rest = <<>> /\ UNCHANGED <<staged, sess, used>>
  BY DEF BodyEnds, durable, volatile
<1>2. /\ q \in Local /\ q.pc = "frame" /\ Streaming(q, staged) /\ q.id \in used
  <2>1. q \in Local /\ q.pc = "frame" /\ Ready(q, vol, staged, rows, live, sess, kappa, used)
    BY <1>1, AtStep
  <2>2. QED  BY <2>1 DEF Answered, Ready, Known
<1>3. CASE q.op = "put"
  <2>1. Goto(a, "remove") /\ acks' = acks
    BY <1>3 DEF BodyEnds
  <2>2. PICK x \in Local : Set(a, x) /\ x.pc = "remove"
    BY <2>1, Moving
  <2>3. QED  BY <1>1, <2>1, <2>2, NotStreaming, AnswersInPlace
<1>4. CASE q.op # "put"
  <2>1. End(a) /\ acks' = acks \cup {ack}
    BY <1>4 DEF BodyEnds
  <2>2. PICK x \in Local : Set(a, x) /\ x.pc = "idle"
    BY <2>1, Ended
  <2>3. ack.id = q.id /\ ack.from = q.from /\ ack.body = q.body
    OBVIOUS
  <2> HIDE DEF ack
  <2>4. q.from \in Nat /\ q.at \in Nat /\ q.body \in Seq(Byte) /\ Len(q.body) \in Nat
    BY <1>2, LenProperties DEF Local
  <2>5. Leaves(<<>>, q.body, q.at - q.from)
    BY <1>1, <1>2 DEF Streaming
  <2>6. q.at - q.from = Len(q.body)
    <3>1. Len(<<>>) = 0
      BY EmptySeq
    <3>2. QED  BY <2>4, <2>5, <3>1 DEF Leaves
  <2>7. q.id \in DOMAIN staged => InPlace(staged[q.id], q.from, q.body, Len(q.body))
    BY <1>2, <2>6 DEF Streaming
  <2>8. Chunk(ack, staged', used')
    BY <1>1, <1>2, <2>3, <2>4, <2>7 DEF Chunk
  <2>9. Grows(staged', staged, used)
    BY <1>1, DroppingGrows
  <2>10. Totals(sess', staged')
    BY <1>1, TotalsStay
  <2>11. Streaming(x, staged')
    BY <2>2, NotStreaming
  <2>12. \A k \in acks' : k \in acks \/ Chunk(k, staged', used')
    BY <2>1, <2>8
  <2>13. QED  BY <1>1, <2>2, <2>9, <2>10, <2>11, <2>12, AnswersMove
<1>5. QED  BY <1>3, <1>4

(* An accepted append writes at the end of the file, where the body goes on. *)
LEMMA AnsweredAppendFrame ==
    ASSUME Inductive, Inductive', Answered, NEW a \in Actors, AppendFrame(a)
    PROVE  Answered'
<1> DEFINE q == req[a]
           id == q.id
           frame == NextFrame(q.rest)
           after == AfterFrame(q.rest)
           total == q.at + Len(frame)
           x == [q EXCEPT !.pc = "frame", !.at = total, !.rest = after]
<1>1. At(a, "append") /\ UNCHANGED <<used, acks>>
  BY DEF AppendFrame
<1>2. /\ q \in Local /\ q.pc = "append"
      /\ TablesOK(staged, rows, live, sess, kappa, used)
      /\ Ready(q, vol, staged, rows, live, sess, kappa, used)
  BY <1>1, AtStep
<1>3. CASE ~AppendAccepted(a)
  <2>1. End(a) /\ UNCHANGED <<staged, sess>>
    BY <1>3 DEF AppendFrame
  <2>2. PICK y \in Local : Set(a, y) /\ y.pc = "idle"
    BY <2>1, Ended
  <2>3. QED  BY <1>1, <2>1, <2>2, NotStreaming, AnswersInPlace
<1>4. CASE AppendAccepted(a)
  <2>1. id \in DOMAIN sess /\ id \in DOMAIN staged /\ sess[id].received = q.at
    BY <1>2, <1>4 DEF AppendAccepted, Ready, Appending, TablesOK
  <2>2. Streaming(q, staged) /\ Totals(sess, staged)
    BY DEF Answered
  <2>3. Len(staged[id]) = q.at /\ staged[id] \in Seq(Byte)
    BY <1>2, <2>1, <2>2 DEF Totals, TablesOK
  <2>4. /\ q.rest \in Seq(Byte) /\ q.body \in Seq(Byte) /\ q.from \in Nat /\ q.at \in Nat
    BY <1>2 DEF Local
  <2>5. /\ frame \in Seq(Byte) /\ Len(frame) \in Nat /\ Len(frame) <= Len(q.rest)
        /\ \A k \in 1 .. Len(frame) : frame[k] = q.rest[k]
        /\ after \in Seq(Byte) /\ Follows(after, q.rest, Len(frame))
    BY <2>4, FrameSplits
  <2>a. Len(frame) \in Nat
    BY <2>5
  <2>6. Set(a, x)
    BY <1>4 DEF AppendFrame
  <2>7. total \in Nat
    BY <2>4, <2>5
  <2> DEFINE s == Appended(sess[id], frame, total, RowDue(id))
  <2>8. /\ staged' = [staged EXCEPT ![id] = staged[id] \o frame]
        /\ sess' = [sess EXCEPT ![id] = s]
    BY <1>4 DEF AppendFrame
  <2>9. s.received = total
    BY DEF Appended
  <2> HIDE DEF frame, after, s
  <2>10. x \in Local /\ x.pc = "frame" /\ x.id = id
    BY <1>2, <2>5, <2>7 DEF Local
  <2>11. x.at = total /\ x.rest = after /\ x.body = q.body /\ x.from = q.from
    BY <1>2 DEF Local
  <2> HIDE DEF x
  <2>12. /\ DOMAIN staged' = DOMAIN staged /\ staged'[id] = staged[id] \o frame
         /\ \A k \in DOMAIN staged : k # id => staged'[k] = staged[k]
         /\ DOMAIN sess' = DOMAIN sess /\ sess'[id] = s
         /\ \A k \in DOMAIN sess : k # id => sess'[k] = sess[k]
    BY <2>1, <2>8
  <2>13. Grows(staged', staged, used)
    <3>1. Extends(staged[id] \o frame, staged[id])
      BY <2>3, <2>5, ConcatExtends
    <3>2. QED  BY <2>12, <3>1 DEF Grows, Extends
  <2>14. Totals(sess', staged')
    <3>1. Len(staged[id] \o frame) = Len(staged[id]) + Len(frame)
      BY <2>3, <2>5, ConcatProperties
    <3>2. s.received = Len(staged'[id])
      BY <2>3, <2>9, <2>12, <3>1
    <3>3. \A k \in DOMAIN sess : k \in DOMAIN staged
      BY <1>2 DEF TablesOK
    <3>4. QED  BY <2>2, <2>12, <3>2, <3>3 DEF Totals
  <2>15. Streaming(x, staged')
    <3> DEFINE done == q.at - q.from
               bytes == staged[id]
    <3>1. /\ done \in Nat /\ Leaves(q.rest, q.body, done) /\ q.from <= q.at
          /\ InPlace(bytes, q.from, q.body, done)
      BY <1>2, <2>1, <2>2 DEF Streaming, Leaves
    <3>2. Len(bytes) = q.from + done /\ x.at - x.from = done + Len(frame) /\ x.from <= x.at
      BY <3>1, <2>3, <2>4, <2>a, <2>11
    <3> HIDE DEF done, bytes
    <3>3. bytes \in Seq(Byte)
      BY <2>3 DEF bytes
    <3>4. InPlace(bytes \o frame, q.from, q.body, done + Len(frame))
      BY <2>4, <2>5, <3>1, <3>2, <3>3, AppendedInPlace
    <3>6. Leaves(after, q.body, done + Len(frame))
      BY <2>4, <2>5, <3>1, AfterLeaves
    <3>7. staged'[x.id] = bytes \o frame
      BY <2>10, <2>12 DEF bytes
    <3>8. QED  BY <2>10, <2>11, <3>2, <3>4, <3>6, <3>7 DEF Streaming, Beginning
  <2>16. QED  BY <1>1, <2>6, <2>10, <2>13, <2>14, <2>15, AnswersMove
<1>5. QED  BY <1>3, <1>4

(* What a kill tears is at the end of a file. *)
LEMMA TornGrows ==
    ASSUME Inductive, NEW st \in Torn
    PROVE  Grows(st, staged, used)
<1>1. /\ TablesOK(staged, rows, live, sess, kappa, used)
      /\ req \in [Actors -> Local]
      /\ \A a \in Actors : Ready(req[a], vol, staged, rows, live, sess, kappa, used)
  BY DEF Inductive
<1>2. CASE st = staged
  BY <1>2, DroppingGrows
<1>3. CASE st # staged
  <2>1. PICK a \in {b \in Actors : req[b].pc = "append" /\ AppendAccepted(b)} :
           \E n \in 1 .. Len(NextFrame(req[a].rest)) :
              st = [staged EXCEPT ![req[a].id] = @ \o SubSeq(req[a].rest, 1, n)]
    BY <1>3 DEF Torn
  <2>2. PICK n \in 1 .. Len(NextFrame(req[a].rest)) :
           st = [staged EXCEPT ![req[a].id] = @ \o SubSeq(req[a].rest, 1, n)]
    BY <2>1
  <2> DEFINE id == req[a].id
             part == SubSeq(req[a].rest, 1, n)
  <2>3. id \in DOMAIN staged
    BY <1>1, <2>1 DEF AppendAccepted, Ready, Appending, TablesOK
  <2>4. req[a].rest \in Seq(Byte)
    BY <1>1, <2>1 DEF Local
  <2>5. n \in Nat /\ n <= Len(NextFrame(req[a].rest))
    BY <2>2, <2>4, FramesAreBytes
  <2>6. part \in Seq(Byte)
    BY <2>4, <2>5, FramePartsAreBytes
  <2>7. st = [staged EXCEPT ![id] = staged[id] \o part]
    BY <2>2
  <2> HIDE DEF part, id
  <2>8. Extends(staged[id] \o part, staged[id])
    BY <1>1, <2>3, <2>6, ConcatExtends DEF TablesOK
  <2>9. QED  BY <2>3, <2>7, <2>8 DEF Grows, Extends
<1>4. QED  BY <1>2, <1>3

(* With no request in flight. *)
LEMMA AnswersAlone ==
    ASSUME Inductive, Inductive', Answered, \A a \in Actors : req'[a] = Idle,
           Grows(staged', staged, used), Totals(sess', staged'), UNCHANGED <<used, acks>>
    PROVE  Answered'
<1>1. Idle.pc = "idle"
  BY DEF Idle
<1>2. \A a \in Actors : Streaming(req'[a], staged')
  BY <1>1, NotStreaming
<1>3. /\ \A id \in DOMAIN staged : staged[id] \in Seq(Byte)
      /\ \A id \in DOMAIN staged' : staged'[id] \in Seq(Byte)
  BY FilesAreBytes, FilesAreBytesNext
<1>4. ASSUME NEW ack \in acks' PROVE Chunk(ack, staged', used')
  <2>1. Chunk(ack, staged, used)
    BY <1>4 DEF Answered
  <2>2. QED  BY <1>3, <2>1, ChunkStays
<1>5. QED  BY <1>2, <1>4 DEF Answered

LEMMA AnsweredKill ==
    ASSUME Inductive, Inductive', Answered, Kill
    PROVE  Answered'
<1>1. /\ \A a \in Actors : req'[a] = Idle
      /\ staged' \in Torn /\ DOMAIN sess' = {} /\ UNCHANGED <<used, acks>>
  BY DEF Kill, NoRows
<1>2. Grows(staged', staged, used)
  BY <1>1, TornGrows
<1>3. Totals(sess', staged')
  BY <1>1 DEF Totals
<1>4. QED  BY <1>1, <1>2, <1>3, AnswersAlone

(* A start takes the length of the file, torn or not, for the total. *)
LEMMA AnsweredRestart ==
    ASSUME Inductive, Inductive', Answered, Restart
    PROVE  Answered'
<1> DEFINE both == DOMAIN rows \cap DOMAIN staged
           s(id) == [repo |-> rows[id].repo, received |-> Len(staged[id]), hash |-> {},
                     age |-> rows[id].age, written |-> rows[id].age]
<1>1. /\ staged' = Drop(staged, DOMAIN staged \ both) /\ sess' = [id \in both |-> s(id)]
      /\ ~up /\ UNCHANGED <<req, used, acks>>
  BY DEF Restart, history
<1>2. \A id \in both : s(id).received = Len(staged[id])
  OBVIOUS
<1> HIDE DEF s
<1>3. /\ DOMAIN staged' = both /\ \A id \in both : staged'[id] = staged[id]
      /\ DOMAIN sess' = both /\ \A id \in both : sess'[id] = s(id)
  BY <1>1 DEF Drop
<1>4. \A a \in Actors : req'[a] = Idle
  BY <1>1 DEF Inductive
<1>5. Grows(staged', staged, used)
  BY <1>3, DroppingGrows
<1>6. Totals(sess', staged')
  BY <1>2, <1>3 DEF Totals
<1>7. QED  BY <1>1, <1>4, <1>5, <1>6, AnswersAlone

LEMMA AnsweredTick ==
    ASSUME Inductive, Answered, Tick
    PROVE  Answered'
<1> DEFINE s(id) == [sess[id] EXCEPT !.age = Older(@), !.written = Older(@)]
<1>1. sess' = [id \in DOMAIN sess |-> s(id)] /\ UNCHANGED <<staged, req, used, acks>>
  BY Zenon DEF Tick
<1>2. ASSUME NEW id \in DOMAIN sess PROVE s(id).received = sess[id].received
  <2>1. sess[id] \in Session
    BY DEF Inductive, TablesOK
  <2>2. QED  BY <2>1 DEF Session
<1> HIDE DEF s
<1>3. DOMAIN sess' = DOMAIN sess /\ \A id \in DOMAIN sess : sess'[id] = s(id)
  BY <1>1
<1>4. Totals(sess', staged')
  BY <1>1, <1>2, <1>3 DEF Answered, Totals
<1>5. QED  BY <1>1, <1>4 DEF Answered

LEMMA AnsweredServe ==
    ASSUME ~DiskErrors, Inductive, Inductive', Answered, NEW a \in Actors, Serve(a)
    PROVE  Answered'
<1> DEFINE q == req[a]
<1>1. CASE Remove(a)
  <2>1. /\ UNCHANGED <<staged, sess, used, acks>>
        /\ End(a) \/ \E pc \in {"complete", "abort", "row_delete"} : Goto(a, pc)
    BY <1>1 DEF Remove, durable, history
  <2>2. PICK x \in Local : Set(a, x) /\ x.pc \in {"idle", "complete", "abort", "row_delete"}
    BY <2>1, Moving, Ended
  <2>3. QED  BY <2>1, <2>2, NotStreaming, AnswersInPlace
<1>2. CASE HardLink(a)
  <2>1. UNCHANGED <<staged, sess, used, acks>> /\ Goto(a, "commit")
    BY <1>2 DEF HardLink, volatile, history
  <2>2. PICK x \in Local : Set(a, x) /\ x.pc = "commit"
    BY <2>1, Moving
  <2>3. QED  BY <2>1, <2>2, NotStreaming, AnswersInPlace
<1>3. CASE Commit(a) \/ RowDelete(a)
  <2>1. UNCHANGED <<staged, sess, used, acks>> /\ (End(a) \/ Goto(a, "purge"))
    BY <1>3, Zenon DEF Commit, RowDelete, volatile, history
  <2>2. PICK x \in Local : Set(a, x) /\ x.pc \in {"idle", "purge"}
    BY <2>1, Moving, Ended
  <2>3. QED  BY <2>1, <2>2, NotStreaming, AnswersInPlace
<1>4. CASE Complete(a) \/ Abort(a)
  <2>1. /\ staged' = Drop(staged, {q.id}) /\ sess' = Drop(sess, {q.id})
        /\ UNCHANGED <<used, acks>>
    BY <1>4, Zenon DEF Complete, Abort, history
  <2>2. DOMAIN sess \subseteq DOMAIN staged
    BY DEF Inductive, TablesOK
  <2>3. /\ \A id \in DOMAIN staged' : id \in DOMAIN staged /\ staged'[id] = staged[id]
        /\ \A id \in DOMAIN sess' : /\ id \in DOMAIN sess /\ sess'[id] = sess[id]
                                    /\ staged'[id] = staged[id]
    BY <2>1, <2>2 DEF Drop
  <2>4. PICK x \in Local : Set(a, x) /\ x.pc \in {"hard_link", "commit", "row_delete"}
    BY <1>4, HeldMoves
  <2>5. QED  BY <2>1, <2>3, <2>4, AnswersQuietly
<1>5. ~AppendFrameFails(a) /\ ~CompleteFails(a)
  BY DEF AppendFrameFails, CompleteFails
<1>6. QED
  BY <1>1, <1>2, <1>3, <1>4, <1>5, AnsweredBegin, AnsweredBeginSession, AnsweredStatus,
     AnsweredFrame, AnsweredBodyEnds, AnsweredAppendFrame DEF Serve

LEMMA AnsweredPurge ==
    ASSUME Inductive, Inductive', Answered, Purge
    PROVE  Answered'
<1>1. Purger \in Actors
  BY DEF Actors
<1>2. UNCHANGED <<staged, sess, used, acks>>
  BY Zenon DEF Purge, PurgeScan, PurgeNext, durable, volatile, history
<1>3. PICK x \in Local : Set(Purger, x) /\ x.pc \in {"idle", "remove", "purge"}
  BY PurgerMoves
<1>4. QED  BY <1>1, <1>2, <1>3, NotStreaming, AnswersInPlace

LEMMA AnsweredStep ==
    ~DiskErrors /\ Inductive /\ Inductive' /\ Answered /\ [Next]_vars => Answered'
<1> SUFFICES ASSUME ~DiskErrors, Inductive, Inductive', Answered, [Next]_vars
             PROVE  Answered'
  OBVIOUS
<1>1. ASSUME NEW a \in Actors, Client(a) PROVE Answered'
  <2>1. End(a) /\ UNCHANGED <<staged, sess, used, acks>>
    BY <1>1 DEF Client, RangeRefused, ClientGone, durable, volatile, history
  <2>2. PICK x \in Local : Set(a, x) /\ x.pc = "idle"
    BY <2>1, Ended
  <2>3. QED  BY <2>1, <2>2, NotStreaming, AnswersInPlace
<1>2. ASSUME NEW a \in Actors, Serve(a) PROVE Answered'
  BY <1>2, AnsweredServe
<1>3. CASE UNCHANGED vars
  BY <1>3 DEF vars, durable, volatile, history, Answered
<1>4. QED
  BY <1>1, <1>2, <1>3, AnsweredArrival, AnsweredPurge, AnsweredKill, AnsweredRestart,
     AnsweredTick DEF Next

(* Bytes that are in place are the part of the file there. *)
LEMMA InPlaceIsPart ==
    ASSUME NEW bytes \in Seq(Byte), NEW from \in Nat, NEW body \in Seq(Byte),
           InPlace(bytes, from, body, Len(body))
    PROVE  SubSeq(bytes, from + 1, from + Len(body)) = body
<1> DEFINE part == SubSeq(bytes, from + 1, from + Len(body))
<1>1. /\ Len(bytes) \in Nat /\ Len(body) \in Nat
      /\ \A i \in 1 .. Len(bytes) : bytes[i] \in Byte
  BY LenProperties
<1>2. from + Len(body) <= Len(bytes)
  BY DEF InPlace
<1>3. \A i \in from + 1 .. from + Len(body) : bytes[i] \in Byte
  BY <1>1, <1>2
<1>4. from + 1 \in Int /\ from + Len(body) \in Int
  BY <1>1
<1>5. /\ part \in Seq(Byte)
      /\ Len(part) = IF from + 1 <= from + Len(body)
                     THEN (from + Len(body)) - (from + 1) + 1 ELSE 0
      /\ \A i \in 1 .. (from + Len(body)) - (from + 1) + 1 : part[i] = bytes[(from + 1) + i - 1]
  BY <1>3, <1>4, SubSeqProperties
<1> HIDE DEF part
<1>6. Len(part) = Len(body)
  BY <1>1, <1>5
<1>7. ASSUME NEW i \in 1 .. Len(part) PROVE part[i] = body[i]
  <2>1. /\ i \in 1 .. Len(body) /\ i \in 1 .. (from + Len(body)) - (from + 1) + 1
        /\ (from + 1) + i - 1 = from + i
    BY <1>1, <1>6
  <2>2. part[i] = bytes[from + i]
    BY <1>5, <2>1
  <2>3. QED  BY <2>1, <2>2 DEF InPlace
<1>8. part = body
  BY <1>5, <1>6, <1>7, SeqEqual
<1>9. QED  BY <1>8 DEF part

(* On a disk that does not fail, a chunk answered 202 stays where the       *)
(* answer said for as long as its upload has a staging file: no other       *)
(* request on the same session, no kill that tears a frame and no restart   *)
(* moves, overwrites or cuts it (upload_append under the session's lock,    *)
(* Kappa's offset check, resume_uploads).                                   *)
THEOREM UploadsAcksInPlace ==
    ASSUME ~DiskErrors
    PROVE  Spec => []AcksInPlace
<1>1. Init => Answered
  <2> SUFFICES ASSUME Init PROVE Answered
    OBVIOUS
  <2>1. Idle.pc = "idle"
    BY DEF Idle
  <2>2. \A a \in Actors : Streaming(req[a], staged)
    BY <2>1, NotStreaming DEF Init
  <2>3. QED  BY <2>2 DEF Init, Answered, Totals, NoRows
<1>2. Inductive /\ Answered => AcksInPlace
  <2> SUFFICES ASSUME Inductive, Answered, NEW ack \in acks, ack.id \in DOMAIN staged
               PROVE  /\ ack.from + Len(ack.body) <= Len(staged[ack.id])
                      /\ SubSeq(staged[ack.id], ack.from + 1, ack.from + Len(ack.body)) = ack.body
    BY DEF AcksInPlace
  <2>1. Chunk(ack, staged, used) /\ staged[ack.id] \in Seq(Byte)
    BY FilesAreBytes DEF Answered
  <2>2. /\ ack.from \in Nat /\ ack.body \in Seq(Byte)
        /\ InPlace(staged[ack.id], ack.from, ack.body, Len(ack.body))
    BY <2>1 DEF Chunk
  <2>3. QED  BY <2>1, <2>2, InPlaceIsPart DEF InPlace
<1>3. Inductive /\ Inductive' /\ Answered /\ [Next]_vars => Answered'
  BY AnsweredStep
<1>4. QED  BY <1>1, <1>2, <1>3, AlwaysInductive, PTL DEF Spec
=============================================================================
