------------------------- MODULE OciRegistryProofs -------------------------
(***************************************************************************)
(* For any number of repositories, contents, tags, concurrent requests and *)
(* kills: the registry's state is well typed, every link has its bytes and *)
(* every referrers row has its link; a tag is served until requests        *)
(* disturb each other in its own repository; and the registry implements   *)
(* RegistryPromise.                                                        *)
(*                                                                         *)
(* LinkedIsStored is not inductive: a commit, and a mount's link, are      *)
(* steps of their own, after the step that saw the bytes.  InFlight says   *)
(* what a request in between has established, FilesOK what the files hold  *)
(* while PUTs of the same bytes share a `.tmp`, and Assured what a request *)
(* of a repository that has not run wild relies on.                        *)
(*                                                                         *)
(* Composed with the collector, as long as nothing happened that Calm      *)
(* excludes, every tag is served and pulls completely while a sweep runs   *)
(* and is killed, referrers of tagged manifests stay, and a collection     *)
(* that ends leaves nothing to collect.  Collectable is the invariant of   *)
(* that part.                                                              *)
(***************************************************************************)
EXTENDS OciGc, OciVolumeProofs, SequenceTheorems, FiniteSetTheorems, WellFoundedInduction

VolumeOK(v) ==
    /\ IsVolume(v)
    /\ TypedVolume(v)
    /\ \A key \in DOMAIN v.links : key[2] \in DOMAIN v.files
    /\ \A row \in v.referrers : <<row[1], row[3]>> \in DOMAIN v.links

(* What the step q.pc of a request relies on. *)
InFlight(q, v) ==
    /\ q.pc # "idle" \/ q.op # "none" => q.repo \in Repos
    /\ q.pc \in {"check", "store", "place", "create", "write", "rename", "hard_link",
                 "alias", "commit", "tag", "stat", "link", "lookup"}
          => q.digest \in Digests
    /\ q.pc \in {"check", "store", "place", "create", "write", "rename", "hard_link",
                 "alias", "commit"}
          => q.op = "push" \/ q.digest.of \in Manifests
    /\ q.pc = "resolve" => q.op = "delete_tag"
    /\ q.pc \in {"hard_link", "alias", "commit", "link"} => q.digest \in DOMAIN v.files
    /\ q.pc \in {"list", "unlink"} \/ (q.pc = "untag" /\ q.op # "delete_tag")
          => q.unlink # <<>>

Inductive ==
    /\ VolumeOK(vol)
    /\ up \in BOOLEAN
    /\ req \in [Requests -> Local]
    /\ \A a \in Requests : InFlight(req[a], vol)
    /\ wild \subseteq Repos

(* What is in the files.  A file that is not whole is being written, or a  *)
(* kill cut it short; and no request renames a `.tmp` that is not whole    *)
(* unless another one is still writing it.                                 *)
Renaming(d) == \E a \in Requests : req[a].pc \in {"write", "rename"} /\ req[a].digest = d
Writing(d) == \E a \in Requests : open[a].tmp /\ req[a].digest = d

WholeFiles ==
    \A d \in DOMAIN vol.files : vol.files[d] = d.of \/ Mending(d) \/ d.of \in torn
WholeTmp ==
    \A d \in DOMAIN tmp :
       /\ d \in Digests /\ tmp[d] \in Contents \cup {None}
       /\ Renaming(d) => tmp[d] = d.of \/ Writing(d)
Opened ==
    /\ open \in [Requests -> [tmp : BOOLEAN, at : SUBSET Digests]]
    /\ \A a \in Requests :
          /\ req[a].pc # "write" => open[a] = Closed
          /\ open[a].tmp => open[a].at = {}
          /\ \A x \in open[a].at : x.of = req[a].digest.of

FilesOK == WholeFiles /\ WholeTmp /\ Opened /\ torn \subseteq Contents

-----------------------------------------------------------------------------
(* Lemmas: each durable step keeps the volume in order. *)

(* The other name of a digest is another digest of the same content. *)
LEMMA OtherNameIsDigest ==
    ASSUME NEW d \in Digests
    PROVE  OtherName(d) \in Digests /\ OtherName(d) # d
BY DEF OtherName, Digests, Digest

(* Bytes stored under an address leave the volume in order. *)
LEMMA StoreKeeps ==
    ASSUME NEW v, VolumeOK(v), NEW d \in Digests, NEW bytes \in Contents \cup {None},
           NEW w, w = StoreFile(v, d, bytes)
    PROVE  /\ VolumeOK(w)
           /\ d \in DOMAIN w.files /\ DOMAIN v.files \subseteq DOMAIN w.files
<1>1. IsVolume(v)
  BY DEF VolumeOK
<1>2. /\ IsVolume(w)
      /\ DOMAIN w.files = DOMAIN v.files \cup {d}
      /\ \A x \in DOMAIN v.files : w.files[x] = v.files[x]
      /\ d \notin DOMAIN v.files => w.files[d] = bytes
      /\ w.objects = v.objects /\ w.links = v.links /\ w.aliases = v.aliases
      /\ w.referrers = v.referrers /\ w.repos = v.repos /\ w.tags = v.tags
  BY <1>1, StoreFileStores
<1>3. QED  BY <1>2 DEF VolumeOK, TypedVolume

(* So do bytes that a rename puts over what is there. *)
LEMMA PutKeeps ==
    ASSUME NEW v, VolumeOK(v), NEW d \in Digests, NEW bytes \in Contents \cup {None},
           NEW w, w = PutFile(v, d, bytes)
    PROVE  /\ VolumeOK(w)
           /\ d \in DOMAIN w.files /\ DOMAIN v.files \subseteq DOMAIN w.files
           /\ w.links = v.links /\ w.tags = v.tags /\ w.aliases = v.aliases
<1>1. IsVolume(v)
  BY DEF VolumeOK
<1>2. /\ IsVolume(w)
      /\ DOMAIN w.files = DOMAIN v.files \cup {d}
      /\ \A x \in DOMAIN v.files : x # d => w.files[x] = v.files[x]
      /\ w.files[d] = bytes
      /\ w.objects = v.objects /\ w.links = v.links /\ w.aliases = v.aliases
      /\ w.referrers = v.referrers /\ w.repos = v.repos /\ w.tags = v.tags
  BY <1>1, PutFilePuts
<1>3. QED  BY <1>2 DEF VolumeOK, TypedVolume

(* So do bytes written into files that are there. *)
LEMMA WriteKeeps ==
    ASSUME NEW v, VolumeOK(v), NEW names, NEW bytes \in Contents,
           NEW w, w = WriteFile(v, names, bytes)
    PROVE  /\ VolumeOK(w) /\ DOMAIN w.files = DOMAIN v.files
           /\ \A x \in DOMAIN v.files :
                 w.files[x] = IF x \in names THEN bytes ELSE v.files[x]
           /\ w.links = v.links /\ w.tags = v.tags /\ w.aliases = v.aliases
<1>1. IsVolume(v)
  BY DEF VolumeOK
<1>2. /\ IsVolume(w)
      /\ DOMAIN w.files = DOMAIN v.files
      /\ \A x \in DOMAIN v.files : w.files[x] = IF x \in names THEN bytes ELSE v.files[x]
      /\ w.objects = v.objects /\ w.links = v.links /\ w.aliases = v.aliases
      /\ w.referrers = v.referrers /\ w.repos = v.repos /\ w.tags = v.tags
  BY <1>1, WriteFileWrites
<1>3. QED  BY <1>2 DEF VolumeOK, TypedVolume

(* So does the second address. *)
LEMMA HardLinkKeeps ==
    ASSUME NEW v, VolumeOK(v), NEW d \in Digests, d \in DOMAIN v.files,
           NEW w, w = HardLinkSha256(v, d)
    PROVE  VolumeOK(w) /\ DOMAIN v.files \subseteq DOMAIN w.files
<1>1. Digest("sha256", d.of) \in Digests
  BY DEF Digests, Digest
<1>2. v.files[d] \in Contents \cup {None}
  BY DEF VolumeOK, TypedVolume
<1>3. w = StoreFile(v, Digest("sha256", d.of), v.files[d])
  BY DEF HardLinkSha256
<1>4. QED  BY <1>1, <1>2, <1>3, StoreKeeps

(* So does an alias pair. *)
LEMMA AliasKeeps ==
    ASSUME NEW v, VolumeOK(v), NEW d \in Digests, NEW e \in Digests, d # e,
           NEW w, w = AliasPut(v, d, e)
    PROVE  VolumeOK(w) /\ w.files = v.files
<1>1. IsVolume(v)
  BY DEF VolumeOK
<1>2. /\ IsVolume(w)
      /\ DOMAIN w.aliases = DOMAIN v.aliases \cup {d, e}
      /\ w.aliases[d] = e /\ w.aliases[e] = d
      /\ \A x \in DOMAIN v.aliases : x \notin {d, e} => w.aliases[x] = v.aliases[x]
      /\ w.files = v.files /\ w.objects = v.objects /\ w.links = v.links
      /\ w.referrers = v.referrers /\ w.repos = v.repos /\ w.tags = v.tags
  BY <1>1, AliasPutPairs
<1>3. QED  BY <1>2 DEF VolumeOK, TypedVolume

(* A link to stored bytes does; this is where the bytes have to be there. *)
LEMMA LinkKeeps ==
    ASSUME NEW v, VolumeOK(v), NEW r \in Repos, NEW d \in Digests, d \in DOMAIN v.files,
           NEW w, w = LinkAdd(v, r, d, "blob")
    PROVE  VolumeOK(w) /\ w.files = v.files
<1>1. IsVolume(v)
  BY DEF VolumeOK
<1>2. /\ IsVolume(w)
      /\ DOMAIN w.links = DOMAIN v.links \cup {<<r, d>>}
      /\ w.links[<<r, d>>] = "blob"
      /\ \A key \in DOMAIN v.links : key # <<r, d>> => w.links[key] = v.links[key]
      /\ w.repos = v.repos \cup {r}
      /\ w.files = v.files /\ w.objects = v.objects /\ w.aliases = v.aliases
      /\ w.referrers = v.referrers /\ w.tags = v.tags
  BY <1>1, LinkAddLinks
<1>3. QED  BY <1>2 DEF VolumeOK, TypedVolume

(* So does the commit of a finished upload. *)
LEMMA PushCommitKeeps ==
    ASSUME NEW v, VolumeOK(v), NEW r \in Repos, NEW d \in Digests, d \in DOMAIN v.files,
           NEW e \in Digests, d # e, NEW newly,
           NEW w, w = CommitFinishedUpload(v, r, d, e, newly)
    PROVE  VolumeOK(w) /\ w.files = v.files
<1>1. IsVolume(v)
  BY DEF VolumeOK
<1>2. /\ IsVolume(w)
      /\ w.files = v.files
      /\ DOMAIN w.links = DOMAIN v.links \cup {<<r, d>>}
      /\ w.links[<<r, d>>] = "blob"
      /\ \A key \in DOMAIN v.links : key # <<r, d>> => w.links[key] = v.links[key]
      /\ DOMAIN w.aliases = DOMAIN v.aliases \cup {d, e}
      /\ w.aliases[d] = e /\ w.aliases[e] = d
      /\ \A x \in DOMAIN v.aliases : x \notin {d, e} => w.aliases[x] = v.aliases[x]
      /\ w.objects \subseteq v.objects \cup {d}
      /\ w.repos = v.repos \cup {r}
      /\ w.referrers = v.referrers /\ w.tags = v.tags
  BY <1>1, CommitFinishedUploadCommits
<1>3. QED  BY <1>2 DEF VolumeOK, TypedVolume

(* And the commit of a manifest, which links before it lists a referrer. *)
LEMMA ManifestCommitKeeps ==
    ASSUME NEW v, VolumeOK(v), NEW r \in Repos, NEW d \in Digests, d \in DOMAIN v.files,
           NEW kind \in {"manifest", "index"}, NEW subjects \in SUBSET Digests, NEW newly,
           NEW w, w = ManifestCommit(v, r, d, kind, subjects, newly)
    PROVE  VolumeOK(w) /\ w.files = v.files
<1>1. IsVolume(v)
  BY DEF VolumeOK
<1>2. /\ IsVolume(w)
      /\ w.files = v.files
      /\ DOMAIN w.links = DOMAIN v.links \cup {<<r, d>>}
      /\ w.links[<<r, d>>] = kind
      /\ \A key \in DOMAIN v.links : key # <<r, d>> => w.links[key] = v.links[key]
      /\ w.objects \subseteq v.objects \cup {d}
      /\ w.referrers = v.referrers \cup {<<r, s, d>> : s \in subjects}
      /\ w.repos = v.repos \cup {r}
      /\ w.aliases = v.aliases /\ w.tags = v.tags
  BY <1>1, ManifestCommitCommits
<1>3. \A row \in w.referrers : <<row[1], row[3]>> \in DOMAIN w.links
  <2> TAKE row \in w.referrers
  <2>1. CASE row \in v.referrers
    BY <2>1, <1>2 DEF VolumeOK
  <2>2. CASE row \in {<<r, s, d>> : s \in subjects}
    <3>1. PICK s \in subjects : row = <<r, s, d>>
      BY <2>2
    <3>2. QED  BY <3>1, <1>2
  <2>3. QED  BY <2>1, <2>2, <1>2
<1>4. w.referrers \subseteq Repos \X Digests \X Digests
  BY <1>2 DEF VolumeOK, TypedVolume
<1>5. QED  BY <1>2, <1>3, <1>4 DEF VolumeOK, TypedVolume

(* Unlinking removes the rows that would be left without a link. *)
LEMMA UnlinkKeeps ==
    ASSUME NEW v, VolumeOK(v), NEW r, NEW d, NEW w, w = LinkRemove(v, r, d)
    PROVE  VolumeOK(w) /\ w.files = v.files
<1>1. IsVolume(v)
  BY DEF VolumeOK
<1>2. /\ IsVolume(w)
      /\ DOMAIN w.links = DOMAIN v.links \ {<<r, d>>}
      /\ \A key \in DOMAIN w.links : w.links[key] = v.links[key]
      /\ w.referrers = {row \in v.referrers : ~(row[1] = r /\ row[3] = d)}
      /\ w.files = v.files /\ w.objects = v.objects /\ w.aliases = v.aliases
      /\ w.repos = v.repos /\ w.tags = v.tags
  BY <1>1, LinkRemoveUnlinks
<1>3. QED  BY <1>2 DEF VolumeOK, TypedVolume

(* Tags are nobody else's business. *)
LEMMA TagKeeps ==
    ASSUME NEW v, VolumeOK(v), NEW r \in Repos, NEW t \in Tags, NEW d \in Digests,
           NEW w, w = TagSet(v, r, t, d)
    PROVE  VolumeOK(w) /\ w.files = v.files
<1>1. IsVolume(v)
  BY DEF VolumeOK
<1>2. /\ IsVolume(w)
      /\ DOMAIN w.tags = DOMAIN v.tags \cup {<<r, t>>}
      /\ w.tags[<<r, t>>] = d
      /\ \A key \in DOMAIN v.tags : key # <<r, t>> => w.tags[key] = v.tags[key]
      /\ w.files = v.files /\ w.objects = v.objects /\ w.links = v.links
      /\ w.aliases = v.aliases /\ w.referrers = v.referrers /\ w.repos = v.repos
  BY <1>1, TagSetSets
<1>3. QED  BY <1>2 DEF VolumeOK, TypedVolume

LEMMA UntagKeeps ==
    ASSUME NEW v, VolumeOK(v), NEW r, NEW t, NEW w, w = TagDelete(v, r, t)
    PROVE  VolumeOK(w) /\ w.files = v.files
<1>1. IsVolume(v)
  BY DEF VolumeOK
<1>2. /\ IsVolume(w)
      /\ DOMAIN w.tags = DOMAIN v.tags \ {<<r, t>>}
      /\ \A key \in DOMAIN w.tags : w.tags[key] = v.tags[key]
      /\ w.files = v.files /\ w.objects = v.objects /\ w.links = v.links
      /\ w.aliases = v.aliases /\ w.referrers = v.referrers /\ w.repos = v.repos
  BY <1>1, TagDeleteDeletes
<1>3. QED  BY <1>2 DEF VolumeOK, TypedVolume

-----------------------------------------------------------------------------
(* The invariant. *)

(* A request that moves on to a step it is ready for, on a volume that is   *)
(* in order and has lost no file, disturbs no other request.                *)
LEMMA MovesOn ==
    ASSUME Inductive, NEW a \in Requests, NEW q \in Local, Set(a, q),
           VolumeOK(vol'), DOMAIN vol.files \subseteq DOMAIN vol'.files,
           InFlight(q, vol'), up' \in BOOLEAN, wild' \subseteq Repos
    PROVE  Inductive'
<1>1. req' \in [Requests -> Local]
  BY DEF Inductive, Set
<1>2. \A b \in Requests : InFlight(req'[b], vol')
  <2> TAKE b \in Requests
  <2>1. CASE b = a
    BY <2>1 DEF Inductive, Set
  <2>2. CASE b # a
    <3>1. req'[b] = req[b]
      BY <2>2 DEF Inductive, Set
    <3>2. InFlight(req[b], vol)
      BY DEF Inductive
    <3>3. InFlight(req[b], vol')
      BY <3>2 DEF InFlight
    <3>4. QED  BY <3>1, <3>3
  <2>3. QED  BY <2>1, <2>2
<1>3. QED  BY <1>1, <1>2 DEF Inductive

(* A request that ends. *)
LEMMA IdleIsReady == Idle \in Local /\ \A v : InFlight(Idle, v)
BY DEF Idle, Local, InFlight, AllOps

LEMMA Ends ==
    ASSUME Inductive, NEW a \in Requests, End(a),
           VolumeOK(vol'), DOMAIN vol.files \subseteq DOMAIN vol'.files, up' \in BOOLEAN,
           wild' \subseteq Repos
    PROVE  Inductive'
<1>1. Idle \in Local /\ InFlight(Idle, vol')
  BY IdleIsReady
<1>2. Set(a, Idle)
  BY DEF End
<1>3. QED  BY <1>1, <1>2, MovesOn

(* A step that leaves the volume alone leaves it in order. *)
LEMMA SameVolume ==
    ASSUME Inductive, UNCHANGED vol
    PROVE  VolumeOK(vol') /\ DOMAIN vol.files \subseteq DOMAIN vol'.files
BY DEF Inductive

LEMMA Initially == Init => Inductive
<1> SUFFICES ASSUME Init PROVE Inductive
  OBVIOUS
<1>1. VolumeOK(vol)
  BY EmptyIsVolume DEF Init, VolumeOK, TypedVolume
<1>2. req \in [Requests -> Local] /\ \A a \in Requests : InFlight(req[a], vol)
  BY IdleIsReady DEF Init, Fresh
<1>3. QED  BY <1>1, <1>2 DEF Inductive, Init, Fresh

(* Every request arrives ready for its first step. *)
LEMMA ArrivalKeeps == Inductive /\ Arrival => Inductive'
<1> SUFFICES ASSUME Inductive, Arrival PROVE Inductive'
  OBVIOUS
<1> USE RegistryAssumption
<1>1. ASSUME NEW a \in Requests, NEW q \in Local, Arrive(a, q), InFlight(q, vol)
      PROVE  Inductive'
  <2>1. UNCHANGED vol /\ Set(a, q) /\ up' \in BOOLEAN
    BY <1>1 DEF Arrive, Inductive
  <2>2. VolumeOK(vol') /\ DOMAIN vol.files \subseteq DOMAIN vol'.files
    BY <2>1, SameVolume
  <2>3. InFlight(q, vol')
    BY <1>1, <2>1
  <2>4. \A b \in Requests : req'[b].op # "none" => req'[b].repo \in Repos
    BY <1>1, <2>1 DEF Inductive, InFlight, Set
  <2>5. Disturbed(req') \subseteq Repos
    BY <2>4 DEF Disturbed, Crosses, Interferes, IsDelete
  <2>6. wild' \subseteq Repos
    BY <1>1, <2>5 DEF Arrive, Inductive
  <2>7. QED  BY <1>1, <2>1, <2>2, <2>3, <2>6, MovesOn
<1>2. PICK a \in Requests, r \in Repos :
       \/ \E c \in Contents, alg \in Algorithms : Push(a, r, c, alg)
       \/ \E m \in Manifests, t \in Tags : PutByTag(a, r, m, t)
       \/ \E m \in Manifests, alg \in Algorithms : PutByDigest(a, r, m, alg)
       \/ \E from \in Repos, c \in Contents, alg \in Algorithms :
             Mount(a, r, from, Digest(alg, c))
       \/ \E m \in Manifests, alg \in Algorithms : DeleteManifest(a, r, Digest(alg, m))
       \/ \E t \in Tags : DeleteTag(a, r, t)
       \/ \E c \in Contents, alg \in Algorithms : DeleteBlob(a, r, Digest(alg, c))
  BY DEF Arrival
<1>3. ASSUME NEW c \in Contents, NEW alg \in Algorithms \cup {"sha256"}
      PROVE  Digest(alg, c) \in Digests
  BY DEF Digest, Digests
<1>4. ASSUME NEW c \in Contents, NEW alg \in Algorithms, Push(a, r, c, alg)
      PROVE  Inductive'
  <2> DEFINE q == [Idle EXCEPT !.op = "push", !.pc = "store", !.repo = r,
                               !.digest = Digest(alg, c)]
  <2>1. Digest(alg, c) \in Digests
    BY <1>3 DEF Contents
  <2>2. q \in Local
    BY <2>1, IdleIsReady DEF Local, AllOps
  <2>3. InFlight(q, vol)
    BY <2>1 DEF Idle, InFlight
  <2>4. Arrive(a, q)
    BY <1>4 DEF Push
  <2>5. QED  BY <2>2, <2>3, <2>4, <1>1
<1>5. ASSUME NEW m \in Manifests, NEW t \in Tags, PutByTag(a, r, m, t)
      PROVE  Inductive'
  <2> DEFINE d == Digest("sha256", m)
             q == [Idle EXCEPT !.op = "put_tag", !.pc = "check", !.repo = r, !.tag = {t},
                               !.digest = d, !.todo = MustExist[m]]
  <2>1. d \in Digests /\ d.of = m /\ MustExist[m] \in SUBSET (Tags \cup Digests)
    BY <1>3 DEF Contents, Digest
  <2> HIDE DEF d
  <2>2. q \in Local
    BY <2>1, IdleIsReady DEF Local, AllOps
  <2>3. InFlight(q, vol)
    BY <2>1 DEF Idle, InFlight
  <2>4. Arrive(a, q)
    BY <1>5 DEF PutByTag, d
  <2>5. QED  BY <2>2, <2>3, <2>4, <1>1
<1>6. ASSUME NEW m \in Manifests, NEW alg \in Algorithms, PutByDigest(a, r, m, alg)
      PROVE  Inductive'
  <2> DEFINE d == Digest(alg, m)
             q == [Idle EXCEPT !.op = "put_digest", !.pc = "check", !.repo = r,
                               !.digest = d, !.todo = MustExist[m]]
  <2>1. d \in Digests /\ d.of = m /\ MustExist[m] \in SUBSET (Tags \cup Digests)
    BY <1>3 DEF Contents, Digest
  <2> HIDE DEF d
  <2>2. q \in Local
    BY <2>1, IdleIsReady DEF Local, AllOps
  <2>3. InFlight(q, vol)
    BY <2>1 DEF Idle, InFlight
  <2>4. Arrive(a, q)
    BY <1>6 DEF PutByDigest, d
  <2>5. QED  BY <2>2, <2>3, <2>4, <1>1
<1>7. ASSUME NEW from \in Repos, NEW c \in Contents, NEW alg \in Algorithms,
             Mount(a, r, from, Digest(alg, c))
      PROVE  Inductive'
  <2> DEFINE q == [Idle EXCEPT !.op = "mount", !.pc = "stat", !.repo = r, !.from = from,
                               !.digest = Digest(alg, c)]
  <2>1. Digest(alg, c) \in Digests
    BY <1>3
  <2>2. q \in Local
    BY <2>1, IdleIsReady DEF Local, AllOps
  <2>3. InFlight(q, vol)
    BY <2>1 DEF Idle, InFlight
  <2>4. Arrive(a, q)
    BY <1>7 DEF Mount
  <2>5. QED  BY <2>2, <2>3, <2>4, <1>1
<1>8. ASSUME NEW m \in Manifests, NEW alg \in Algorithms,
             DeleteManifest(a, r, Digest(alg, m))
      PROVE  Inductive'
  <2> DEFINE q == [Idle EXCEPT !.op = "delete_manifest", !.pc = "lookup", !.repo = r,
                               !.digest = Digest(alg, m)]
  <2>1. Digest(alg, m) \in Digests
    BY <1>3 DEF Contents
  <2>2. q \in Local
    BY <2>1, IdleIsReady DEF Local, AllOps
  <2>3. InFlight(q, vol)
    BY <2>1 DEF Idle, InFlight
  <2>4. Arrive(a, q)
    BY <1>8 DEF DeleteManifest
  <2>5. QED  BY <2>2, <2>3, <2>4, <1>1
<1>9. ASSUME NEW t \in Tags, DeleteTag(a, r, t)
      PROVE  Inductive'
  <2> DEFINE q == [Idle EXCEPT !.op = "delete_tag", !.pc = "resolve", !.repo = r, !.tag = {t}]
  <2>1. q \in Local
    BY IdleIsReady DEF Local, AllOps
  <2>2. InFlight(q, vol)
    BY DEF Idle, InFlight
  <2>3. Arrive(a, q)
    BY <1>9 DEF DeleteTag
  <2>4. QED  BY <2>1, <2>2, <2>3, <1>1
<1>10. ASSUME NEW c \in Contents, NEW alg \in Algorithms, DeleteBlob(a, r, Digest(alg, c))
       PROVE  Inductive'
  <2> DEFINE q == [Idle EXCEPT !.op = "delete_blob", !.pc = "stat", !.repo = r, !.from = r,
                               !.digest = Digest(alg, c)]
  <2>1. Digest(alg, c) \in Digests
    BY <1>3 DEF Contents
  <2>2. q \in Local
    BY <2>1, IdleIsReady DEF Local, AllOps
  <2>3. InFlight(q, vol)
    BY <2>1 DEF Idle, InFlight
  <2>4. Arrive(a, q)
    BY <1>10 DEF DeleteBlob
  <2>5. QED  BY <2>2, <2>3, <2>4, <1>1
<1>11. QED  BY <1>2, <1>4, <1>5, <1>6, <1>7, <1>8, <1>9, <1>10

(* Every step of a request leaves it ready for the next. *)
LEMMA ServeKeeps ==
    ASSUME Inductive, FilesOK, NEW a \in Requests, Serve(a)
    PROVE  Inductive'
<1> DEFINE q == req[a]
<1>1. q \in Local /\ InFlight(q, vol) /\ VolumeOK(vol)
      /\ up \in BOOLEAN /\ wild \subseteq Repos
  BY DEF Inductive
<1>2. ASSUME NEW x \in Local, Set(a, x), InFlight(x, vol), UNCHANGED vol, Keep
      PROVE  Inductive'
  <2>1. VolumeOK(vol') /\ DOMAIN vol.files \subseteq DOMAIN vol'.files
    BY <1>2, SameVolume
  <2>2. InFlight(x, vol') /\ up' \in BOOLEAN /\ wild' \subseteq Repos
    BY <1>1, <1>2 DEF Keep, Still
  <2>3. QED  BY <1>2, <2>1, <2>2, MovesOn
<1>3. ASSUME End(a), UNCHANGED vol, Keep
      PROVE  Inductive'
  BY <1>2, <1>3, IdleIsReady DEF End
<1>4. CASE Check(a)
  <2>1. CASE q.todo = {}
    <3> DEFINE x == [q EXCEPT !.pc = "store"]
    <3>1. x \in Local
      BY <1>1 DEF Local
    <3>2. InFlight(x, vol)
      BY <1>1, <1>4 DEF Check, At, InFlight, Local
    <3>3. Set(a, x) /\ UNCHANGED vol /\ Keep
      BY <1>4, <2>1 DEF Check, Goto
    <3>4. QED  BY <3>1, <3>2, <3>3, <1>2
  <2>2. CASE q.todo # {}
    <3>1. PICK d \in q.todo : IF RequireLink(vol, q.repo, d)
                              THEN Set(a, [q EXCEPT !.todo = @ \ {d}])
                              ELSE End(a)
      BY <1>4, <2>2 DEF Check
    <3>2. CASE RequireLink(vol, q.repo, d)
      <4> DEFINE x == [q EXCEPT !.todo = @ \ {d}]
      <4>1. x \in Local
        BY <1>1 DEF Local
      <4>2. InFlight(x, vol)
        BY <1>1 DEF InFlight, Local
      <4>3. Set(a, x) /\ UNCHANGED vol /\ Keep
        BY <1>4, <3>1, <3>2 DEF Check
      <4>4. QED  BY <4>1, <4>2, <4>3, <1>2
    <3>3. CASE ~RequireLink(vol, q.repo, d)
      BY <1>3, <1>4, <3>1, <3>3 DEF Check
    <3>4. QED  BY <3>2, <3>3
  <2>3. QED  BY <2>1, <2>2
<1>5. CASE Store(a)
  <2> DEFINE new == NewlyStored(vol, q.digest)
             pc == IF ~new THEN Stored(q) ELSE IF q.op = "push" THEN "place" ELSE "create"
             x == [q EXCEPT !.newly = new, !.pc = pc]
  <2>1. q.digest \in Digests /\ (q.op = "push" \/ q.digest.of \in Manifests) /\ q.repo \in Repos
    BY <1>1, <1>5 DEF Store, At, InFlight
  <2>2. new \in BOOLEAN /\ pc \in {"place", "create", "hard_link", "commit", "alias"}
        /\ (pc \notin {"place", "create"} => q.digest \in DOMAIN vol.files)
    BY DEF NewlyStored, Stored
  <2>3. Set(a, x) /\ UNCHANGED vol /\ Keep
    BY <1>5 DEF Store
  <2> HIDE DEF new, pc
  <2>4. x \in Local
    BY <1>1, <2>2 DEF Local
  <2>5. InFlight(x, vol)
    BY <1>1, <2>1, <2>2 DEF InFlight, Local
  <2>6. QED  BY <2>3, <2>4, <2>5, <1>2
<1>6. CASE HardLink(a)
  <2> DEFINE x == [q EXCEPT !.pc = IF q.op = "push" THEN "commit" ELSE "alias"]
  <2>1. q.digest \in Digests /\ q.digest \in DOMAIN vol.files
    BY <1>1, <1>6 DEF HardLink, At, InFlight
  <2>2. VolumeOK(vol') /\ DOMAIN vol.files \subseteq DOMAIN vol'.files
    BY <1>1, <1>6, <2>1, HardLinkKeeps DEF HardLink
  <2>3. x \in Local
    BY <1>1 DEF Local
  <2>4. InFlight(x, vol')
    BY <1>1, <1>6, <2>1, <2>2 DEF HardLink, At, InFlight, Local
  <2>5. Set(a, x) /\ up' \in BOOLEAN /\ wild' \subseteq Repos
    BY <1>1, <1>6 DEF HardLink, Goto, Still
  <2>6. QED  BY <2>2, <2>3, <2>4, <2>5, MovesOn
<1>7. CASE Alias(a)
  <2> DEFINE x == [q EXCEPT !.pc = "commit"]
  <2>1. q.digest \in Digests /\ OtherName(q.digest) \in Digests
        /\ q.digest # OtherName(q.digest)
    BY <1>1, <1>7, OtherNameIsDigest DEF Alias, At, InFlight
  <2>2. VolumeOK(vol') /\ vol'.files = vol.files
    BY <1>1, <1>7, <2>1, AliasKeeps DEF Alias
  <2>3. x \in Local
    BY <1>1 DEF Local
  <2>4. InFlight(x, vol')
    BY <1>1, <1>7, <2>2 DEF Alias, At, InFlight, Local
  <2>5. Set(a, x) /\ up' \in BOOLEAN /\ wild' \subseteq Repos
    BY <1>1, <1>7 DEF Alias, Goto, Keep, Still
  <2>6. QED  BY <2>2, <2>3, <2>4, <2>5, MovesOn
<1>8. CASE Commit(a)
  <2> DEFINE d == q.digest
             x == [q EXCEPT !.pc = "tag"]
  <2>1. d \in Digests /\ d \in DOMAIN vol.files /\ q.repo \in Repos
        /\ (q.op = "push" \/ d.of \in Manifests)
    BY <1>1, <1>8 DEF Commit, At, InFlight
  <2>2. OtherName(d) \in Digests /\ d # OtherName(d)
    BY <2>1, OtherNameIsDigest
  <2>3. VolumeOK(vol') /\ vol'.files = vol.files
    <3>1. CASE q.op = "push"
      <4>1. vol' = CommitFinishedUpload(vol, q.repo, d, OtherName(d), q.newly)
        BY <1>8, <3>1 DEF Commit
      <4>2. QED  BY <1>1, <2>1, <2>2, <4>1, PushCommitKeeps
    <3>2. CASE q.op # "push"
      <4>1. vol' = ManifestCommit(vol, q.repo, d, Kind[d.of], Subject[d.of], q.newly)
        BY <1>8, <3>2 DEF Commit
      <4>2. Kind[d.of] \in {"manifest", "index"} /\ Subject[d.of] \in SUBSET Digests
        BY <2>1, <3>2, RegistryAssumption
      <4>3. QED  BY <1>1, <2>1, <4>1, <4>2, ManifestCommitKeeps
    <3>3. QED  BY <3>1, <3>2
  <2>4. up' \in BOOLEAN /\ wild' \subseteq Repos
    BY <1>1, <1>8 DEF Commit, Keep, Still
  <2>5. CASE q.tag = {}
    BY <1>8, <2>3, <2>4, <2>5, Ends DEF Commit
  <2>6. CASE q.tag # {}
    <3>1. x \in Local
      BY <1>1 DEF Local
    <3>2. InFlight(x, vol')
      BY <1>1, <2>1 DEF InFlight, Local
    <3>3. Set(a, x)
      BY <1>8, <2>6 DEF Commit, Goto
    <3>4. QED  BY <2>3, <2>4, <3>1, <3>2, <3>3, MovesOn
  <2>7. QED  BY <2>5, <2>6
<1>9. CASE SetTag(a)
  <2>1. PICK t \in q.tag : vol' = TagSet(vol, q.repo, t, q.digest)
    BY <1>9 DEF SetTag
  <2>2. t \in Tags /\ q.repo \in Repos /\ q.digest \in Digests
    BY <1>1, <1>9 DEF SetTag, At, InFlight, Local
  <2>3. VolumeOK(vol') /\ vol'.files = vol.files
    BY <1>1, <2>1, <2>2, TagKeeps
  <2>4. End(a) /\ up' \in BOOLEAN /\ wild' \subseteq Repos
    BY <1>1, <1>9 DEF SetTag, Keep, Still
  <2>5. QED  BY <2>3, <2>4, Ends
<1>10. CASE Stat(a)
  <2> DEFINE d == q.digest
  <2>1. UNCHANGED vol /\ Keep
    BY <1>10 DEF Stat
  <2>2. CASE ~RequireLink(vol, q.from, d) \/ ResolveStored(vol, d) = {}
    BY <1>3, <1>10, <2>1, <2>2 DEF Stat
  <2>3. CASE ~(~RequireLink(vol, q.from, d) \/ ResolveStored(vol, d) = {})
    <3>1. PICK stored \in ResolveStored(vol, d) :
             IF q.op = "mount"
             THEN Set(a, [q EXCEPT !.pc = "link", !.digest = stored])
             ELSE Set(a, [q EXCEPT !.pc = "unlink",
                            !.unlink = IF stored = d THEN <<d>> ELSE <<stored, d>>])
      BY <1>10, <2>3 DEF Stat
    <3>2. stored \in DOMAIN vol.files /\ stored \in Digests
      BY <1>1 DEF ResolveStored, VolumeOK, TypedVolume
    <3>3. d \in Digests /\ q.repo \in Repos
      BY <1>1, <1>10 DEF Stat, At, InFlight
    <3>4. CASE q.op = "mount"
      <4> DEFINE x == [q EXCEPT !.pc = "link", !.digest = stored]
      <4>1. x \in Local
        BY <1>1, <3>2 DEF Local
      <4>2. InFlight(x, vol)
        BY <1>1, <3>2, <3>3 DEF InFlight, Local
      <4>3. QED  BY <4>1, <4>2, <3>1, <3>4, <2>1, <1>2
    <3>5. CASE q.op # "mount"
      <4> DEFINE names == IF stored = d THEN <<d>> ELSE <<stored, d>>
                 x == [q EXCEPT !.pc = "unlink", !.unlink = names]
      <4>1. names \in Seq(Digests) /\ names # <<>>
        BY <3>2, <3>3
      <4> HIDE DEF names
      <4>2. x \in Local
        BY <1>1, <4>1 DEF Local
      <4>3. InFlight(x, vol)
        BY <1>1, <3>3, <4>1 DEF InFlight, Local
      <4>4. Set(a, x)
        BY <3>1, <3>5 DEF names
      <4>5. QED  BY <4>2, <4>3, <4>4, <2>1, <1>2
    <3>6. QED  BY <3>4, <3>5
  <2>4. QED  BY <2>2, <2>3
<1>11. CASE Link(a)
  <2>1. q.repo \in Repos /\ q.digest \in Digests /\ q.digest \in DOMAIN vol.files
    BY <1>1, <1>11 DEF Link, At, InFlight
  <2>2. VolumeOK(vol') /\ vol'.files = vol.files
    BY <1>1, <1>11, <2>1, LinkKeeps DEF Link
  <2>3. End(a) /\ up' \in BOOLEAN /\ wild' \subseteq Repos
    BY <1>1, <1>11 DEF Link, Keep, Still
  <2>4. QED  BY <2>2, <2>3, Ends
<1>12. CASE Lookup(a)
  <2> DEFINE d == q.digest
             names == IF AliasOf(vol, d) = {} THEN <<d>> ELSE <<d, vol.aliases[d]>>
             x == [q EXCEPT !.pc = "list", !.unlink = names]
  <2>1. UNCHANGED vol /\ Keep
    BY <1>12 DEF Lookup
  <2>2. CASE ~LinkedAsManifest(vol, q.repo, d)
    BY <1>3, <1>12, <2>1, <2>2 DEF Lookup
  <2>3. CASE LinkedAsManifest(vol, q.repo, d)
    <3>1. d \in Digests /\ q.repo \in Repos
      BY <1>1, <1>12 DEF Lookup, At, InFlight
    <3>2. AliasOf(vol, d) # {} => vol.aliases[d] \in Digests
      BY <1>1 DEF AliasOf, VolumeOK, TypedVolume
    <3>3. names \in Seq(Digests) /\ names # <<>>
      BY <3>1, <3>2
    <3>4. Set(a, x)
      BY <1>12, <2>3 DEF Lookup
    <3> HIDE DEF names
    <3>5. x \in Local
      BY <1>1, <3>3 DEF Local
    <3>6. InFlight(x, vol)
      BY <1>1, <3>1, <3>3 DEF InFlight, Local
    <3>7. QED  BY <3>4, <3>5, <3>6, <2>1, <1>2
  <2>4. QED  BY <2>2, <2>3
<1>13. CASE ListTags(a)
  <2> DEFINE tags == TagsAt(vol, q.repo, InSeq(q.unlink))
             x == [q EXCEPT !.pc = "untag", !.todo = tags]
  <2>1. tags \in SUBSET (Tags \cup Digests)
    BY DEF TagsAt
  <2>2. Set(a, x) /\ UNCHANGED vol /\ Keep
    BY <1>13 DEF ListTags
  <2> HIDE DEF tags
  <2>3. x \in Local
    BY <1>1, <2>1 DEF Local
  <2>4. InFlight(x, vol)
    BY <1>1, <1>13 DEF ListTags, At, InFlight, Local
  <2>5. QED  BY <2>2, <2>3, <2>4, <1>2
<1>14. CASE Untag(a)
  <2>1. PICK t \in q.todo : /\ vol' = TagDelete(vol, q.repo, t)
                            /\ Set(a, [q EXCEPT !.todo = @ \ {t}])
    BY <1>14 DEF Untag
  <2> DEFINE x == [q EXCEPT !.todo = @ \ {t}]
  <2>2. VolumeOK(vol') /\ vol'.files = vol.files
    BY <1>1, <2>1, UntagKeeps
  <2>3. x \in Local
    BY <1>1 DEF Local
  <2>4. InFlight(x, vol')
    BY <1>1, <2>2 DEF InFlight, Local
  <2>5. up' \in BOOLEAN /\ wild' \subseteq Repos
    BY <1>1, <1>14 DEF Untag, Keep, Still
  <2>6. QED  BY <2>1, <2>2, <2>3, <2>4, <2>5, MovesOn
<1>15. CASE Untagged(a)
  <2>1. UNCHANGED vol /\ Keep
    BY <1>15 DEF Untagged
  <2>2. CASE q.op = "delete_tag"
    BY <1>3, <1>15, <2>1, <2>2 DEF Untagged
  <2>3. CASE q.op # "delete_tag"
    <3> DEFINE x == [q EXCEPT !.pc = "unlink"]
    <3>1. x \in Local
      BY <1>1 DEF Local
    <3>2. InFlight(x, vol)
      BY <1>1, <1>15, <2>3 DEF Untagged, At, InFlight, Local
    <3>3. Set(a, x)
      BY <1>15, <2>3 DEF Untagged, Goto
    <3>4. QED  BY <3>1, <3>2, <3>3, <2>1, <1>2
  <2>4. QED  BY <2>2, <2>3
<1>16. CASE Unlink(a)
  <2> DEFINE left == q.unlink
             x == [q EXCEPT !.unlink = Tail(left)]
  <2>1. left \in Seq(Digests) /\ left # <<>> /\ q.pc = "unlink"
    BY <1>1, <1>16 DEF Unlink, At, InFlight, Local
  <2>2. VolumeOK(vol') /\ vol'.files = vol.files
    BY <1>1, <1>16, UnlinkKeeps DEF Unlink
  <2>3. up' \in BOOLEAN /\ wild' \subseteq Repos
    BY <1>1, <1>16 DEF Unlink, Keep, Still
  <2>4. CASE Len(left) = 1
    BY <1>16, <2>2, <2>3, <2>4, Ends DEF Unlink
  <2>5. CASE Len(left) # 1
    <3>1. Tail(left) \in Seq(Digests) /\ Tail(left) # <<>>
      <4> HIDE DEF left
      <4>1. Len(left) \in Nat /\ Len(left) # 0
        BY <2>1, EmptySeq
      <4>2. Tail(left) \in Seq(Digests) /\ Len(Tail(left)) = Len(left) - 1
        BY <2>1, HeadTailProperties
      <4>3. Len(Tail(left)) # 0
        BY <4>1, <4>2, <2>5
      <4>4. QED  BY <4>2, <4>3, EmptySeq
    <3>2. x \in Local
      BY <1>1, <3>1 DEF Local
    <3>3. InFlight(x, vol')
      BY <1>1, <2>1, <3>1 DEF InFlight, Local
    <3>4. Set(a, x)
      BY <1>16, <2>5 DEF Unlink
    <3>5. QED  BY <2>2, <2>3, <3>2, <3>3, <3>4, MovesOn
  <2>6. QED  BY <2>4, <2>5
<1>17. CASE ResolveTag(a)
  <2>1. UNCHANGED vol /\ Keep /\ q.pc = "resolve"
    BY <1>17 DEF ResolveTag, At
  <2>2. CASE ~\E t \in q.tag : <<q.repo, t>> \in DOMAIN vol.tags
    BY <1>3, <1>17, <2>1, <2>2 DEF ResolveTag
  <2>3. CASE \E t \in q.tag : <<q.repo, t>> \in DOMAIN vol.tags
    <3> DEFINE x == [q EXCEPT !.pc = "untag", !.todo = q.tag]
    <3>1. x \in Local
      BY <1>1 DEF Local
    <3>2. InFlight(x, vol)
      BY <1>1, <2>1 DEF InFlight, Local
    <3>3. Set(a, x)
      BY <1>17, <2>3 DEF ResolveTag
    <3>4. QED  BY <3>1, <3>2, <3>3, <2>1, <1>2
  <2>4. QED  BY <2>2, <2>3
<1>18. ASSUME NEW pc \in {"hard_link", "commit", "alias"}, Goto(a, pc),
             q.digest \in Digests, q.op = "push" \/ q.digest.of \in Manifests,
             q.repo \in Repos, q.digest \in DOMAIN vol'.files, VolumeOK(vol'),
             DOMAIN vol.files \subseteq DOMAIN vol'.files, Still
      PROVE  Inductive'
  <2> DEFINE x == [q EXCEPT !.pc = pc]
  <2>1. x \in Local
    BY <1>1 DEF Local
  <2>2. InFlight(x, vol')
    BY <1>1, <1>18 DEF InFlight, Local
  <2>3. Set(a, x) /\ up' \in BOOLEAN /\ wild' \subseteq Repos
    BY <1>1, <1>18 DEF Goto, Still
  <2>4. QED  BY <1>18, <2>1, <2>2, <2>3, MovesOn
<1>19. Stored(q) \in {"hard_link", "commit", "alias"}
  BY DEF Stored
<1>20. CASE Place(a)
  <2>1. q.digest \in Digests /\ (q.op = "push" \/ q.digest.of \in Manifests) /\ q.repo \in Repos
        /\ q.digest.of \in Contents
    BY <1>1, <1>20 DEF Place, At, InFlight, Digests
  <2>2. vol' = PutFile(vol, q.digest, q.digest.of)
    BY <1>20 DEF Place
  <2>3. VolumeOK(vol') /\ q.digest \in DOMAIN vol'.files
        /\ DOMAIN vol.files \subseteq DOMAIN vol'.files
    BY <1>1, <2>1, <2>2, PutKeeps
  <2>4. QED  BY <1>18, <1>19, <1>20, <2>1, <2>3 DEF Place
<1>21. CASE Create(a)
  <2> DEFINE x == [q EXCEPT !.pc = "write"]
  <2>1. x \in Local
    BY <1>1 DEF Local
  <2>2. InFlight(x, vol) /\ UNCHANGED vol
    BY <1>1, <1>21 DEF Create, At, InFlight, Local
  <2>3. Set(a, x) /\ up' \in BOOLEAN /\ wild' \subseteq Repos
    BY <1>1, <1>21 DEF Create, Goto, Still
  <2>4. VolumeOK(vol') /\ DOMAIN vol.files \subseteq DOMAIN vol'.files
    BY <2>2, SameVolume
  <2>5. QED  BY <2>1, <2>2, <2>3, <2>4, MovesOn
<1>22. CASE Write(a)
  <2> DEFINE x == [q EXCEPT !.pc = "rename"]
  <2>1. x \in Local
    BY <1>1 DEF Local
  <2>2. q.digest.of \in Contents
    BY <1>1, <1>22 DEF Write, At, InFlight, Digests
  <2>3. VolumeOK(vol') /\ DOMAIN vol'.files = DOMAIN vol.files
    BY <1>1, <1>22, <2>2, WriteKeeps DEF Write
  <2>4. InFlight(x, vol')
    BY <1>1, <1>22, <2>3 DEF Write, At, InFlight, Local
  <2>5. Set(a, x) /\ up' \in BOOLEAN /\ wild' \subseteq Repos
    BY <1>1, <1>22 DEF Write, Goto, Still
  <2>6. QED  BY <2>1, <2>3, <2>4, <2>5, MovesOn
<1>23. CASE Rename(a)
  <2>1. q.digest \in Digests /\ (q.op = "push" \/ q.digest.of \in Manifests) /\ q.repo \in Repos
    BY <1>1, <1>23 DEF Rename, At, InFlight
  <2>2. Still
    BY <1>23 DEF Rename
  <2>3. CASE q.digest \in DOMAIN tmp
    <3>1. tmp[q.digest] \in Contents \cup {None}
      BY <2>3 DEF FilesOK, WholeTmp
    <3>2. vol' = PutFile(vol, q.digest, tmp[q.digest]) /\ Goto(a, Stored(q))
      BY <1>23, <2>3 DEF Rename
    <3>3. VolumeOK(vol') /\ q.digest \in DOMAIN vol'.files
          /\ DOMAIN vol.files \subseteq DOMAIN vol'.files
      BY <1>1, <2>1, <3>1, <3>2, PutKeeps
    <3>4. QED  BY <1>18, <1>19, <2>1, <2>2, <3>2, <3>3
  <2>4. CASE q.digest \notin DOMAIN tmp
    <3>1. End(a) /\ UNCHANGED vol /\ Keep
      BY <1>23, <2>2, <2>4 DEF Rename, Keep
    <3>2. QED  BY <3>1, <1>3
  <2>5. QED  BY <2>3, <2>4
<1>24. QED
  BY <1>4, <1>5, <1>6, <1>7, <1>8, <1>9, <1>10, <1>11, <1>12, <1>13, <1>14, <1>15,
     <1>16, <1>17, <1>20, <1>21, <1>22, <1>23 DEF Serve

(* A kill loses the requests and nothing else. *)
LEMMA StepKeeps == Inductive /\ FilesOK /\ [Next]_vars => Inductive'
<1> SUFFICES ASSUME Inductive, FilesOK, [Next]_vars PROVE Inductive'
  OBVIOUS
<1>1. CASE Arrival
  BY <1>1, ArrivalKeeps
<1>2. CASE \E a \in Requests : Serve(a)
  BY <1>2, ServeKeeps
<1>3. CASE Kill
  BY <1>3, IdleIsReady DEF Kill, Inductive
<1>4. CASE Restart
  BY <1>4 DEF Restart, Inductive
<1>5. CASE UNCHANGED vars
  BY <1>5 DEF vars, Inductive
<1>6. QED  BY <1>1, <1>2, <1>3, <1>4, <1>5 DEF Next

-----------------------------------------------------------------------------
(* The files. *)

LEMMA ClosedIs ==
    ASSUME NEW o \in [tmp : BOOLEAN, at : SUBSET Digests], ~o.tmp, o.at = {}
    PROVE  o = Closed
BY DEF Closed

LEMMA FilesInitially == Init => FilesOK
<1> SUFFICES ASSUME Init PROVE FilesOK
  OBVIOUS
<1>1. DOMAIN vol.files = {} /\ DOMAIN tmp = {}
  BY DEF Init, Fresh, EmptyVolume, NoRows
<1>2. Opened
  BY DEF Init, Fresh, Opened, Closed, Idle
<1>3. QED  BY <1>1, <1>2 DEF Init, Fresh, FilesOK, WholeFiles, WholeTmp

(* A request that has no file open, and does not come to rename one, leaves *)
(* the files as they are. *)
LEMMA FilesStay ==
    ASSUME Inductive, FilesOK, NEW a \in Requests, NEW q, Set(a, q), KeepOpen,
           UNCHANGED torn, vol'.files = vol.files, req[a].pc # "write",
           q.pc \notin {"write", "rename"}
    PROVE  FilesOK'
<1>1. open[a] = Closed
  BY DEF FilesOK, Opened
<1>2. \A b \in Requests : req'[b] = IF b = a THEN q ELSE req[b]
  BY DEF Inductive, Set
<1>3. UNCHANGED <<tmp, open>>
  BY DEF KeepOpen
<1>4. WholeFiles'
  BY <1>3 DEF FilesOK, WholeFiles, Mending
<1>5. WholeTmp'
  <2> SUFFICES ASSUME NEW d \in DOMAIN tmp, Renaming(d)' PROVE tmp[d] = d.of \/ Writing(d)'
    BY <1>3 DEF FilesOK, WholeTmp
  <2>1. Renaming(d)
    BY <1>2 DEF Renaming
  <2>2. Writing(d) => Writing(d)'
    BY <1>1, <1>2, <1>3 DEF Writing, Closed
  <2>3. QED  BY <2>1, <2>2 DEF FilesOK, WholeTmp
<1>6. Opened'
  BY <1>1, <1>2, <1>3 DEF FilesOK, Opened, Closed
<1>7. QED  BY <1>4, <1>5, <1>6 DEF FilesOK

(* A rename over d, of whole bytes. *)
LEMMA PlaceFiles ==
    ASSUME Inductive, FilesOK, NEW a \in Requests, Place(a)
    PROVE  FilesOK'
<1> DEFINE d == req[a].digest
           q == [req[a] EXCEPT !.pc = Stored(req[a])]
<1>1. open[a] = Closed /\ req[a].pc = "place"
  BY DEF FilesOK, Opened, Place, At
<1>2. \A b \in Requests : req'[b] = IF b = a THEN q ELSE req[b]
  BY DEF Inductive, Place, Goto, Set
<1>3. q.pc \in {"hard_link", "commit", "alias"} /\ q.digest = d
  BY <1>1 DEF Stored, Inductive, Local
<1>4. \A b \in Requests : open'[b].tmp = open[b].tmp /\ open'[b].at = open[b].at \ {d}
  BY DEF Place, LosesName, FilesOK, Opened
<1>5. /\ DOMAIN vol'.files = DOMAIN vol.files \cup {d}
      /\ \A x \in DOMAIN vol.files : x # d => vol'.files[x] = vol.files[x]
      /\ vol'.files[d] = d.of
  BY PutFilePuts DEF Inductive, VolumeOK, Place
<1>6. UNCHANGED <<tmp, torn>>
  BY DEF Place, Still
<1> HIDE DEF d, q
<1>7. WholeFiles'
  <2> SUFFICES ASSUME NEW x \in DOMAIN vol.files, x # d
               PROVE  vol.files[x] = x.of \/ Mending(x)' \/ x.of \in torn
    BY <1>5, <1>6 DEF WholeFiles
  <2>1. Mending(x) => Mending(x)'
    BY <1>4 DEF Mending
  <2>2. QED  BY <2>1 DEF FilesOK, WholeFiles
<1>8. WholeTmp'
  <2> SUFFICES ASSUME NEW x \in DOMAIN tmp, Renaming(x)' PROVE tmp[x] = x.of \/ Writing(x)'
    BY <1>6 DEF FilesOK, WholeTmp
  <2>1. Renaming(x)
    BY <1>2, <1>3 DEF Renaming
  <2>2. Writing(x) => Writing(x)'
    BY <1>1, <1>2, <1>4 DEF Writing, Closed
  <2>3. QED  BY <2>1, <2>2 DEF FilesOK, WholeTmp
<1>9. Opened'
  <2>1. open' \in [Requests -> [tmp : BOOLEAN, at : SUBSET Digests]]
    BY DEF FilesOK, Opened, Place, LosesName
  <2>2. \A b \in Requests : open[b] = Closed => open'[b] = Closed
    BY <1>4, <2>1, ClosedIs DEF Closed
  <2>3. ASSUME NEW b \in Requests, b # a, req[b].pc # "write" PROVE open'[b] = Closed
    <3>1. open[b] = Closed
      BY <2>3 DEF FilesOK, Opened
    <3>2. QED  BY <3>1, <2>2
  <2>4. QED  BY <1>1, <1>2, <1>4, <2>1, <2>2, <2>3 DEF FilesOK, Opened, Closed
<1>10. QED  BY <1>6, <1>7, <1>8, <1>9 DEF FilesOK

LEMMA CreateFiles ==
    ASSUME Inductive, FilesOK, NEW a \in Requests, Create(a)
    PROVE  FilesOK'
<1>0. PICK d : d = req[a].digest
  OBVIOUS
<1> DEFINE q == [req[a] EXCEPT !.pc = "write"]
<1>1. open[a] = Closed /\ d \in Digests
  BY <1>0 DEF FilesOK, Opened, Create, At, Inductive, InFlight
<1>2. \A b \in Requests : req'[b] = IF b = a THEN q ELSE req[b]
  BY <1>0 DEF Inductive, Create, Goto, Set
<1>3. q.pc = "write" /\ q.digest = d
  BY <1>0 DEF Inductive, Local
<1>4. /\ open' \in [Requests -> [tmp : BOOLEAN, at : SUBSET Digests]]
      /\ \A b \in Requests : open'[b] = IF b = a THEN [tmp |-> TRUE, at |-> {}] ELSE open[b]
  BY <1>0 DEF Create, FilesOK, Opened
<1>5. /\ DOMAIN tmp' = DOMAIN tmp \cup {d}
      /\ \A x \in DOMAIN tmp : x # d => tmp'[x] = tmp[x]
      /\ tmp'[d] = None
  BY <1>0 DEF Create, Put
<1>6. UNCHANGED <<vol, torn>>
  BY <1>0 DEF Create, Still
<1> HIDE DEF q
<1>7. WholeFiles'
  <2> SUFFICES ASSUME NEW x \in DOMAIN vol.files
               PROVE  vol.files[x] = x.of \/ Mending(x)' \/ x.of \in torn
    BY <1>0, <1>6 DEF WholeFiles
  <2>1. Mending(x) => Mending(x)'
    BY <1>0, <1>1, <1>4 DEF Mending, Closed
  <2>2. QED  BY <1>0, <2>1 DEF FilesOK, WholeFiles
<1>8. WholeTmp'
  <2>1. ASSUME NEW x \in DOMAIN tmp, x # d, Renaming(x)' PROVE tmp[x] = x.of \/ Writing(x)'
    <3>1. Renaming(x)
      BY <1>0, <1>2, <1>3, <2>1 DEF Renaming
    <3>2. Writing(x) => Writing(x)'
      BY <1>0, <1>1, <1>2, <1>4 DEF Writing, Closed
    <3>3. QED  BY <1>0, <2>1, <3>1, <3>2 DEF FilesOK, WholeTmp
  <2>2. Writing(d)'
    BY <1>0, <1>2, <1>3, <1>4 DEF Writing
  <2>3. QED  BY <1>0, <1>1, <1>5, <2>1, <2>2 DEF FilesOK, WholeTmp
<1>9. Opened'
  BY <1>0, <1>2, <1>3, <1>4 DEF FilesOK, Opened
<1>10. QED  BY <1>0, <1>6, <1>7, <1>8, <1>9 DEF FilesOK

(* Whoever writes, writes whole bytes, wherever the file is by now. *)
LEMMA WriteFiles ==
    ASSUME Inductive, FilesOK, NEW a \in Requests, Write(a)
    PROVE  FilesOK'
<1>0. PICK d : d = req[a].digest
  OBVIOUS
<1> DEFINE q == [req[a] EXCEPT !.pc = "rename"]
<1>1. d \in Digests /\ d.of \in Contents /\ req[a].pc = "write"
  BY <1>0 DEF Write, At, Inductive, InFlight, Digests
<1>2. \A b \in Requests : req'[b] = IF b = a THEN q ELSE req[b]
  BY <1>0 DEF Inductive, Write, Goto, Set
<1>3. q.pc = "rename" /\ q.digest = d
  BY <1>0 DEF Inductive, Local
<1>4. /\ open' \in [Requests -> [tmp : BOOLEAN, at : SUBSET Digests]]
      /\ \A b \in Requests : open'[b] = IF b = a THEN Closed ELSE open[b]
  BY <1>0 DEF Write, FilesOK, Opened, Closed
<1>5. /\ DOMAIN vol'.files = DOMAIN vol.files
      /\ \A x \in DOMAIN vol.files :
            vol'.files[x] = IF x \in open[a].at THEN d.of ELSE vol.files[x]
  BY <1>0, <1>1, WriteKeeps DEF Inductive, Write
<1>6. UNCHANGED torn /\ \A x \in open[a].at : x.of = d.of
  BY <1>0 DEF Write, Still, FilesOK, Opened
<1>7. IF open[a].tmp
      THEN /\ DOMAIN tmp' = DOMAIN tmp \cup {d}
           /\ \A x \in DOMAIN tmp : x # d => tmp'[x] = tmp[x]
           /\ tmp'[d] = d.of
      ELSE tmp' = tmp
  BY <1>0 DEF Write, Put
<1>8. open[a].tmp \in BOOLEAN
  BY <1>0 DEF FilesOK, Opened
<1> HIDE DEF q
<1>9. WholeFiles'
  <2> SUFFICES ASSUME NEW x \in DOMAIN vol.files
               PROVE  vol'.files[x] = x.of \/ Mending(x)' \/ x.of \in torn
    BY <1>0, <1>5, <1>6 DEF WholeFiles
  <2>1. CASE x \in open[a].at
    BY <1>0, <2>1, <1>5, <1>6
  <2>2. CASE x \notin open[a].at
    <3>1. Mending(x) => Mending(x)'
      BY <1>0, <2>2, <1>4 DEF Mending
    <3>2. QED  BY <1>0, <2>2, <3>1, <1>5 DEF FilesOK, WholeFiles
  <2>3. QED  BY <1>0, <2>1, <2>2
<1>10. WholeTmp'
  <2>1. ASSUME NEW x \in DOMAIN tmp, ~(open[a].tmp /\ x = d), Renaming(x)'
        PROVE  tmp[x] = x.of \/ Writing(x)'
    <3>1. Renaming(x)
      BY <1>0, <1>1, <1>2, <1>3, <2>1 DEF Renaming
    <3>2. Writing(x) => Writing(x)'
      BY <1>0, <1>2, <1>4, <2>1 DEF Writing
    <3>3. QED  BY <1>0, <2>1, <3>1, <3>2 DEF FilesOK, WholeTmp
  <2>2. \A x \in DOMAIN tmp : x \in Digests /\ tmp[x] \in Contents \cup {None}
    BY <1>0 DEF FilesOK, WholeTmp
  <2>3. CASE open[a].tmp
    BY <1>0, <1>1, <1>7, <2>1, <2>2, <2>3 DEF WholeTmp
  <2>4. CASE ~open[a].tmp
    BY <1>0, <1>7, <2>1, <2>2, <2>4 DEF WholeTmp
  <2>5. QED  BY <1>0, <2>3, <2>4
<1>11. Opened'
  BY <1>0, <1>2, <1>3, <1>4 DEF FilesOK, Opened, Closed
<1>12. QED  BY <1>0, <1>6, <1>9, <1>10, <1>11 DEF FilesOK

(* What comes to be at d is whole, or is being written there. *)
LEMMA RenameFiles ==
    ASSUME Inductive, FilesOK, NEW a \in Requests, Rename(a)
    PROVE  FilesOK'
<1>0. PICK d : d = req[a].digest
  OBVIOUS
<1> DEFINE q == [req[a] EXCEPT !.pc = Stored(req[a])]
<1>1. open[a] = Closed /\ req[a].pc = "rename" /\ d \in Digests
  BY <1>0 DEF FilesOK, Opened, Rename, At, Inductive, InFlight
<1>2. CASE d \notin DOMAIN tmp
  <2>1. Set(a, Idle) /\ KeepOpen /\ UNCHANGED torn /\ vol'.files = vol.files
    BY <1>0, <1>2 DEF Rename, End, Still
  <2>2. QED  BY <1>0, <1>1, <2>1, FilesStay DEF Idle
<1>3. CASE d \in DOMAIN tmp
  <2>1. \A b \in Requests : req'[b] = IF b = a THEN q ELSE req[b]
    BY <1>0, <1>3 DEF Inductive, Rename, Goto, Set
  <2>2. q.pc \in {"hard_link", "commit", "alias"} /\ q.digest = d
    BY <1>0 DEF Stored, Inductive, Local
  <2>3. \A b \in Requests : open'[b] = IF open[b].tmp /\ req[b].digest = d
                                       THEN [tmp |-> FALSE, at |-> {d}] ELSE LosesName(b, d)
    BY <1>0, <1>3 DEF Rename
  <2>4. \A b \in Requests :
           LosesName(b, d).tmp = open[b].tmp /\ LosesName(b, d).at = open[b].at \ {d}
    BY <1>0 DEF LosesName, FilesOK, Opened
  <2>5. /\ DOMAIN vol'.files = DOMAIN vol.files \cup {d}
        /\ \A x \in DOMAIN vol.files : x # d => vol'.files[x] = vol.files[x]
        /\ vol'.files[d] = tmp[d]
    BY <1>0, <1>3, PutFilePuts DEF Inductive, VolumeOK, Rename
  <2>6. /\ DOMAIN tmp' = DOMAIN tmp \ {d}
        /\ \A x \in DOMAIN tmp' : tmp'[x] = tmp[x]
        /\ UNCHANGED torn
    BY <1>0, <1>3 DEF Rename, Drop, Still
  <2>7. tmp[d] = d.of \/ Writing(d)
    BY <1>0, <1>1, <1>3 DEF FilesOK, WholeTmp, Renaming
  <2> HIDE DEF q
  <2>8. WholeFiles'
    <3>1. ASSUME NEW x \in DOMAIN vol.files, x # d
          PROVE  vol.files[x] = x.of \/ Mending(x)' \/ x.of \in torn
      <4>1. ASSUME NEW b \in Requests, x \in open[b].at PROVE x \in open'[b].at
        BY <1>0, <2>3, <2>4, <3>1, <4>1 DEF FilesOK, Opened
      <4>2. Mending(x) => Mending(x)'
        BY <1>0, <4>1 DEF Mending
      <4>3. QED  BY <1>0, <4>2 DEF FilesOK, WholeFiles
    <3>2. tmp[d] = d.of \/ Mending(d)'
      BY <1>0, <2>3, <2>7 DEF Writing, Mending
    <3>3. QED  BY <1>0, <2>5, <2>6, <3>1, <3>2 DEF WholeFiles
  <2>9. WholeTmp'
    <3> SUFFICES ASSUME NEW x \in DOMAIN tmp, x # d, Renaming(x)'
                 PROVE  tmp[x] = x.of \/ Writing(x)'
      BY <1>0, <2>6 DEF FilesOK, WholeTmp
    <3>1. Renaming(x)
      BY <1>0, <2>1, <2>2 DEF Renaming
    <3>2. Writing(x) => Writing(x)'
      BY <1>0, <1>1, <2>1, <2>3, <2>4 DEF Writing, Closed
    <3>3. QED  BY <1>0, <3>1, <3>2 DEF FilesOK, WholeTmp
  <2>10. Opened'
    <3>1. open' \in [Requests -> [tmp : BOOLEAN, at : SUBSET Digests]]
      <4>1. \A b \in Requests : LosesName(b, d) \in [tmp : BOOLEAN, at : SUBSET Digests]
        BY DEF FilesOK, Opened, LosesName
      <4>2. [tmp |-> FALSE, at |-> {d}] \in [tmp : BOOLEAN, at : SUBSET Digests]
        BY <1>1
      <4>3. QED  BY <1>0, <1>3, <4>1, <4>2 DEF Rename
    <3>2. ASSUME NEW b \in Requests, open[b] = Closed PROVE open'[b] = Closed
      BY <2>3, <2>4, <3>1, <3>2, ClosedIs DEF Closed
    <3>3. \A b \in Requests : open'[b].tmp => open'[b].at = {}
      BY <1>0, <2>3, <2>4 DEF FilesOK, Opened
    <3>4. \A b \in Requests : \A x \in open'[b].at : x.of = req'[b].digest.of
      BY <1>0, <2>1, <2>2, <2>3, <2>4 DEF FilesOK, Opened
    <3>5. \A b \in Requests : req'[b].pc # "write" => open'[b] = Closed
      BY <1>0, <1>1, <2>1, <3>2 DEF FilesOK, Opened
    <3>6. QED  BY <1>0, <3>1, <3>3, <3>4, <3>5 DEF Opened
  <2>11. torn' \subseteq Contents
    BY <1>0, <2>6 DEF FilesOK
  <2>12. QED  BY <1>0, <2>8, <2>9, <2>10, <2>11 DEF FilesOK
<1>4. QED  BY <1>0, <1>2, <1>3

(* The second address is the same file. *)
LEMMA HardLinkFiles ==
    ASSUME Inductive, FilesOK, NEW a \in Requests, HardLink(a)
    PROVE  FilesOK'
<1>0. PICK d, e : d = req[a].digest /\ e = Digest("sha256", d.of)
  OBVIOUS
<1> DEFINE new == NewlyStored(vol, e)
           q == [req[a] EXCEPT !.pc = IF req[a].op = "push" THEN "commit" ELSE "alias"]
<1>1. open[a] = Closed /\ d \in Digests /\ d \in DOMAIN vol.files
  BY <1>0 DEF FilesOK, Opened, HardLink, At, Inductive, InFlight
<1>2. \A b \in Requests : req'[b] = IF b = a THEN q ELSE req[b]
  BY <1>0 DEF Inductive, HardLink, Goto, Set
<1>3. q.pc \in {"commit", "alias"} /\ q.digest = d
  BY <1>0 DEF Inductive, Local
<1>4. \A b \in Requests : open'[b] = IF new /\ d \in open[b].at
                                     THEN [open[b] EXCEPT !.at = @ \cup {e}] ELSE open[b]
  BY <1>0 DEF HardLink
<1>5. e \in Digests /\ e.of = d.of
  BY <1>0, <1>1 DEF Digests, Digest
<1>6. /\ DOMAIN vol'.files = DOMAIN vol.files \cup {e}
      /\ \A x \in DOMAIN vol.files : vol'.files[x] = vol.files[x]
      /\ new => vol'.files[e] = vol.files[d]
      /\ new <=> e \notin DOMAIN vol.files
  <2>1. vol' = StoreFile(vol, e, vol.files[d]) /\ IsVolume(vol)
    BY <1>0 DEF HardLink, HardLinkSha256, Inductive, VolumeOK
  <2>2. QED  BY <1>0, <2>1, StoreFileStores DEF NewlyStored
<1>7. UNCHANGED <<tmp, torn>>
  BY <1>0 DEF HardLink, Still
<1> HIDE DEF q, new
<1>8. \A b \in Requests : open'[b].tmp = open[b].tmp /\ open[b].at \subseteq open'[b].at
                          /\ open'[b].at \subseteq open[b].at \cup {e}
                          /\ (open[b].at = {} => open'[b] = open[b])
                          /\ (new /\ d \in open[b].at => e \in open'[b].at)
  <2> TAKE b \in Requests
  <2>1. open[b] \in [tmp : BOOLEAN, at : SUBSET Digests]
    BY DEF FilesOK, Opened
  <2>2. CASE new /\ d \in open[b].at
    <3>1. open'[b] = [open[b] EXCEPT !.at = @ \cup {e}]
      BY <2>2, <1>4
    <3>2. QED  BY <2>1, <2>2, <3>1
  <2>3. CASE ~(new /\ d \in open[b].at)
    <3>1. open'[b] = open[b]
      BY <2>3, <1>4
    <3>2. QED  BY <2>3, <3>1
  <2>4. QED  BY <2>2, <2>3
<1>9. WholeFiles'
  <2>1. ASSUME NEW x PROVE Mending(x) => Mending(x)'
    BY <1>0, <1>8 DEF Mending
  <2>2. new /\ Mending(d) => Mending(e)'
    BY <1>8 DEF Mending
  <2>3. QED  BY <1>0, <1>1, <1>5, <1>6, <1>7, <2>1, <2>2 DEF FilesOK, WholeFiles
<1>10. WholeTmp'
  <2> SUFFICES ASSUME NEW x \in DOMAIN tmp, Renaming(x)' PROVE tmp[x] = x.of \/ Writing(x)'
    BY <1>0, <1>7 DEF FilesOK, WholeTmp
  <2>1. Renaming(x)
    BY <1>0, <1>2, <1>3 DEF Renaming
  <2>2. Writing(x) => Writing(x)'
    BY <1>0, <1>1, <1>2, <1>8 DEF Writing, Closed
  <2>3. QED  BY <1>0, <2>1, <2>2 DEF FilesOK, WholeTmp
<1>11. Opened'
  <2>1. open' \in [Requests -> [tmp : BOOLEAN, at : SUBSET Digests]]
    BY <1>0, <1>5 DEF FilesOK, Opened, HardLink
  <2>2. \A b \in Requests : \A x \in open'[b].at : x.of = req'[b].digest.of
    <3> SUFFICES ASSUME NEW b \in Requests, NEW x \in open'[b].at PROVE x.of = req'[b].digest.of
      OBVIOUS
    <3>1. b # a
      BY <1>0, <1>1, <1>8 DEF Closed
    <3>2. \A y \in open[b].at : y.of = req[b].digest.of
      BY <1>0 DEF FilesOK, Opened
    <3>3. x \in open[b].at \/ (x = e /\ d \in open[b].at)
      BY <1>0, <1>4, <1>8
    <3>4. QED  BY <1>0, <1>2, <1>5, <3>1, <3>2, <3>3
  <2>3. \A b \in Requests : (open'[b].tmp => open'[b].at = {})
                           /\ (req[b].pc # "write" => open'[b] = Closed)
    <3> TAKE b \in Requests
    <3>1. open[b].tmp => open[b].at = {}
      BY DEF FilesOK, Opened
    <3>2. req[b].pc # "write" => open[b] = Closed
      BY DEF FilesOK, Opened
    <3>3. open[b] = Closed => open[b].at = {}
      BY DEF Closed
    <3>4. QED  BY <1>8, <3>1, <3>2, <3>3
  <2>4. open'[a] = Closed
    BY <1>1, <1>8 DEF Closed
  <2>5. QED  BY <1>2, <2>1, <2>2, <2>3, <2>4 DEF Opened
<1>12. QED  BY <1>0, <1>7, <1>9, <1>10, <1>11 DEF FilesOK

(* Requests arrive with no file open. *)
LEMMA ArrivalFiles == Inductive /\ FilesOK /\ Arrival => FilesOK'
<1> SUFFICES ASSUME Inductive, FilesOK, Arrival PROVE FilesOK'
  OBVIOUS
<1> DEFINE First == {"store", "check", "stat", "lookup", "resolve"}
<1>1. ASSUME NEW a \in Requests, NEW q, Arrive(a, q), q.pc \in First
      PROVE  FilesOK'
  <2>1. Set(a, q) /\ KeepOpen /\ UNCHANGED torn /\ vol'.files = vol.files
        /\ req[a].pc # "write"
    BY <1>1 DEF Arrive, At
  <2>2. QED  BY <1>1, <2>1, FilesStay
<1>2. \A r, d : [Idle EXCEPT !.op = "push", !.pc = "store", !.repo = r, !.digest = d].pc \in First
  BY DEF Idle
<1>3. \A op, r, tags, d, todo :
         [Idle EXCEPT !.op = op, !.pc = "check", !.repo = r, !.tag = tags, !.digest = d,
                      !.todo = todo].pc \in First
  BY DEF Idle
<1>4. \A r, d, todo :
         [Idle EXCEPT !.op = "put_digest", !.pc = "check", !.repo = r, !.digest = d,
                      !.todo = todo].pc \in First
  BY DEF Idle
<1>5. \A op, r, from, d :
         [Idle EXCEPT !.op = op, !.pc = "stat", !.repo = r, !.from = from, !.digest = d].pc
         \in First
  BY DEF Idle
<1>6. \A r, d :
         [Idle EXCEPT !.op = "delete_manifest", !.pc = "lookup", !.repo = r, !.digest = d].pc
         \in First
  BY DEF Idle
<1>7. \A r, tags :
         [Idle EXCEPT !.op = "delete_tag", !.pc = "resolve", !.repo = r, !.tag = tags].pc
         \in First
  BY DEF Idle
<1> HIDE DEF First
<1>8. QED
  BY <1>1, <1>2, <1>3, <1>4, <1>5, <1>6, <1>7
     DEF Arrival, Push, PutByTag, PutByDigest, Mount, DeleteManifest, DeleteTag, DeleteBlob

(* Only the steps that write touch the files. *)
LEMMA ServeFiles ==
    ASSUME Inductive, FilesOK, NEW a \in Requests, Serve(a)
    PROVE  FilesOK'
<1>1. ASSUME Set(a, req'[a]), Keep, vol'.files = vol.files, req[a].pc # "write",
             req'[a].pc \notin {"write", "rename"}
      PROVE  FilesOK'
  BY <1>1, FilesStay DEF Keep, Still
<1>2. req \in [Requests -> Local] /\ VolumeOK(vol) /\ req[a] \in Local /\ InFlight(req[a], vol) /\ Idle.pc = "idle"
  BY DEF Inductive, Idle
<1>3. CASE Check(a)
  <2>1. Keep /\ UNCHANGED vol /\ req[a].pc = "check"
    BY <1>3 DEF Check, At
  <2>2. Set(a, req'[a]) /\ req'[a].pc \in {"idle", "store", "check"}
    BY <1>2, <1>3, <2>1 DEF Check, Goto, End, Set, Local
  <2>3. QED  BY <1>1, <2>1, <2>2
<1>4. CASE Store(a)
  <2>1. Keep /\ UNCHANGED vol /\ req[a].pc = "store"
    BY <1>4 DEF Store, At
  <2>2. Set(a, req'[a]) /\ req'[a].pc \in {"place", "create", "hard_link", "commit", "alias"}
    BY <1>2, <1>4 DEF Store, Stored, Set, Local
  <2>3. QED  BY <1>1, <2>1, <2>2
<1>5. CASE Alias(a)
  <2>1. Keep /\ req[a].pc = "alias"
    BY <1>5 DEF Alias, At
  <2>2. vol'.files = vol.files
    BY <1>2, <1>5 DEF Alias, AliasPut, VolumeOK, IsVolume
  <2>3. Set(a, req'[a]) /\ req'[a].pc = "commit"
    BY <1>2, <1>5 DEF Alias, Goto, Set, Local
  <2>4. QED  BY <1>1, <2>1, <2>2, <2>3
<1>6. CASE Commit(a)
  <2>1. Keep /\ req[a].pc = "commit"
    BY <1>6 DEF Commit, At
  <2>2. vol'.files = vol.files
    BY <1>2, <1>6 DEF Commit, CommitFinishedUpload, ManifestCommit, LinkAdd, AliasPut,
                      VolumeOK, IsVolume
  <2>3. Set(a, req'[a]) /\ req'[a].pc \in {"idle", "tag"}
    BY <1>2, <1>6 DEF Commit, Goto, End, Set, Local
  <2>4. QED  BY <1>1, <2>1, <2>2, <2>3
<1>7. CASE SetTag(a) \/ Link(a)
  <2>1. Keep /\ req[a].pc # "write" /\ Set(a, req'[a]) /\ req'[a].pc = "idle"
    BY <1>2, <1>7 DEF SetTag, Link, At, End, Set
  <2>2. vol'.files = vol.files
    BY <1>2, <1>7 DEF SetTag, TagSet, Link, LinkAdd, VolumeOK, IsVolume
  <2>3. QED  BY <1>1, <1>2, <2>1, <2>2
<1>8. CASE Stat(a)
  <2>1. Keep /\ UNCHANGED vol /\ req[a].pc = "stat"
    BY <1>8 DEF Stat, At
  <2>2. Set(a, req'[a]) /\ req'[a].pc \in {"idle", "link", "unlink"}
    <3>1. CASE ~RequireLink(vol, req[a].from, req[a].digest) \/ ResolveStored(vol, req[a].digest) = {}
      BY <1>2, <1>8, <3>1 DEF Stat, End, Set
    <3>2. CASE ~(~RequireLink(vol, req[a].from, req[a].digest) \/ ResolveStored(vol, req[a].digest) = {})
      <4>1. PICK stored, names :
               \/ Set(a, [req[a] EXCEPT !.pc = "link", !.digest = stored])
               \/ Set(a, [req[a] EXCEPT !.pc = "unlink", !.unlink = names])
        BY <1>8, <3>2 DEF Stat
      <4>2. ASSUME NEW q, Set(a, q) PROVE req'[a] = q /\ Set(a, req'[a])
        BY <1>2, <4>2 DEF Set
      <4>3. /\ [req[a] EXCEPT !.pc = "link", !.digest = stored].pc = "link"
            /\ [req[a] EXCEPT !.pc = "unlink", !.unlink = names].pc = "unlink"
        BY <1>2 DEF Local
      <4>4. QED  BY <4>1, <4>2, <4>3
    <3>3. QED  BY <3>1, <3>2
  <2>3. QED  BY <1>1, <2>1, <2>2
<1>9. CASE Lookup(a) \/ ListTags(a) \/ Untagged(a) \/ ResolveTag(a)
  <2>1. Keep /\ UNCHANGED vol /\ req[a].pc # "write"
    BY <1>9 DEF Lookup, ListTags, Untagged, ResolveTag, At
  <2>2. CASE Lookup(a)
    <3>1. Set(a, req'[a]) /\ req'[a].pc \in {"idle", "list"}
      <4> DEFINE names == IF AliasOf(vol, req[a].digest) = {} THEN <<req[a].digest>>
                          ELSE <<req[a].digest, vol.aliases[req[a].digest]>>
      <4>1. Set(a, Idle) \/ Set(a, [req[a] EXCEPT !.pc = "list", !.unlink = names])
        BY <2>2 DEF Lookup, End
      <4> HIDE DEF names
      <4>2. QED  BY <1>2, <4>1 DEF Set, Local
    <3>2. QED  BY <1>1, <2>1, <3>1
  <2>3. CASE ListTags(a) \/ Untagged(a) \/ ResolveTag(a)
    <3>1. Set(a, req'[a]) /\ req'[a].pc \in {"idle", "untag", "unlink"}
      <4>1. CASE ListTags(a)
        BY <1>2, <4>1 DEF ListTags, Set, Local
      <4>2. CASE Untagged(a)
        BY <1>2, <4>2 DEF Untagged, Goto, End, Set, Local
      <4>3. CASE ResolveTag(a)
        <5>1. Set(a, Idle) \/ Set(a, [req[a] EXCEPT !.pc = "untag", !.todo = req[a].tag])
          BY <4>3 DEF ResolveTag, End
        <5>2. QED  BY <1>2, <5>1 DEF Set, Local
      <4>4. QED  BY <2>3, <4>1, <4>2, <4>3
    <3>2. QED  BY <1>1, <2>1, <3>1
  <2>4. QED  BY <1>9, <2>2, <2>3
<1>10. CASE Untag(a)
  <2>1. Keep /\ req[a].pc = "untag"
    BY <1>10 DEF Untag, At
  <2>2. vol'.files = vol.files
    BY <1>2, <1>10 DEF Untag, TagDelete, VolumeOK, IsVolume
  <2>3. Set(a, req'[a]) /\ req'[a].pc = "untag"
    BY <1>2, <1>10, <2>1 DEF Untag, Set, Local
  <2>4. QED  BY <1>1, <2>1, <2>2, <2>3
<1>11. CASE Unlink(a)
  <2>1. Keep /\ req[a].pc = "unlink"
    BY <1>11 DEF Unlink, At
  <2>2. vol'.files = vol.files
    BY <1>2, <1>11 DEF Unlink, LinkRemove, VolumeOK, IsVolume
  <2>3. Set(a, req'[a]) /\ req'[a].pc \in {"idle", "unlink"}
    BY <1>2, <1>11, <2>1 DEF Unlink, End, Set, Local
  <2>4. QED  BY <1>1, <2>1, <2>2, <2>3
<1>12. QED
  BY <1>3, <1>4, <1>5, <1>6, <1>7, <1>8, <1>9, <1>10, <1>11, PlaceFiles, CreateFiles,
     WriteFiles, RenameFiles, HardLinkFiles DEF Serve

LEMMA KillFiles == Inductive /\ FilesOK /\ Kill => FilesOK'
<1> SUFFICES ASSUME Inductive, FilesOK, Kill PROVE FilesOK'
  OBVIOUS
<1>1. WholeFiles'
  BY DEF Kill, WholeFiles
<1>2. WholeTmp'
  BY DEF Kill, FilesOK, WholeTmp, Renaming, Idle
<1>3. Opened'
  BY DEF Kill, Opened, Closed, Idle
<1>4. torn' \subseteq Contents
  BY DEF Kill, FilesOK, Inductive, VolumeOK, TypedVolume, Digests
<1>5. QED  BY <1>1, <1>2, <1>3, <1>4 DEF FilesOK

(* Every step keeps the files in order; a kill leaves behind what it cuts. *)
LEMMA StepFiles == Inductive /\ FilesOK /\ [Next]_vars => FilesOK'
<1> SUFFICES ASSUME Inductive, FilesOK, [Next]_vars PROVE FilesOK'
  OBVIOUS
<1>1. CASE Arrival
  BY <1>1, ArrivalFiles
<1>2. ASSUME NEW a \in Requests, Serve(a) PROVE FilesOK'
  BY <1>2, ServeFiles
<1>3. CASE Kill
  BY <1>3, KillFiles
<1>4. CASE Restart \/ UNCHANGED vars
  <2>1. UNCHANGED <<vol, tmp, open, req, torn>>
    BY <1>4 DEF Restart, vars, KeepOpen
  <2>2. QED
    BY <2>1 DEF FilesOK, WholeFiles, WholeTmp, Opened, Mending, Renaming, Writing
<1>5. QED  BY <1>1, <1>2, <1>3, <1>4 DEF Next

-----------------------------------------------------------------------------
(* Both invariants hold of every reachable state. *)
LEMMA AlwaysInductive == Spec => [](Inductive /\ FilesOK)
<1>1. Inductive /\ FilesOK /\ [Next]_vars => (Inductive /\ FilesOK)'
  BY StepKeeps, StepFiles
<1>2. QED  BY <1>1, Initially, FilesInitially, PTL DEF Spec

(* The tables and the requests of OciStore keep their types, whatever       *)
(* requests interleave and wherever the server is killed.                   *)
THEOREM RegistryTypes == Spec => []TypeOK
<1>1. Inductive /\ FilesOK => TypeOK
  BY DEF Inductive, FilesOK, WholeTmp, Opened, VolumeOK, TypeOK
<1>2. QED  BY <1>1, AlwaysInductive, PTL

(* No interleaving of pushes, PUTs, mounts and deletes, and no order of     *)
(* kills, leaves a link without bytes (manifest_put, upload_finish and      *)
(* blob_mount link last; no request removes a file).                        *)
THEOREM RegistryLinksStored == Spec => []LinkedIsStored
<1>1. Inductive => LinkedIsStored
  BY DEF Inductive, VolumeOK, LinkedIsStored
<1>2. QED  BY <1>1, AlwaysInductive, PTL

(* No interleaving and no kill leaves a referrers row whose manifest is not *)
(* linked: manifest_commit writes both in one transaction and link_remove   *)
(* removes both in one.                                                     *)
THEOREM RegistryReferrersLinked == Spec => []ReferrerIsLinked
<1>1. Inductive => ReferrerIsLinked
  BY DEF Inductive, VolumeOK, ReferrerIsLinked
<1>2. QED  BY <1>1, AlwaysInductive, PTL

-----------------------------------------------------------------------------
(* Tags and the promise.  What a tag points at stays linked as long as its  *)
(* repository has not run wild: until then no delete by digest meets a PUT  *)
(* of related content there, and no manifest is linked or unlinked as a     *)
(* blob.                                                                    *)
Tame == Repos \ wild

(* Content c can be read in repository r, under one name or another. *)
OnOffer(v, r, c) == \E key \in DOMAIN v.links : key[1] = r /\ key[2].of = c

(* Digest d itself is linked in r. *)
Linked(v, r, d) == <<r, d>> \in DOMAIN v.links

(* The links of w are those of v and d in r. *)
LinkedAlso(v, w, r, d) == DOMAIN w.links = DOMAIN v.links \cup {<<r, d>>}

(* A digest and its alias name the same content; in the repositories of T  *)
(* a manifest is never linked as a blob, and a tag points at a linked      *)
(* manifest.                                                               *)
TagsServed(v, T) ==
    /\ \A d \in DOMAIN v.aliases : v.aliases[d].of = d.of
    /\ \A key \in DOMAIN v.links :
          key[1] \in T /\ key[2].of \in Manifests => v.links[key] # "blob"
    /\ \A key \in DOMAIN v.tags :
          key[1] \in T =>
             v.tags[key].of \in Manifests /\ <<key[1], v.tags[key]>> \in DOMAIN v.links

(* No tag of repository r other than those in spared is at one of names. *)
OnlyAt(v, r, names, spared) ==
    \A key \in DOMAIN v.tags : key[1] = r /\ v.tags[key] \in names => key[2] \in spared

(* The steps of a push and of a PUT up to its commit. *)
Storing == {"check", "store", "place", "create", "write", "rename", "hard_link", "alias",
            "commit"}

(* What the step and the operation of a request say about each other. *)
Shaped(q) ==
    /\ q.pc \in Storing =>
          /\ q.op = "push" \/ IsPut(q.op)
          /\ q.op = "push" => q.tag = {}
          /\ q.op # "push" => q.digest.of \in Manifests /\ (q.pc # "check" => q.todo = {})
    /\ q.pc = "tag" => IsPut(q.op) /\ q.digest.of \in Manifests
    /\ q.pc = "stat" => q.op \in {"mount", "delete_blob"}
    /\ q.pc = "link" => q.op = "mount"
    /\ q.pc \in {"lookup", "list"} => q.op = "delete_manifest"
    /\ q.pc = "resolve" => q.op = "delete_tag"
    /\ q.pc = "untag" => q.op \in {"delete_tag", "delete_manifest"}
    /\ q.pc = "unlink" => IsDelete(q.op)
    /\ q.pc \in {"list", "unlink"} \/ (q.pc = "untag" /\ q.op = "delete_manifest")
          => \A x \in InSeq(q.unlink) : x.of = q.digest.of

(* What a request in flight has made sure of, about its own repository: a  *)
(* PUT, that what it has checked is on offer; one about to tag, that its   *)
(* manifest is linked; a delete, that the tags left at the names it will   *)
(* unlink are the ones it has still to delete.                             *)
Assured(q, v) ==
    /\ q.pc \in Storing /\ q.op # "push" =>
          \A x \in MustExist[q.digest.of] : x \in q.todo \/ OnOffer(v, q.repo, x.of)
    /\ q.pc = "tag" => <<q.repo, q.digest>> \in DOMAIN v.links
    /\ q.pc = "untag" /\ q.op = "delete_manifest"
          => OnlyAt(v, q.repo, InSeq(q.unlink), q.todo)
    /\ q.pc = "unlink" => OnlyAt(v, q.repo, InSeq(q.unlink), {})

AllAssured == \A a \in Requests : req[a].repo \in Tame => Assured(req[a], vol)

TagsSettled ==
    /\ TagsServed(vol, Tame)
    /\ \A a \in Requests : Shaped(req[a])
    /\ AllAssured
    /\ Disturbed(req) \subseteq wild

(* What a step of request a may do to links and tags: only a delete by     *)
(* digest removes a link, only a PUT sets a tag, both in their own         *)
(* repository and of their own content.                                    *)
Effect(a, v, w) ==
    /\ \A key \in DOMAIN v.links :
          \/ key \in DOMAIN w.links
          \/ key[1] = req[a].repo /\ IsDelete(req[a].op) /\ key[2].of = req[a].digest.of
    /\ \A key \in DOMAIN w.tags :
          \/ key \in DOMAIN v.tags /\ w.tags[key] = v.tags[key]
          \/ key[1] = req[a].repo /\ IsPut(req[a].op) /\ w.tags[key].of = req[a].digest.of

(* In a tame repository nothing crosses and nobody interferes. *)
LEMMA TameIsQuiet ==
    ASSUME TagsSettled, NEW a \in Requests, req[a].repo \in Tame
    PROVE  /\ ~Crosses(req[a])
           /\ \A b \in Requests : ~Interferes(req[a], req[b]) /\ ~Interferes(req[b], req[a])
<1>1. \A b \in Requests : Crosses(req[b]) => req[b].repo \in wild
  BY DEF TagsSettled, Disturbed
<1>2. \A b \in Requests, c \in Requests : Interferes(req[b], req[c]) => req[b].repo \in wild
  BY DEF TagsSettled, Disturbed
<1>3. \A b \in Requests, c \in Requests :
         Interferes(req[b], req[c]) => req[b].repo = req[c].repo
  BY DEF Interferes
<1>4. QED  BY <1>1, <1>2, <1>3 DEF Tame

(* A step of one request leaves standing what another is assured of. *)
LEMMA Undisturbed ==
    ASSUME TagsSettled, NEW a \in Requests, NEW b \in Requests, a # b, NEW w,
           req[b].repo \in Tame, Effect(a, vol, w)
    PROVE  Assured(req[b], w)
<1> DEFINE q == req[b]
           r == q.repo
<1>1. Assured(q, vol) /\ Shaped(q)
  BY DEF TagsSettled, AllAssured
<1>2. ~Interferes(req[a], q) /\ ~Interferes(q, req[a])
  BY TameIsQuiet
<1>3. ASSUME IsPut(q.op), NEW d, <<r, d>> \in DOMAIN vol.links,
             d.of = q.digest.of \/ d.of \in {x.of : x \in MustExist[q.digest.of]}
      PROVE  <<r, d>> \in DOMAIN w.links
  <2>1. CASE r = req[a].repo /\ IsDelete(req[a].op)
    <3>1. req[a].digest.of # d.of
      BY <1>2, <1>3, <2>1 DEF Interferes
    <3>2. QED  BY <1>3, <3>1 DEF Effect
  <2>2. CASE ~(r = req[a].repo /\ IsDelete(req[a].op))
    BY <1>3, <2>2 DEF Effect
  <2>3. QED  BY <2>1, <2>2
<1>4. ASSUME NEW key \in DOMAIN vol.links, key[1] = r, IsPut(q.op),
             key[2].of = q.digest.of \/ key[2].of \in {x.of : x \in MustExist[q.digest.of]}
      PROVE  key \in DOMAIN w.links
  <2>1. CASE r = req[a].repo /\ IsDelete(req[a].op)
    <3>1. req[a].digest.of # key[2].of
      BY <1>2, <1>4, <2>1 DEF Interferes
    <3>2. QED  BY <1>4, <3>1 DEF Effect
  <2>2. CASE ~(r = req[a].repo /\ IsDelete(req[a].op))
    BY <1>4, <2>2 DEF Effect
  <2>3. QED  BY <2>1, <2>2
<1>5. ASSUME q.pc \in Storing, q.op # "push", NEW x \in MustExist[q.digest.of]
      PROVE  x \in q.todo \/ OnOffer(w, r, x.of)
  <2>1. IsPut(q.op)
    BY <1>1, <1>5 DEF Shaped
  <2>2. OnOffer(vol, r, x.of) => OnOffer(w, r, x.of)
    BY <1>4, <1>5, <2>1 DEF OnOffer
  <2>3. QED  BY <1>1, <1>5, <2>2 DEF Assured
<1>6. ASSUME q.pc = "tag" PROVE <<r, q.digest>> \in DOMAIN w.links
  BY <1>1, <1>3, <1>6 DEF Assured, Shaped
<1>7. ASSUME NEW spared, NEW names, \A x \in names : x.of = q.digest.of, IsDelete(q.op),
             OnlyAt(vol, r, names, spared)
      PROVE  OnlyAt(w, r, names, spared)
  <2> SUFFICES ASSUME NEW key \in DOMAIN w.tags, key[1] = r, w.tags[key] \in names
               PROVE  key[2] \in spared
    BY DEF OnlyAt
  <2>1. w.tags[key].of = q.digest.of
    BY <1>7
  <2>2. ~(IsPut(req[a].op) /\ r = req[a].repo /\ w.tags[key].of = req[a].digest.of)
    BY <1>2, <1>7, <2>1 DEF Interferes
  <2>3. key \in DOMAIN vol.tags /\ w.tags[key] = vol.tags[key]
    BY <2>2 DEF Effect
  <2>4. QED  BY <1>7, <2>3 DEF OnlyAt
<1>8. ASSUME q.pc = "untag", q.op = "delete_manifest"
      PROVE  OnlyAt(w, r, InSeq(q.unlink), q.todo)
  <2>1. /\ OnlyAt(vol, r, InSeq(q.unlink), q.todo) /\ IsDelete(q.op)
        /\ \A x \in InSeq(q.unlink) : x.of = q.digest.of
    BY <1>1, <1>8 DEF Assured, Shaped, IsDelete
  <2>2. QED  BY <2>1, <1>7
<1>9. ASSUME q.pc = "unlink" PROVE OnlyAt(w, r, InSeq(q.unlink), {})
  <2>1. /\ OnlyAt(vol, r, InSeq(q.unlink), {}) /\ IsDelete(q.op)
        /\ \A x \in InSeq(q.unlink) : x.of = q.digest.of
    BY <1>1, <1>9 DEF Assured, Shaped
  <2>2. QED  BY <2>1, <1>7
<1> HIDE DEF q
<1>10. Assured(q, w)
  BY <1>5, <1>6, <1>8, <1>9 DEF Assured
<1>11. QED  BY <1>10 DEF q

(* A request that keeps its repository, its operation and its content       *)
(* disturbs no more than it did.                                            *)
LEMMA DisturbsNoMore ==
    ASSUME Inductive, TagsSettled, NEW a \in Requests, NEW q, Set(a, q), UNCHANGED wild,
           \/ q.repo = req[a].repo /\ q.op = req[a].op /\ q.digest.of = req[a].digest.of
           \/ q = Idle
    PROVE  (Disturbed(req) \subseteq wild)'
<1>1. req'[a] = q /\ \A b \in Requests : b # a => req'[b] = req[b]
  BY DEF Inductive, Set
<1>2. ~Crosses(Idle) /\ \A p : ~Interferes(Idle, p) /\ ~Interferes(p, Idle)
  BY DEF Crosses, Interferes, Idle, IsDelete, IsPut
<1>3. \A b \in Requests :
         \/ req'[b] = Idle
         \/ /\ req'[b].repo = req[b].repo /\ req'[b].op = req[b].op
            /\ req'[b].digest.of = req[b].digest.of
  BY <1>1
<1>4. ASSUME NEW b \in Requests, Crosses(req'[b])
      PROVE  req'[b].repo \in wild
  <2>1. req'[b].repo = req[b].repo /\ Crosses(req[b])
    BY <1>2, <1>3, <1>4 DEF Crosses
  <2>2. QED  BY <2>1 DEF TagsSettled, Disturbed
<1>5. ASSUME NEW b \in Requests, NEW c \in Requests, Interferes(req'[b], req'[c])
      PROVE  req'[b].repo \in wild
  <2>1. req'[b] # Idle /\ req'[c] # Idle
    BY <1>2, <1>5
  <2>2. Interferes(req[b], req[c]) /\ req'[b].repo = req[b].repo
    BY <1>3, <1>5, <2>1 DEF Interferes
  <2>3. QED  BY <2>2 DEF TagsSettled, Disturbed
<1>6. QED  BY <1>4, <1>5 DEF Disturbed

(* A request that moves on within its operation, assured of what its next  *)
(* step needs.                                                             *)
LEMMA SettledMovesOn ==
    ASSUME Inductive, TagsSettled, NEW a \in Requests, NEW q, Set(a, q), UNCHANGED wild,
           TagsServed(vol', Tame), Shaped(q), q.repo \in Tame => Assured(q, vol'),
           Effect(a, vol, vol'),
           \/ q.repo = req[a].repo /\ q.op = req[a].op /\ q.digest.of = req[a].digest.of
           \/ q = Idle
    PROVE  TagsSettled'
<1>1. req'[a] = q /\ \A b \in Requests : b # a => req'[b] = req[b]
  BY DEF Inductive, Set
<1>2. ASSUME NEW b \in Requests
      PROVE  Shaped(req'[b]) /\ (req'[b].repo \in Tame => Assured(req'[b], vol'))
  <2>1. CASE b = a
    BY <2>1, <1>1
  <2>2. CASE b # a
    <3>1. req[b].repo \in Tame => Assured(req[b], vol')
      BY <2>2, Undisturbed
    <3>2. Shaped(req[b])
      BY DEF TagsSettled
    <3>3. QED  BY <3>1, <3>2, <1>1, <2>2
  <2>3. QED  BY <2>1, <2>2
<1>3. (Disturbed(req) \subseteq wild)'
  BY DisturbsNoMore
<1>4. Tame' = Tame
  BY DEF Tame
<1>5. QED  BY <1>2, <1>3, <1>4 DEF TagsSettled, AllAssured

LEMMA IdleIsAssured == Shaped(Idle) /\ \A v : Assured(Idle, v)
BY DEF Idle, Assured, Shaped, Storing

LEMMA IdleIsTame == ASSUME NEW q, \A a \in Requests : q[a] = Idle PROVE Disturbed(q) = {}
<1>1. ~Crosses(Idle) /\ ~Interferes(Idle, Idle)
  BY DEF Crosses, Interferes, Idle, IsDelete
<1>2. QED  BY <1>1 DEF Disturbed

LEMMA SettledInitially == Init => TagsSettled
<1> SUFFICES ASSUME Init PROVE TagsSettled
  OBVIOUS
<1>1. TagsServed(vol, Tame)
  BY EmptyIsVolume DEF Init, TagsServed
<1>2. \A a \in Requests : req[a] = Idle
  BY DEF Init, Fresh
<1>3. QED  BY <1>1, <1>2, IdleIsAssured, IdleIsTame DEF TagsSettled, AllAssured

(* A request that arrives has nothing to be assured of but what its         *)
(* arguments say; the repositories it disturbs run wild.                    *)
LEMMA ArrivesSettled ==
    ASSUME Inductive, TagsSettled, NEW a \in Requests,
           NEW q, Arrive(a, q), Shaped(q), Assured(q, vol)
    PROVE  TagsSettled'
<1>1. /\ vol' = vol
      /\ req'[a] = q /\ \A b \in Requests : b # a => req'[b] = req[b]
  BY DEF Inductive, Arrive, Set
<1>2. wild' = wild \cup Disturbed(req') /\ Tame' \subseteq Tame
  BY DEF Arrive, Tame
<1>3. \A b \in Requests : Shaped(req'[b]) /\ (req'[b].repo \in Tame' => Assured(req'[b], vol))
  BY <1>1, <1>2 DEF TagsSettled, AllAssured
<1>4. TagsServed(vol, Tame')
  BY <1>2 DEF TagsSettled, TagsServed
<1>5. QED  BY <1>1, <1>2, <1>3, <1>4 DEF TagsSettled, AllAssured

LEMMA ArrivalSettles ==
    ASSUME Inductive, TagsSettled, Arrival
    PROVE  TagsSettled'
<1> USE RegistryAssumption
<1>1. PICK a \in Requests, r \in Repos :
       \/ \E c \in Contents, alg \in Algorithms : Push(a, r, c, alg)
       \/ \E m \in Manifests, t \in Tags : PutByTag(a, r, m, t)
       \/ \E m \in Manifests, alg \in Algorithms : PutByDigest(a, r, m, alg)
       \/ \E from \in Repos, c \in Contents, alg \in Algorithms :
             Mount(a, r, from, Digest(alg, c))
       \/ \E m \in Manifests, alg \in Algorithms : DeleteManifest(a, r, Digest(alg, m))
       \/ \E t \in Tags : DeleteTag(a, r, t)
       \/ \E c \in Contents, alg \in Algorithms : DeleteBlob(a, r, Digest(alg, c))
  BY DEF Arrival
<1>2. ASSUME NEW c, NEW alg PROVE Digest(alg, c).of = c
  BY DEF Digest
<1>3. ASSUME NEW c \in Contents, NEW alg \in Algorithms, Push(a, r, c, alg)
      PROVE  TagsSettled'
  <2> DEFINE q == [Idle EXCEPT !.op = "push", !.pc = "store", !.repo = r,
                               !.digest = Digest(alg, c)]
  <2>1. Shaped(q) /\ Assured(q, vol)
    BY DEF Idle, Shaped, Assured, Storing
  <2>2. Arrive(a, q)
    BY <1>3 DEF Push
  <2>3. QED  BY <2>1, <2>2, ArrivesSettled
<1>4. ASSUME NEW m \in Manifests, NEW t \in Tags, PutByTag(a, r, m, t)
      PROVE  TagsSettled'
  <2> DEFINE q == [Idle EXCEPT !.op = "put_tag", !.pc = "check", !.repo = r, !.tag = {t},
                               !.digest = Digest("sha256", m), !.todo = MustExist[m]]
  <2>1. Shaped(q) /\ Assured(q, vol)
    BY <1>2 DEF Idle, Shaped, Assured, Storing, IsPut
  <2>2. Arrive(a, q)
    BY <1>4 DEF PutByTag
  <2>3. QED  BY <2>1, <2>2, ArrivesSettled
<1>5. ASSUME NEW m \in Manifests, NEW alg \in Algorithms, PutByDigest(a, r, m, alg)
      PROVE  TagsSettled'
  <2> DEFINE q == [Idle EXCEPT !.op = "put_digest", !.pc = "check", !.repo = r,
                               !.digest = Digest(alg, m), !.todo = MustExist[m]]
  <2>1. Shaped(q) /\ Assured(q, vol)
    BY <1>2 DEF Idle, Shaped, Assured, Storing, IsPut
  <2>2. Arrive(a, q)
    BY <1>5 DEF PutByDigest
  <2>3. QED  BY <2>1, <2>2, ArrivesSettled
<1>6. ASSUME NEW from \in Repos, NEW c \in Contents, NEW alg \in Algorithms,
             Mount(a, r, from, Digest(alg, c))
      PROVE  TagsSettled'
  <2> DEFINE q == [Idle EXCEPT !.op = "mount", !.pc = "stat", !.repo = r, !.from = from,
                               !.digest = Digest(alg, c)]
  <2>1. Shaped(q) /\ Assured(q, vol)
    BY DEF Idle, Shaped, Assured, Storing
  <2>2. Arrive(a, q)
    BY <1>6 DEF Mount
  <2>3. QED  BY <2>1, <2>2, ArrivesSettled
<1>7. ASSUME NEW m \in Manifests, NEW alg \in Algorithms,
             DeleteManifest(a, r, Digest(alg, m))
      PROVE  TagsSettled'
  <2> DEFINE q == [Idle EXCEPT !.op = "delete_manifest", !.pc = "lookup", !.repo = r,
                               !.digest = Digest(alg, m)]
  <2>1. Shaped(q) /\ Assured(q, vol)
    BY DEF Idle, Shaped, Assured, Storing
  <2>2. Arrive(a, q)
    BY <1>7 DEF DeleteManifest
  <2>3. QED  BY <2>1, <2>2, ArrivesSettled
<1>8. ASSUME NEW t \in Tags, DeleteTag(a, r, t)
      PROVE  TagsSettled'
  <2> DEFINE q == [Idle EXCEPT !.op = "delete_tag", !.pc = "resolve", !.repo = r, !.tag = {t}]
  <2>1. Shaped(q) /\ Assured(q, vol)
    BY DEF Idle, Shaped, Assured, Storing
  <2>2. Arrive(a, q)
    BY <1>8 DEF DeleteTag
  <2>3. QED  BY <2>1, <2>2, ArrivesSettled
<1>9. ASSUME NEW c \in Contents, NEW alg \in Algorithms, DeleteBlob(a, r, Digest(alg, c))
      PROVE  TagsSettled'
  <2> DEFINE q == [Idle EXCEPT !.op = "delete_blob", !.pc = "stat", !.repo = r, !.from = r,
                               !.digest = Digest(alg, c)]
  <2>1. Shaped(q) /\ Assured(q, vol)
    BY DEF Idle, Shaped, Assured, Storing
  <2>2. Arrive(a, q)
    BY <1>9 DEF DeleteBlob
  <2>3. QED  BY <2>1, <2>2, ArrivesSettled
<1>10. QED  BY <1>1, <1>3, <1>4, <1>5, <1>6, <1>7, <1>8, <1>9

-----------------------------------------------------------------------------
(* Each durable step keeps tags served. *)

(* What happens to the files is nothing to them. *)
LEMMA FilesServe ==
    ASSUME NEW v, NEW w, NEW T, TagsServed(v, T),
           w.links = v.links, w.tags = v.tags, w.aliases = v.aliases
    PROVE  TagsServed(w, T)
BY DEF TagsServed

LEMMA AliasServes ==
    ASSUME NEW v, VolumeOK(v), NEW T, TagsServed(v, T), NEW d \in Digests,
           NEW w, w = AliasPut(v, d, OtherName(d))
    PROVE  TagsServed(w, T) /\ w.links = v.links /\ w.tags = v.tags
<1> DEFINE e == OtherName(d)
<1>1. IsVolume(v) /\ d # e /\ e.of = d.of
  BY OtherNameIsDigest DEF VolumeOK, OtherName, Digest
<1> HIDE DEF e
<1>2. w = AliasPut(v, d, e)
  BY DEF e
<1>3. /\ DOMAIN w.aliases = DOMAIN v.aliases \cup {d, e}
      /\ w.aliases[d] = e /\ w.aliases[e] = d
      /\ \A x \in DOMAIN v.aliases : x \notin {d, e} => w.aliases[x] = v.aliases[x]
      /\ w.files = v.files /\ w.links = v.links /\ w.tags = v.tags
  BY <1>1, <1>2, AliasPutPairs
<1>4. QED  BY <1>1, <1>3 DEF TagsServed

(* A blob is linked as a blob, ... *)
LEMMA LinkServes ==
    ASSUME NEW v, VolumeOK(v), NEW T, TagsServed(v, T), NEW r, NEW d, r \in T => d.of \notin Manifests,
           NEW w, w = LinkAdd(v, r, d, "blob")
    PROVE  /\ TagsServed(w, T) /\ w.tags = v.tags
           /\ LinkedAlso(v, w, r, d)
<1>1. IsVolume(v)
  BY DEF VolumeOK
<1>2. /\ DOMAIN w.links = DOMAIN v.links \cup {<<r, d>>}
      /\ w.links[<<r, d>>] = "blob"
      /\ \A key \in DOMAIN v.links : key # <<r, d>> => w.links[key] = v.links[key]
      /\ w.files = v.files /\ w.aliases = v.aliases /\ w.tags = v.tags
  BY <1>1, LinkAddLinks
<1>3. QED  BY <1>2 DEF TagsServed, LinkedAlso

LEMMA PushCommitServes ==
    ASSUME NEW v, VolumeOK(v), NEW T, TagsServed(v, T), NEW r, NEW d \in Digests, r \in T => d.of \notin Manifests,
           NEW newly, NEW w, w = CommitFinishedUpload(v, r, d, OtherName(d), newly)
    PROVE  /\ TagsServed(w, T) /\ w.tags = v.tags
           /\ LinkedAlso(v, w, r, d)
<1> DEFINE e == OtherName(d)
<1>1. IsVolume(v) /\ d # e /\ e.of = d.of
  BY OtherNameIsDigest DEF VolumeOK, OtherName, Digest
<1> HIDE DEF e
<1>2. w = CommitFinishedUpload(v, r, d, e, newly)
  BY DEF e
<1>3. /\ w.files = v.files
      /\ DOMAIN w.links = DOMAIN v.links \cup {<<r, d>>}
      /\ w.links[<<r, d>>] = "blob"
      /\ \A key \in DOMAIN v.links : key # <<r, d>> => w.links[key] = v.links[key]
      /\ DOMAIN w.aliases = DOMAIN v.aliases \cup {d, e}
      /\ w.aliases[d] = e /\ w.aliases[e] = d
      /\ \A x \in DOMAIN v.aliases : x \notin {d, e} => w.aliases[x] = v.aliases[x]
      /\ w.tags = v.tags
  BY <1>1, <1>2, CommitFinishedUploadCommits
<1>4. QED  BY <1>1, <1>3 DEF TagsServed, LinkedAlso

(* ... and a manifest as what it is. *)
LEMMA ManifestCommitServes ==
    ASSUME NEW v, VolumeOK(v), NEW T, TagsServed(v, T), NEW r \in Repos, NEW d \in Digests,
           NEW kind \in {"manifest", "index"}, NEW subjects \in SUBSET Digests, NEW newly,
           NEW w, w = ManifestCommit(v, r, d, kind, subjects, newly)
    PROVE  TagsServed(w, T) /\ w.tags = v.tags /\ LinkedAlso(v, w, r, d)
<1>1. IsVolume(v)
  BY DEF VolumeOK
<1>2. /\ w.files = v.files
      /\ DOMAIN w.links = DOMAIN v.links \cup {<<r, d>>}
      /\ w.links[<<r, d>>] = kind
      /\ \A key \in DOMAIN v.links : key # <<r, d>> => w.links[key] = v.links[key]
      /\ w.aliases = v.aliases /\ w.tags = v.tags
  BY <1>1, ManifestCommitCommits
<1>3. QED  BY <1>2 DEF TagsServed, LinkedAlso

(* What is unlinked must no longer be tagged, *)
LEMMA UnlinkServes ==
    ASSUME NEW v, VolumeOK(v), NEW T, TagsServed(v, T), NEW r, NEW d,
           \A key \in DOMAIN v.tags : r \in T /\ key[1] = r => v.tags[key] # d,
           NEW w, w = LinkRemove(v, r, d)
    PROVE  /\ TagsServed(w, T) /\ w.tags = v.tags
           /\ DOMAIN w.links = DOMAIN v.links \ {<<r, d>>}
<1>1. IsVolume(v)
  BY DEF VolumeOK
<1>2. /\ DOMAIN w.links = DOMAIN v.links \ {<<r, d>>}
      /\ \A key \in DOMAIN w.links : w.links[key] = v.links[key]
      /\ w.files = v.files /\ w.aliases = v.aliases /\ w.tags = v.tags
  BY <1>1, LinkRemoveUnlinks
<1>3. r \in T => \A key \in DOMAIN v.tags : <<key[1], v.tags[key]>> # <<r, d>>
  OBVIOUS
<1>4. QED  BY <1>2, <1>3 DEF TagsServed

(* and what is tagged must be linked. *)
LEMMA TagServes ==
    ASSUME NEW v, VolumeOK(v), NEW T, TagsServed(v, T), NEW r \in Repos, NEW t \in Tags,
           NEW d \in Digests, d.of \in Manifests, r \in T => Linked(v, r, d),
           NEW w, w = TagSet(v, r, t, d)
    PROVE  TagsServed(w, T)
<1>1. IsVolume(v)
  BY DEF VolumeOK
<1>2. /\ DOMAIN w.tags = DOMAIN v.tags \cup {<<r, t>>}
      /\ w.tags[<<r, t>>] = d
      /\ \A key \in DOMAIN v.tags : key # <<r, t>> => w.tags[key] = v.tags[key]
      /\ w.files = v.files /\ w.links = v.links /\ w.aliases = v.aliases
  BY <1>1, TagSetSets
<1>3. QED  BY <1>2 DEF TagsServed, Linked

(* It is a step that another request of the repository allows for. *)
LEMMA TagSetEffect ==
    ASSUME NEW a, IsPut(req[a].op), NEW v, VolumeOK(v), NEW t \in Tags,
           NEW w, w = TagSet(v, req[a].repo, t, req[a].digest)
    PROVE  Effect(a, v, w)
<1>1. ASSUME NEW r, NEW d, w = TagSet(v, r, t, d)
      PROVE  /\ \A key \in DOMAIN w.tags :
                   \/ key[1] = r /\ w.tags[key] = d
                   \/ key \in DOMAIN v.tags /\ w.tags[key] = v.tags[key]
             /\ w.links = v.links
  <2>1. IsVolume(v)
    BY DEF VolumeOK
  <2>2. /\ IsVolume(w)
        /\ DOMAIN w.tags = DOMAIN v.tags \cup {<<r, t>>}
        /\ w.tags[<<r, t>>] = d
        /\ \A key \in DOMAIN v.tags : key # <<r, t>> => w.tags[key] = v.tags[key]
        /\ w.files = v.files /\ w.objects = v.objects /\ w.links = v.links
        /\ w.aliases = v.aliases /\ w.referrers = v.referrers /\ w.repos = v.repos
    BY <1>1, <2>1, TagSetSets
  <2>3. QED  BY <2>2
<1>2. QED  BY <1>1 DEF Effect

LEMMA UntagServes ==
    ASSUME NEW v, VolumeOK(v), NEW T, TagsServed(v, T), NEW r, NEW t, NEW w, w = TagDelete(v, r, t)
    PROVE  /\ TagsServed(w, T) /\ w.links = v.links
           /\ DOMAIN w.tags = DOMAIN v.tags \ {<<r, t>>}
           /\ \A key \in DOMAIN w.tags : w.tags[key] = v.tags[key]
<1>1. IsVolume(v)
  BY DEF VolumeOK
<1>2. /\ DOMAIN w.tags = DOMAIN v.tags \ {<<r, t>>}
      /\ \A key \in DOMAIN w.tags : w.tags[key] = v.tags[key]
      /\ w.files = v.files /\ w.links = v.links /\ w.aliases = v.aliases
  BY <1>1, TagDeleteDeletes
<1>3. QED  BY <1>2 DEF TagsServed

(* A name that is linked, directly or through its alias, is on offer. *)
LEMMA LinkedIsOnOffer ==
    ASSUME NEW v, NEW T, TagsServed(v, T), NEW r, NEW d, RequireLink(v, r, d)
    PROVE  OnOffer(v, r, d.of)
<1>1. CASE <<r, d>> \in DOMAIN v.links
  BY <1>1 DEF OnOffer
<1>2. CASE <<r, d>> \notin DOMAIN v.links
  <2>1. PICK b \in AliasOf(v, d) : <<r, b>> \in DOMAIN v.links
    BY <1>2 DEF RequireLink, LinkOf
  <2>2. b.of = d.of
    BY DEF AliasOf, TagsServed
  <2>3. QED  BY <2>1, <2>2 DEF OnOffer
<1>3. QED  BY <1>1, <1>2

-----------------------------------------------------------------------------
(* Every step of a request keeps tags settled. *)

(* What a request goes by. *)
LEMMA Settled ==
    ASSUME Inductive, TagsSettled, NEW a \in Requests
    PROVE  /\ req[a] \in Local /\ InFlight(req[a], vol) /\ VolumeOK(vol)
           /\ TagsServed(vol, Tame) /\ Shaped(req[a])
           /\ req[a].repo \in Tame => Assured(req[a], vol)
BY DEF Inductive, TagsSettled, AllAssured

(* The three shapes of a step: it leaves the volume alone, it ends the      *)
(* request, or it only adds links.                                          *)
LEMMA SettledLook ==
    ASSUME Inductive, TagsSettled, UNCHANGED wild, NEW a \in Requests, UNCHANGED vol,
           NEW q, Set(a, q), q.repo = req[a].repo, q.op = req[a].op,
           q.digest.of = req[a].digest.of, Shaped(q), q.repo \in Tame => Assured(q, vol)
    PROVE  TagsSettled'
<1>1. Effect(a, vol, vol') /\ TagsServed(vol', Tame) /\ (q.repo \in Tame => Assured(q, vol'))
  BY DEF Effect, TagsSettled
<1>2. QED  BY <1>1, SettledMovesOn

LEMMA SettledEnd ==
    ASSUME Inductive, TagsSettled, UNCHANGED wild, NEW a \in Requests, End(a),
           TagsServed(vol', Tame), Effect(a, vol, vol')
    PROVE  TagsSettled'
<1>1. Shaped(Idle) /\ Assured(Idle, vol')
  BY IdleIsAssured
<1>2. QED  BY <1>1, SettledMovesOn DEF End

LEMMA SettledRefused ==
    ASSUME Inductive, TagsSettled, UNCHANGED wild, NEW a \in Requests, End(a), UNCHANGED vol
    PROVE  TagsSettled'
<1>1. TagsServed(vol', Tame) /\ Effect(a, vol, vol')
  BY DEF TagsSettled, Effect
<1>2. QED  BY <1>1, SettledEnd

LEMMA GrowingLinks ==
    ASSUME NEW a, NEW v, NEW w, w.tags = v.tags, DOMAIN v.links \subseteq DOMAIN w.links
    PROVE  /\ Effect(a, v, w)
           /\ \A r, c : OnOffer(v, r, c) => OnOffer(w, r, c)
BY DEF Effect, OnOffer

(* PUT: what was looked up stays on offer until the commit. *)
LEMMA CheckSettles ==
    ASSUME Inductive, TagsSettled, UNCHANGED wild, NEW a \in Requests, Check(a)
    PROVE  TagsSettled'
<1> DEFINE q == req[a]
<1>1. q \in Local /\ Shaped(q) /\ (q.repo \in Tame => Assured(q, vol)) /\ TagsServed(vol, Tame)
  BY Settled
<1>2. q.pc = "check" /\ UNCHANGED vol
  BY DEF Check, At
<1>3. CASE q.todo = {}
  <2> DEFINE x == [q EXCEPT !.pc = "store"]
  <2>1. Set(a, x)
    BY <1>3 DEF Check, Goto
  <2> HIDE DEF q
  <2>2. /\ x.pc = "store" /\ x.repo = q.repo /\ x.op = q.op /\ x.digest = q.digest
        /\ x.tag = q.tag /\ x.todo = q.todo
    BY <1>1 DEF Local
  <2>3. Shaped(x) /\ (x.repo \in Tame => Assured(x, vol))
    BY <1>1, <1>2, <1>3, <2>2 DEF Shaped, Assured, Storing
  <2>4. QED  BY <2>1, <2>2, <2>3, <1>2, SettledLook DEF q
<1>4. CASE q.todo # {}
  <2>1. PICK d \in q.todo : IF RequireLink(vol, q.repo, d)
                            THEN Set(a, [q EXCEPT !.todo = @ \ {d}])
                            ELSE End(a)
    BY <1>4 DEF Check
  <2>2. CASE RequireLink(vol, q.repo, d)
    <3> DEFINE x == [q EXCEPT !.todo = @ \ {d}]
    <3>1. OnOffer(vol, q.repo, d.of)
      BY <1>1, <2>2, LinkedIsOnOffer
    <3>2. Set(a, x)
      BY <2>1, <2>2
    <3> HIDE DEF q
    <3>3. /\ x.repo = q.repo /\ x.op = q.op /\ x.pc = q.pc /\ x.digest = q.digest
          /\ x.tag = q.tag /\ x.todo = q.todo \ {d}
      BY <1>1 DEF Local
    <3>4. Shaped(x)
      BY <1>1, <1>2, <3>3 DEF Shaped, Storing
    <3>5. x.repo \in Tame => Assured(x, vol)
      BY <1>1, <1>2, <3>1, <3>3 DEF Assured, Storing
    <3>6. QED  BY <3>2, <3>3, <3>4, <3>5, <1>2, SettledLook DEF q
  <2>3. CASE ~RequireLink(vol, q.repo, d)
    <3>1. End(a)
      BY <2>1, <2>3
    <3>2. QED  BY <3>1, <1>2, SettledRefused
  <2>4. QED  BY <2>2, <2>3
<1>5. QED  BY <1>3, <1>4

(* The steps between the checks and the commit leave links and tags alone. *)
LEMMA BetweenSettles ==
    ASSUME Inductive, TagsSettled, UNCHANGED wild, NEW a \in Requests,
           req[a].pc \in Storing \ {"check", "commit"},
           TagsServed(vol', Tame), vol'.links = vol.links, vol'.tags = vol.tags,
           NEW x, Set(a, x), x.pc \in Storing \ {"check"},
           x.repo = req[a].repo, x.op = req[a].op, x.tag = req[a].tag,
           x.digest = req[a].digest, x.todo = req[a].todo
    PROVE  TagsSettled'
<1> DEFINE q == req[a]
<1>1. Shaped(q) /\ (q.repo \in Tame => Assured(q, vol))
  BY Settled
<1>2. Effect(a, vol, vol') /\ \A r, c : OnOffer(vol, r, c) => OnOffer(vol', r, c)
  BY GrowingLinks
<1> HIDE DEF q
<1>3. Shaped(x)
  BY <1>1 DEF Shaped, Storing, q
<1>4. x.repo \in Tame => Assured(x, vol')
  BY <1>1, <1>2 DEF Assured, Storing, q
<1>5. QED  BY <1>2, <1>3, <1>4, SettledMovesOn DEF q

(* They move only the step, and note whether the bytes are new. *)
LEMMA PutSettles ==
    ASSUME Inductive, TagsSettled, UNCHANGED wild, NEW a \in Requests,
           \/ Store(a) \/ Place(a) \/ Create(a) \/ Write(a) \/ Rename(a)
           \/ HardLink(a) \/ Alias(a)
    PROVE  TagsSettled'
<1> DEFINE q == req[a]
<1>1. q \in Local /\ InFlight(q, vol) /\ TagsServed(vol, Tame) /\ VolumeOK(vol) /\ IsVolume(vol)
  BY Settled DEF VolumeOK
<1>2. ASSUME NEW pc \in Storing \ {"check"}, NEW newly,
             Set(a, [q EXCEPT !.newly = newly, !.pc = pc]),
             vol'.links = vol.links, vol'.tags = vol.tags, TagsServed(vol', Tame),
             q.pc \in Storing \ {"check", "commit"}
      PROVE  TagsSettled'
  <2> DEFINE x == [q EXCEPT !.newly = newly, !.pc = pc]
  <2> HIDE DEF q
  <2>1. /\ x.pc = pc /\ x.repo = q.repo /\ x.op = q.op /\ x.tag = q.tag
        /\ x.digest = q.digest /\ x.todo = q.todo
    BY <1>1 DEF Local
  <2>2. QED  BY <1>2, <2>1, BetweenSettles DEF q
<1>3. ASSUME NEW pc \in Storing \ {"check"}, Goto(a, pc),
             vol'.links = vol.links, vol'.tags = vol.tags, TagsServed(vol', Tame),
             q.pc \in Storing \ {"check", "commit"}
      PROVE  TagsSettled'
  <2> DEFINE x == [q EXCEPT !.pc = pc]
  <2>1. Set(a, x)
    BY <1>3 DEF Goto
  <2> HIDE DEF q
  <2>2. /\ x.pc = pc /\ x.repo = q.repo /\ x.op = q.op /\ x.tag = q.tag
        /\ x.digest = q.digest /\ x.todo = q.todo
    BY <1>1 DEF Local
  <2>3. QED  BY <1>3, <2>1, <2>2, BetweenSettles DEF q
<1>4. Stored(q) \in Storing \ {"check"}
  BY DEF Stored, Storing
<1>5. ASSUME vol'.links = vol.links, vol'.tags = vol.tags, vol'.aliases = vol.aliases
      PROVE  TagsServed(vol', Tame)
  BY <1>1, <1>5, FilesServe
<1>6. CASE Store(a)
  <2> DEFINE new == NewlyStored(vol, q.digest)
             pc == IF ~new THEN Stored(q) ELSE IF q.op = "push" THEN "place" ELSE "create"
  <2>1. pc \in Storing \ {"check"} /\ q.pc \in Storing \ {"check", "commit"}
    BY <1>4, <1>6 DEF Store, At, Storing
  <2>2. Set(a, [q EXCEPT !.newly = new, !.pc = pc]) /\ UNCHANGED vol
    BY <1>6 DEF Store
  <2> HIDE DEF new, pc
  <2>3. QED  BY <1>2, <1>5, <2>1, <2>2
<1>7. CASE Place(a)
  <2>1. vol' = PutFile(vol, q.digest, q.digest.of) /\ Goto(a, Stored(q))
        /\ q.pc \in Storing \ {"check", "commit"}
    BY <1>7 DEF Place, At, Storing
  <2>2. vol'.links = vol.links /\ vol'.tags = vol.tags /\ vol'.aliases = vol.aliases
    BY <1>1, <2>1, PutFilePuts
  <2>3. QED  BY <1>3, <1>4, <1>5, <2>1, <2>2
<1>8. CASE Create(a)
  <2>1. UNCHANGED vol /\ Goto(a, "write") /\ q.pc \in Storing \ {"check", "commit"}
        /\ "write" \in Storing \ {"check"}
    BY <1>8 DEF Create, At, Storing
  <2>2. QED  BY <1>3, <1>5, <2>1
<1>9. CASE Write(a)
  <2>1. vol' = WriteFile(vol, open[a].at, q.digest.of) /\ Goto(a, "rename")
        /\ q.pc \in Storing \ {"check", "commit"} /\ "rename" \in Storing \ {"check"}
    BY <1>9 DEF Write, At, Storing
  <2>2. vol'.links = vol.links /\ vol'.tags = vol.tags /\ vol'.aliases = vol.aliases
    BY <1>1, <2>1, WriteFileWrites
  <2>3. QED  BY <1>3, <1>5, <2>1, <2>2
<1>10. CASE Rename(a)
  <2>1. CASE q.digest \in DOMAIN tmp
    <3>1. vol' = PutFile(vol, q.digest, tmp[q.digest]) /\ Goto(a, Stored(q))
          /\ q.pc \in Storing \ {"check", "commit"}
      BY <1>10, <2>1 DEF Rename, At, Storing
    <3>2. vol'.links = vol.links /\ vol'.tags = vol.tags /\ vol'.aliases = vol.aliases
      BY <1>1, <3>1, PutFilePuts
    <3>3. QED  BY <1>3, <1>4, <1>5, <3>1, <3>2
  <2>2. CASE q.digest \notin DOMAIN tmp
    BY <1>10, <2>2, SettledRefused DEF Rename
  <2>3. QED  BY <2>1, <2>2
<1>11. CASE HardLink(a)
  <2> DEFINE pc == IF q.op = "push" THEN "commit" ELSE "alias"
  <2>1. vol' = StoreFile(vol, Digest("sha256", q.digest.of), vol.files[q.digest])
        /\ Goto(a, pc) /\ q.pc \in Storing \ {"check", "commit"} /\ pc \in Storing \ {"check"}
    BY <1>11 DEF HardLink, HardLinkSha256, At, Storing
  <2>2. vol'.links = vol.links /\ vol'.tags = vol.tags /\ vol'.aliases = vol.aliases
    BY <1>1, <2>1, StoreFileStores
  <2> HIDE DEF pc
  <2>3. QED  BY <1>3, <1>5, <2>1, <2>2
<1>12. CASE Alias(a)
  <2>1. q.digest \in Digests
    BY <1>1, <1>12 DEF Alias, At, InFlight
  <2>2. TagsServed(vol', Tame) /\ vol'.links = vol.links /\ vol'.tags = vol.tags
    BY <1>1, <1>12, <2>1, AliasServes DEF Alias
  <2>3. Goto(a, "commit") /\ q.pc \in Storing \ {"check", "commit"}
        /\ "commit" \in Storing \ {"check"}
    BY <1>12 DEF Alias, At, Storing
  <2>4. QED  BY <1>3, <2>2, <2>3
<1>13. QED  BY <1>6, <1>7, <1>8, <1>9, <1>10, <1>11, <1>12

(* A push, and a mount, in a tame repository is of something other than a   *)
(* manifest.                                                                *)
LEMMA CommitServes ==
    ASSUME Inductive, TagsSettled, NEW a \in Requests, Commit(a)
    PROVE  /\ TagsServed(vol', Tame) /\ vol'.tags = vol.tags
           /\ LinkedAlso(vol, vol', req[a].repo, req[a].digest)
<1> DEFINE q == req[a]
           d == q.digest
<1>1. q \in Local /\ Shaped(q) /\ TagsServed(vol, Tame) /\ VolumeOK(vol)
  BY Settled
<1>2. q.pc = "commit" /\ d \in Digests /\ q.repo \in Repos
  BY DEF Commit, At, Inductive, InFlight
<1>3. /\ q.op = "push" /\ q.repo \in Tame => d.of \notin Manifests
      /\ q.op # "push" => d.of \in Manifests
  BY <1>1, <1>2, TameIsQuiet DEF Shaped, Storing, Crosses
<1>4. CASE q.op = "push"
  <2>1. vol' = CommitFinishedUpload(vol, q.repo, d, OtherName(d), q.newly)
    BY <1>4 DEF Commit
  <2>2. QED  BY <1>1, <1>2, <1>3, <1>4, <2>1, PushCommitServes
<1>5. CASE q.op # "push"
  <2>1. vol' = ManifestCommit(vol, q.repo, d, Kind[d.of], Subject[d.of], q.newly)
    BY <1>5 DEF Commit
  <2>2. Kind[d.of] \in {"manifest", "index"} /\ Subject[d.of] \in SUBSET Digests
    BY <1>3, <1>5, RegistryAssumption
  <2>3. QED  BY <1>1, <1>2, <2>1, <2>2, ManifestCommitServes
<1>6. QED  BY <1>4, <1>5

LEMMA CommitSettles ==
    ASSUME Inductive, TagsSettled, UNCHANGED wild, NEW a \in Requests, Commit(a)
    PROVE  TagsSettled'
<1> DEFINE q == req[a]
           d == q.digest
           x == [q EXCEPT !.pc = "tag"]
<1>1. q \in Local /\ Shaped(q) /\ q.pc = "commit"
  BY Settled DEF Commit, At
<1>2. TagsServed(vol', Tame) /\ vol'.tags = vol.tags /\ LinkedAlso(vol, vol', q.repo, d)
  BY CommitServes
<1>3. Effect(a, vol, vol')
  BY <1>2, GrowingLinks DEF LinkedAlso
<1>4. CASE q.tag = {}
  <2>1. End(a)
    BY <1>4 DEF Commit
  <2>2. QED  BY <2>1, <1>2, <1>3, SettledEnd
<1>5. CASE q.tag # {}
  <2>1. Set(a, x)
    BY <1>5 DEF Commit, Goto
  <2> HIDE DEF q
  <2>2. x.pc = "tag" /\ x.repo = q.repo /\ x.op = q.op /\ x.digest = d
    BY <1>1 DEF Local
  <2>3. Shaped(x)
    BY <1>1, <1>5, <2>2 DEF Shaped, Storing
  <2>4. Assured(x, vol')
    BY <1>2, <2>2 DEF Assured, LinkedAlso, Storing
  <2>5. QED  BY <2>1, <2>2, <2>3, <2>4, <1>2, <1>3, SettledMovesOn DEF q
<1>6. QED  BY <1>4, <1>5

LEMMA SetTagSettles ==
    ASSUME Inductive, TagsSettled, UNCHANGED wild, NEW a \in Requests, SetTag(a)
    PROVE  TagsSettled'
<1> DEFINE q == req[a]
<1>1. Shaped(q) /\ (q.repo \in Tame => Assured(q, vol)) /\ TagsServed(vol, Tame) /\ VolumeOK(vol)
  BY Settled
<1>2. /\ q.digest.of \in Manifests /\ IsPut(q.op)
      /\ q.repo \in Tame => Linked(vol, q.repo, q.digest)
  BY <1>1 DEF SetTag, At, Assured, Shaped, Linked
<1>3. PICK t \in q.tag : vol' = TagSet(vol, q.repo, t, q.digest)
  BY DEF SetTag
<1>4. t \in Tags /\ q.repo \in Repos /\ q.digest \in Digests
  BY DEF SetTag, At, Inductive, InFlight, Local
<1>5. TagsServed(vol', Tame)
  BY <1>1, <1>2, <1>3, <1>4, TagServes
<1>6. Effect(a, vol, vol')
  BY <1>1, <1>2, <1>3, <1>4, TagSetEffect
<1>7. End(a)
  BY DEF SetTag
<1>8. QED  BY <1>5, <1>6, <1>7, SettledEnd

(* Mount and delete. *)
LEMMA StatSettles ==
    ASSUME Inductive, TagsSettled, UNCHANGED wild, NEW a \in Requests, Stat(a)
    PROVE  TagsSettled'
<1> DEFINE q == req[a]
           d == q.digest
<1>1. q \in Local /\ Shaped(q) /\ TagsServed(vol, Tame)
  BY Settled
<1>2. UNCHANGED vol /\ q.pc = "stat"
  BY DEF Stat, At
<1>3. /\ q.op \in {"mount", "delete_blob"}
      /\ q.repo \in Tame => d.of \notin Manifests
  BY <1>1, <1>2, TameIsQuiet DEF Shaped, Crosses
<1>4. CASE ~RequireLink(vol, q.from, d) \/ ResolveStored(vol, d) = {}
  <2>1. End(a)
    BY <1>4 DEF Stat
  <2>2. QED  BY <2>1, <1>2, SettledRefused
<1>5. CASE ~(~RequireLink(vol, q.from, d) \/ ResolveStored(vol, d) = {})
  <2>1. PICK stored \in ResolveStored(vol, d) :
           IF q.op = "mount"
           THEN Set(a, [q EXCEPT !.pc = "link", !.digest = stored])
           ELSE Set(a, [q EXCEPT !.pc = "unlink",
                          !.unlink = IF stored = d THEN <<d>> ELSE <<stored, d>>])
    BY <1>5 DEF Stat
  <2>2. stored.of = d.of
    BY <1>1 DEF ResolveStored, AliasOf, TagsServed
  <2>3. CASE q.op = "mount"
    <3> DEFINE x == [q EXCEPT !.pc = "link", !.digest = stored]
    <3>1. Set(a, x)
      BY <2>1, <2>3
    <3> HIDE DEF q
    <3>2. x.pc = "link" /\ x.digest = stored /\ x.repo = q.repo /\ x.op = q.op
      BY <1>1 DEF Local
    <3>3. Shaped(x) /\ Assured(x, vol)
      BY <3>2, <2>3 DEF Shaped, Assured, Storing
    <3>4. QED  BY <1>2, <2>2, <3>1, <3>2, <3>3, SettledLook DEF q
  <2>4. CASE q.op # "mount"
    <3> DEFINE names == IF stored = d THEN <<d>> ELSE <<stored, d>>
               x == [q EXCEPT !.pc = "unlink", !.unlink = names]
    <3>1. Set(a, x)
      BY <2>1, <2>4
    <3>2. \A y \in InSeq(names) : y.of = d.of
      BY <2>2 DEF InSeq
    <3> HIDE DEF q, names
    <3>3. x.pc = "unlink" /\ x.unlink = names /\ x.repo = q.repo /\ x.op = q.op
          /\ x.digest = q.digest
      BY <1>1 DEF Local
    <3>4. q.repo \in Tame => OnlyAt(vol, q.repo, InSeq(names), {})
      BY <1>1, <1>3, <3>2 DEF OnlyAt, TagsServed
    <3>5. Shaped(x)
      BY <1>3, <2>4, <3>2, <3>3 DEF Shaped, IsDelete, Storing
    <3>6. x.repo \in Tame => Assured(x, vol)
      BY <3>3, <3>4 DEF Assured, Storing
    <3>7. QED  BY <1>2, <3>1, <3>3, <3>5, <3>6, SettledLook DEF q
  <2>5. QED  BY <2>3, <2>4
<1>6. QED  BY <1>4, <1>5

LEMMA MountServes ==
    ASSUME Inductive, TagsSettled, NEW a \in Requests, Link(a)
    PROVE  /\ TagsServed(vol', Tame) /\ vol'.tags = vol.tags
           /\ LinkedAlso(vol, vol', req[a].repo, req[a].digest)
           /\ req[a].repo \in Tame => req[a].digest.of \notin Manifests
<1> DEFINE q == req[a]
<1>1. Shaped(q) /\ TagsServed(vol, Tame) /\ VolumeOK(vol)
  BY Settled
<1>2. q.repo \in Tame => q.digest.of \notin Manifests
  BY <1>1, TameIsQuiet DEF Link, At, Shaped, Crosses
<1>3. vol' = LinkAdd(vol, q.repo, q.digest, "blob")
  BY DEF Link
<1>4. QED  BY <1>1, <1>2, <1>3, LinkServes

LEMMA LinkSettles ==
    ASSUME Inductive, TagsSettled, UNCHANGED wild, NEW a \in Requests, Link(a)
    PROVE  TagsSettled'
<1>1. End(a)
  BY DEF Link
<1>2. TagsServed(vol', Tame) /\ vol'.tags = vol.tags
      /\ LinkedAlso(vol, vol', req[a].repo, req[a].digest)
  BY MountServes
<1>3. Effect(a, vol, vol')
  BY <1>2, GrowingLinks DEF LinkedAlso
<1>4. QED  BY <1>1, <1>2, <1>3, SettledEnd

LEMMA LookupSettles ==
    ASSUME Inductive, TagsSettled, UNCHANGED wild, NEW a \in Requests, Lookup(a)
    PROVE  TagsSettled'
<1> DEFINE q == req[a]
           d == q.digest
           names == IF AliasOf(vol, d) = {} THEN <<d>> ELSE <<d, vol.aliases[d]>>
           x == [q EXCEPT !.pc = "list", !.unlink = names]
<1>1. q \in Local /\ Shaped(q) /\ TagsServed(vol, Tame)
  BY Settled
<1>2. UNCHANGED vol /\ q.pc = "lookup" /\ q.op = "delete_manifest"
  BY <1>1 DEF Lookup, At, Shaped
<1>3. CASE ~LinkedAsManifest(vol, q.repo, d)
  <2>1. End(a)
    BY <1>3 DEF Lookup
  <2>2. QED  BY <2>1, <1>2, SettledRefused
<1>4. CASE LinkedAsManifest(vol, q.repo, d)
  <2>1. Set(a, x)
    BY <1>4 DEF Lookup
  <2>2. \A y \in InSeq(names) : y.of = d.of
    <3>1. AliasOf(vol, d) # {} => vol.aliases[d].of = d.of
      BY <1>1 DEF AliasOf, TagsServed
    <3>2. QED  BY <3>1 DEF InSeq
  <2> HIDE DEF q, names
  <2>3. x.pc = "list" /\ x.repo = q.repo /\ x.op = q.op /\ x.unlink = names /\ x.digest = d
    BY <1>1 DEF Local
  <2>4. Shaped(x) /\ Assured(x, vol)
    BY <1>2, <2>2, <2>3 DEF Shaped, Assured, Storing
  <2>5. QED  BY <1>2, <2>1, <2>3, <2>4, SettledLook DEF q
<1>5. QED  BY <1>3, <1>4

(* The tags at the names to be unlinked are listed in one look, and none    *)
(* is added after it while the repository is tame.                          *)
LEMMA ListTagsSettles ==
    ASSUME Inductive, TagsSettled, UNCHANGED wild, NEW a \in Requests, ListTags(a)
    PROVE  TagsSettled'
<1> DEFINE q == req[a]
           found == TagsAt(vol, q.repo, InSeq(q.unlink))
           x == [q EXCEPT !.pc = "untag", !.todo = found]
<1>1. q \in Local /\ Shaped(q) /\ TypedVolume(vol)
  BY Settled DEF VolumeOK
<1>2. UNCHANGED vol /\ q.pc = "list" /\ Set(a, x)
  BY DEF ListTags, At
<1>3. OnlyAt(vol, q.repo, InSeq(q.unlink), found)
  <2> SUFFICES ASSUME NEW key \in DOMAIN vol.tags, key[1] = q.repo,
                      vol.tags[key] \in InSeq(q.unlink)
               PROVE  key[2] \in found
    BY DEF OnlyAt
  <2>1. key = <<q.repo, key[2]>> /\ key[2] \in Tags
    BY <1>1 DEF TypedVolume
  <2>2. QED  BY <2>1 DEF TagsAt
<1> HIDE DEF q, found
<1>4. /\ x.pc = "untag" /\ x.repo = q.repo /\ x.op = q.op /\ x.digest = q.digest
      /\ x.unlink = q.unlink /\ x.todo = found
  BY <1>1 DEF Local
<1>5. Shaped(x)
  BY <1>1, <1>2, <1>4 DEF Shaped, Storing
<1>6. Assured(x, vol)
  BY <1>3, <1>4 DEF Assured, Storing
<1>7. QED  BY <1>2, <1>4, <1>5, <1>6, SettledLook DEF q

LEMMA UntagSettles ==
    ASSUME Inductive, TagsSettled, UNCHANGED wild, NEW a \in Requests, Untag(a)
    PROVE  TagsSettled'
<1> DEFINE q == req[a]
<1>1. q \in Local /\ Shaped(q) /\ (q.repo \in Tame => Assured(q, vol)) /\ VolumeOK(vol)
      /\ TagsServed(vol, Tame)
  BY Settled
<1>2. PICK t \in q.todo : /\ vol' = TagDelete(vol, q.repo, t)
                          /\ Set(a, [q EXCEPT !.todo = @ \ {t}])
  BY DEF Untag
<1> DEFINE x == [q EXCEPT !.todo = @ \ {t}]
<1>3. q.pc = "untag"
  BY DEF Untag, At
<1>4. ASSUME NEW r, NEW w, w = TagDelete(vol, r, t)
      PROVE  /\ TagsServed(w, Tame)
             /\ w.links = vol.links
             /\ \A key \in DOMAIN w.tags :
                   key \in DOMAIN vol.tags /\ w.tags[key] = vol.tags[key]
             /\ \A names, spared :
                   OnlyAt(vol, r, names, spared) => OnlyAt(w, r, names, spared \ {t})
  <2>1. /\ TagsServed(w, Tame) /\ w.links = vol.links
        /\ DOMAIN w.tags = DOMAIN vol.tags \ {<<r, t>>}
        /\ \A key \in DOMAIN w.tags : w.tags[key] = vol.tags[key]
    BY <1>1, <1>4, UntagServes
  <2>2. \A key \in DOMAIN w.tags : key = <<key[1], key[2]>>
    BY <2>1, <1>1 DEF VolumeOK, TypedVolume
  <2>3. ASSUME NEW names, NEW spared, OnlyAt(vol, r, names, spared)
        PROVE  OnlyAt(w, r, names, spared \ {t})
    <3> SUFFICES ASSUME NEW key \in DOMAIN w.tags, key[1] = r, w.tags[key] \in names
                 PROVE  key[2] \in spared \ {t}
      BY DEF OnlyAt
    <3>1. key[2] \in spared
      BY <2>1, <2>3 DEF OnlyAt
    <3>2. key[2] # t
      BY <2>1, <2>2
    <3>3. QED  BY <3>1, <3>2
  <2>4. QED  BY <2>1, <2>3
<1>5. Effect(a, vol, vol') /\ TagsServed(vol', Tame)
  BY <1>2, <1>4 DEF Effect
<1> HIDE DEF q
<1>6. /\ x.pc = "untag" /\ x.repo = q.repo /\ x.op = q.op /\ x.digest = q.digest
      /\ x.unlink = q.unlink /\ x.todo = q.todo \ {t}
  BY <1>1, <1>3 DEF Local
<1>7. Shaped(x)
  BY <1>1, <1>3, <1>6 DEF Shaped, Storing
<1>8. x.repo \in Tame => Assured(x, vol')
  <2> SUFFICES ASSUME q.repo \in Tame, q.op = "delete_manifest"
               PROVE  OnlyAt(vol', q.repo, InSeq(q.unlink), q.todo \ {t})
    BY <1>6 DEF Assured, Storing
  <2>1. OnlyAt(vol, q.repo, InSeq(q.unlink), q.todo)
    BY <1>1, <1>3 DEF Assured
  <2>2. QED  BY <2>1, <1>2, <1>4
<1>9. QED  BY <1>2, <1>5, <1>6, <1>7, <1>8, SettledMovesOn DEF q

LEMMA UntaggedSettles ==
    ASSUME Inductive, TagsSettled, UNCHANGED wild, NEW a \in Requests, Untagged(a)
    PROVE  TagsSettled'
<1> DEFINE q == req[a]
           x == [q EXCEPT !.pc = "unlink"]
<1>1. q \in Local /\ Shaped(q) /\ (q.repo \in Tame => Assured(q, vol))
  BY Settled
<1>2. UNCHANGED vol /\ q.pc = "untag" /\ q.todo = {}
  BY DEF Untagged, At
<1>3. CASE q.op = "delete_tag"
  <2>1. End(a)
    BY <1>3 DEF Untagged
  <2>2. QED  BY <2>1, <1>2, SettledRefused
<1>4. CASE q.op # "delete_tag"
  <2>1. Set(a, x)
    BY <1>4 DEF Untagged, Goto
  <2> HIDE DEF q
  <2>2. /\ x.pc = "unlink" /\ x.repo = q.repo /\ x.op = q.op /\ x.unlink = q.unlink
        /\ x.digest = q.digest
    BY <1>1 DEF Local
  <2>3. Shaped(x)
    BY <1>1, <1>2, <1>4, <2>2 DEF Shaped, IsDelete, Storing
  <2>4. x.repo \in Tame => Assured(x, vol)
    BY <1>1, <1>2, <1>4, <2>2 DEF Assured, Shaped, Storing
  <2>5. QED  BY <1>2, <2>1, <2>2, <2>3, <2>4, SettledLook DEF q
<1>5. QED  BY <1>3, <1>4

LEMMA ResolveTagSettles ==
    ASSUME Inductive, TagsSettled, UNCHANGED wild, NEW a \in Requests, ResolveTag(a)
    PROVE  TagsSettled'
<1> DEFINE q == req[a]
           x == [q EXCEPT !.pc = "untag", !.todo = q.tag]
<1>1. q \in Local /\ Shaped(q)
  BY Settled
<1>2. UNCHANGED vol /\ q.pc = "resolve" /\ q.op = "delete_tag"
  BY <1>1 DEF ResolveTag, At, Shaped
<1>3. CASE ~\E t \in q.tag : <<q.repo, t>> \in DOMAIN vol.tags
  <2>1. End(a)
    BY <1>3 DEF ResolveTag
  <2>2. QED  BY <2>1, <1>2, SettledRefused
<1>4. CASE \E t \in q.tag : <<q.repo, t>> \in DOMAIN vol.tags
  <2>1. Set(a, x)
    BY <1>4 DEF ResolveTag
  <2> HIDE DEF q
  <2>2. x.pc = "untag" /\ x.repo = q.repo /\ x.op = q.op /\ x.digest = q.digest
    BY <1>1 DEF Local
  <2>3. Shaped(x) /\ Assured(x, vol)
    BY <1>2, <2>2 DEF Shaped, Assured, Storing
  <2>4. QED  BY <1>2, <2>1, <2>2, <2>3, SettledLook DEF q
<1>5. QED  BY <1>3, <1>4

LEMMA UnlinkSettles ==
    ASSUME Inductive, TagsSettled, UNCHANGED wild, NEW a \in Requests, Unlink(a)
    PROVE  TagsSettled'
<1> DEFINE q == req[a]
           left == q.unlink
           x == [q EXCEPT !.unlink = Tail(left)]
<1>1. q \in Local /\ Shaped(q) /\ (q.repo \in Tame => Assured(q, vol)) /\ VolumeOK(vol)
      /\ TagsServed(vol, Tame)
  BY Settled
<1>2. q.pc = "unlink" /\ left \in Seq(Digests) /\ left # <<>>
  BY DEF Unlink, At, Inductive, InFlight, Local
<1>3. /\ IsDelete(q.op) /\ (q.repo \in Tame => OnlyAt(vol, q.repo, InSeq(left), {}))
      /\ \A y \in InSeq(left) : y.of = q.digest.of
  BY <1>1, <1>2 DEF Assured, Shaped
<1>4. vol' = LinkRemove(vol, q.repo, Head(left))
  BY DEF Unlink
<1>5. IF Len(left) = 1 THEN End(a) ELSE Set(a, x)
  BY DEF Unlink
<1> HIDE DEF left
<1>6. Len(left) \in Nat /\ Len(left) >= 1
  BY <1>2, EmptySeq
<1>7. Head(left) \in InSeq(left)
  BY <1>2, <1>6 DEF InSeq
<1>8. Len(left) # 1 => InSeq(Tail(left)) \subseteq InSeq(left)
  <2>1. \A i \in 1 .. Len(Tail(left)) : i + 1 \in 1 .. Len(left) /\ Tail(left)[i] = left[i + 1]
    BY <1>2, <1>6, HeadTailProperties
  <2>2. QED  BY <2>1 DEF InSeq
<1>9. \A key \in DOMAIN vol.tags : q.repo \in Tame /\ key[1] = q.repo => vol.tags[key] # Head(left)
  BY <1>3, <1>7 DEF OnlyAt
<1>10. /\ TagsServed(vol', Tame) /\ vol'.tags = vol.tags
       /\ DOMAIN vol'.links = DOMAIN vol.links \ {<<q.repo, Head(left)>>}
  <2>1. ASSUME NEW r, NEW d,
               \A key \in DOMAIN vol.tags : r \in Tame /\ key[1] = r => vol.tags[key] # d,
               NEW w, w = LinkRemove(vol, r, d)
        PROVE  /\ TagsServed(w, Tame) /\ w.tags = vol.tags
               /\ DOMAIN w.links = DOMAIN vol.links \ {<<r, d>>}
    BY <1>1, <2>1, UnlinkServes
  <2>2. QED  BY <1>4, <1>9, <2>1
<1>11. Effect(a, vol, vol')
  <2>1. Head(left).of = q.digest.of
    BY <1>3, <1>7
  <2>2. \A key \in DOMAIN vol.links : key = <<key[1], key[2]>>
    BY <1>1 DEF VolumeOK, TypedVolume
  <2>3. QED  BY <1>3, <1>10, <2>1, <2>2 DEF Effect
<1>12. CASE Len(left) = 1
  BY <1>5, <1>10, <1>11, <1>12, SettledEnd
<1>13. CASE Len(left) # 1
  <2>1. Set(a, x)
    BY <1>5, <1>13
  <2>2. q.repo \in Tame => OnlyAt(vol', q.repo, InSeq(Tail(left)), {})
    BY <1>3, <1>8, <1>10, <1>13 DEF OnlyAt
  <2> HIDE DEF q
  <2>3. /\ x.pc = "unlink" /\ x.repo = q.repo /\ x.op = q.op /\ x.unlink = Tail(left)
        /\ x.digest = q.digest
    BY <1>1, <1>2 DEF Local
  <2>4. Shaped(x)
    BY <1>3, <1>8, <1>13, <2>3 DEF Shaped, Storing
  <2>5. x.repo \in Tame => Assured(x, vol')
    BY <2>2, <2>3 DEF Assured, Storing
  <2>6. QED  BY <1>10, <1>11, <2>1, <2>3, <2>4, <2>5, SettledMovesOn DEF q
<1>14. QED  BY <1>12, <1>13

(* Only arrivals can make a repository run wild. *)
LEMMA ServeIsStill == \A a : Serve(a) => Still
BY DEF Serve, Keep, Check, Store, Place, Create, Write, Rename, HardLink, Alias, Commit,
       SetTag, Stat, Link, Lookup, ListTags, Untag, Untagged, Unlink, ResolveTag

(* A kill forgets the requests and what they were assured of with them. *)
LEMMA StepSettles ==
    ASSUME Inductive, TagsSettled, [Next]_vars
    PROVE  TagsSettled'
<1>1. CASE Arrival
  BY <1>1, ArrivalSettles
<1>2. ASSUME NEW a \in Requests, Serve(a) PROVE TagsSettled'
  <2>1. UNCHANGED wild
    BY <1>2, ServeIsStill DEF Still
  <2>2. QED
    BY <1>2, <2>1, CheckSettles, PutSettles, CommitSettles, SetTagSettles, StatSettles,
       LinkSettles, LookupSettles, ListTagsSettles, UntagSettles, UntaggedSettles,
       UnlinkSettles, ResolveTagSettles DEF Serve
<1>3. CASE Kill
  <2>1. vol' = vol /\ wild' = wild /\ \A a \in Requests : req'[a] = Idle
    BY <1>3 DEF Kill
  <2>2. Disturbed(req') = {}
    BY <2>1, IdleIsTame
  <2>3. QED  BY <2>1, <2>2, IdleIsAssured DEF TagsSettled, AllAssured, Tame
<1>4. CASE Restart \/ UNCHANGED vars
  <2>1. UNCHANGED <<vol, req, wild>>
    BY <1>4 DEF Restart, vars
  <2>2. QED  BY <2>1 DEF TagsSettled, AllAssured, Tame, Disturbed
<1>5. QED  BY <1>1, <1>2, <1>3, <1>4 DEF Next

LEMMA AlwaysSettled == Spec => []TagsSettled
<1>1. Inductive /\ FilesOK /\ TagsSettled /\ [Next]_vars => TagsSettled'
  BY StepSettles
<1>2. QED  BY <1>1, SettledInitially, AlwaysInductive, PTL DEF Spec

(* A tag of a tame repository is at a linked manifest, which is served if   *)
(* its file is whole.                                                       *)
LEMMA TaggedIsServed ==
    ASSUME NEW v, VolumeOK(v), NEW T, TagsServed(v, T),
           NEW key \in DOMAIN v.tags, key[1] \in T
    PROVE  LET d == v.tags[key] IN
           /\ d \in DOMAIN v.files /\ LinkedAsManifest(v, key[1], d)
           /\ v.files[d] = d.of => Served(v, key[1], d)
<1> DEFINE r == key[1]
           d == v.tags[key]
<1>1. d.of \in Manifests /\ <<r, d>> \in DOMAIN v.links
  BY DEF TagsServed
<1>2. v.links[<<r, d>>] # "blob"
  BY <1>1 DEF TagsServed
<1>3. d \in DOMAIN v.files
  BY <1>1 DEF VolumeOK
<1> HIDE DEF r, d
<1>4. LinkOf(v, r, d) = {v.links[<<r, d>>]} /\ ResolveStored(v, d) = {d}
  BY <1>1, <1>3 DEF LinkOf, ResolveStored
<1>5. LinkedAsManifest(v, r, d) /\ (v.files[d] = d.of => Served(v, r, d))
  BY <1>2, <1>3, <1>4 DEF Served, LinkedAsManifest, Readable, RequireLink
<1>6. QED  BY <1>3, <1>5 DEF r, d

(* Whatever interleaves and wherever the server is killed, every tag points *)
(* at a linked manifest that is served, until a PUT and a delete by digest  *)
(* of related content meet in its repository, or the routes for blobs are   *)
(* used on a manifest there (manifest_put tags last, manifest_delete untags *)
(* first); and it is served but for a second PUT of the same bytes that     *)
(* cuts the shared `.tmp` file short.                                       *)
THEOREM RegistryTagsServed == Spec => []TagIsServed
<1>1. Inductive /\ FilesOK /\ TagsSettled => TagIsServed
  <2> SUFFICES ASSUME Inductive, FilesOK, TagsSettled, NEW key \in DOMAIN vol.tags,
                      key[1] \notin wild
               PROVE  LET d == vol.tags[key] IN
                      /\ LinkedAsManifest(vol, key[1], d)
                      /\ d.of \in torn \/ Mending(d) \/ Served(vol, key[1], d)
    BY DEF TagIsServed
  <2>1. key[1] \in Tame
    BY DEF Inductive, VolumeOK, TypedVolume, Tame
  <2>2. VolumeOK(vol) /\ TagsServed(vol, Tame)
    BY DEF Inductive, TagsSettled
  <2>3. /\ vol.tags[key] \in DOMAIN vol.files
        /\ LinkedAsManifest(vol, key[1], vol.tags[key])
        /\ vol.files[vol.tags[key]] = vol.tags[key].of => Served(vol, key[1], vol.tags[key])
    BY <2>1, <2>2, TaggedIsServed
  <2>4. QED  BY <2>3 DEF FilesOK, WholeFiles
<1>2. QED  BY <1>1, AlwaysInductive, AlwaysSettled, PTL

-----------------------------------------------------------------------------
(* The refinement of RegistryPromise: each step of a request is one step of *)
(* the promise or changes nothing that it speaks of.                        *)

Offered(v) == {<<key[1], key[2].of>> : key \in DOMAIN v.links}
Pointed(v) == [key \in DOMAIN v.tags |-> v.tags[key].of]

(* What the commit of content c must find on offer. *)
NeededOf(c) == {d.of : d \in Named(Digest("sha256", c))}

LEMMA OfferedIsOnOffer == \A v, r, c : OnOffer(v, r, c) <=> <<r, c>> \in Offered(v)
BY DEF OnOffer, Offered

(* Links and tags change in repository r at most. *)
OnlyIn(v, w, r) ==
    /\ \A key \in DOMAIN v.links \cup DOMAIN w.links :
          key[1] = r \/ (key \in DOMAIN v.links /\ key \in DOMAIN w.links)
    /\ \A key \in DOMAIN v.tags \cup DOMAIN w.tags :
          \/ key[1] = r
          \/ key \in DOMAIN v.tags /\ key \in DOMAIN w.tags /\ w.tags[key] = v.tags[key]

(* What a request does in a repository that ran wild stays there. *)
LEMMA DamagePromised ==
    ASSUME UNCHANGED wild, NEW r \in wild, OnlyIn(vol, vol', r)
    PROVE  Promise!Next
<1>1. ASSUME NEW w, OnlyIn(vol, w, r)
      PROVE  /\ \A pair \in (Offered(vol) \ Offered(w)) \cup (Offered(w) \ Offered(vol)) :
                   pair[1] = r
             /\ \A key \in DOMAIN Pointed(vol) \cup DOMAIN Pointed(w) :
                   key[1] # r => /\ key \in DOMAIN Pointed(vol) /\ key \in DOMAIN Pointed(w)
                                 /\ Pointed(w)[key] = Pointed(vol)[key]
  <2>1. ASSUME NEW pair \in (Offered(vol) \ Offered(w)) \cup (Offered(w) \ Offered(vol))
        PROVE  pair[1] = r
    <3>1. PICK key \in DOMAIN vol.links \cup DOMAIN w.links : pair = <<key[1], key[2].of>>
      BY DEF Offered
    <3>2. ~(key \in DOMAIN vol.links /\ key \in DOMAIN w.links)
      BY <3>1 DEF Offered
    <3>3. QED  BY <1>1, <3>1, <3>2 DEF OnlyIn
  <2>2. QED  BY <1>1, <2>1 DEF Pointed, OnlyIn
<1>2. /\ \A pair \in (Offered(vol) \ Offered(vol')) \cup (Offered(vol') \ Offered(vol)) :
            pair[1] = r
      /\ \A key \in DOMAIN Pointed(vol) \cup DOMAIN Pointed(vol') :
            key[1] # r => /\ key \in DOMAIN Pointed(vol) /\ key \in DOMAIN Pointed(vol')
                          /\ Pointed(vol')[key] = Pointed(vol)[key]
  BY <1>1
<1>3. Promise!Damage
  BY <1>2 DEF Promise!Damage, Offered, Pointed
<1>4. QED  BY <1>3 DEF Promise!Next

(* A step that adds one link offers its content, if what it names is        *)
(* already on offer or the repository ran wild.                             *)
LEMMA OffersPromised ==
    ASSUME UNCHANGED wild, NEW r \in Repos, NEW d \in Digests,
           LinkedAlso(vol, vol', r, d), vol'.tags = vol.tags,
           r \in Tame => \A c \in NeededOf(d.of) : OnOffer(vol, r, c)
    PROVE  Promise!Next
<1>1. CASE r \in Tame
  <2>1. d.of \in Contents
    BY DEF Digests
  <2>2. Offered(vol') = Offered(vol) \cup {<<r, d.of>>}
    <3>1. ASSUME NEW w, LinkedAlso(vol, w, r, d)
          PROVE  Offered(w) = Offered(vol) \cup {<<r, d.of>>}
      <4>1. DOMAIN w.links = DOMAIN vol.links \cup {<<r, d>>}
        BY <3>1 DEF LinkedAlso
      <4>2. <<r, d>>[1] = r /\ <<r, d>>[2] = d
        OBVIOUS
      <4>3. QED  BY <4>1, <4>2, Zenon DEF Offered
    <3>2. QED  BY <3>1
  <2>3. \A needed \in NeededOf(d.of) : <<r, needed>> \in Offered(vol)
    BY <1>1, OfferedIsOnOffer
  <2>4. Promise!Offer(r, d.of)
    BY <2>1, <2>2, <2>3 DEF Promise!Offer, Offered, NeededOf
  <2>5. QED  BY <1>1, <2>1, <2>4 DEF Promise!Next, Promise!Tame, Tame
<1>2. CASE r \notin Tame
  <2>1. OnlyIn(vol, vol', r)
    BY DEF OnlyIn, LinkedAlso
  <2>2. QED  BY <1>2, <2>1, DamagePromised DEF Tame
<1>3. QED  BY <1>1, <1>2

LEMMA NothingPromised ==
    ASSUME vol'.links = vol.links, vol'.tags = vol.tags, UNCHANGED wild
    PROVE  UNCHANGED Promise!vars
BY DEF Promise!vars

LEMMA CommitPromised ==
    ASSUME Inductive, TagsSettled, UNCHANGED wild, NEW a \in Requests, Commit(a)
    PROVE  Promise!Next
<1> DEFINE q == req[a]
           d == q.digest
<1>1. Shaped(q) /\ (q.repo \in Tame => Assured(q, vol))
  BY Settled
<1>2. q.pc = "commit" /\ d \in Digests /\ q.repo \in Repos
  BY DEF Commit, At, Inductive, InFlight
<1>3. vol'.tags = vol.tags /\ LinkedAlso(vol, vol', q.repo, d)
  BY CommitServes
<1>4. ASSUME q.repo \in Tame
      PROVE  \A c \in NeededOf(d.of) : OnOffer(vol, q.repo, c)
  <2>1. CASE q.op = "push"
    <3>1. d.of \notin Manifests
      BY <1>4, <2>1, TameIsQuiet DEF Crosses
    <3>2. QED  BY <3>1 DEF NeededOf, Named, Digest
  <2>2. CASE q.op # "push"
    <3>1. /\ d.of \in Manifests
          /\ \A x \in MustExist[d.of] : OnOffer(vol, q.repo, x.of)
      BY <1>1, <1>2, <1>4, <2>2 DEF Assured, Shaped, Storing
    <3>2. QED  BY <3>1 DEF NeededOf, Named, Digest
  <2>3. QED  BY <2>1, <2>2
<1>5. QED  BY <1>2, <1>3, <1>4, OffersPromised

LEMMA LinkPromised ==
    ASSUME Inductive, TagsSettled, UNCHANGED wild, NEW a \in Requests, Link(a)
    PROVE  Promise!Next
<1> DEFINE q == req[a]
           d == q.digest
<1>1. d \in Digests /\ q.repo \in Repos
  BY DEF Link, At, Inductive, InFlight
<1>2. /\ vol'.tags = vol.tags /\ LinkedAlso(vol, vol', q.repo, d)
      /\ q.repo \in Tame => d.of \notin Manifests
  BY MountServes
<1>3. q.repo \in Tame => \A c \in NeededOf(d.of) : OnOffer(vol, q.repo, c)
  BY <1>2 DEF NeededOf, Named, Digest
<1>4. QED  BY <1>1, <1>2, <1>3, OffersPromised

LEMMA SetTagPromised ==
    ASSUME Inductive, TagsSettled, UNCHANGED wild, NEW a \in Requests, SetTag(a)
    PROVE  Promise!Next
<1>1. (req[a].repo \in Tame => Assured(req[a], vol)) /\ IsVolume(vol)
  BY DEF Inductive, TagsSettled, AllAssured, VolumeOK
<1>2. PICK t \in req[a].tag : vol' = TagSet(vol, req[a].repo, t, req[a].digest)
  BY DEF SetTag
<1>3. t \in Tags /\ req[a].repo \in Repos /\ req[a].digest.of \in Contents
  BY DEF SetTag, At, Inductive, InFlight, Local, Digests
<1>4. PICK r, d : r \in Repos /\ r = req[a].repo /\ d = req[a].digest
  BY <1>3
<1>5. /\ Offered(vol') = Offered(vol)
      /\ Pointed(vol') = [key \in DOMAIN Pointed(vol) \cup {<<r, t>>} |->
                            IF key = <<r, t>> THEN d.of ELSE Pointed(vol)[key]]
      /\ OnlyIn(vol, vol', r)
  <2>1. ASSUME NEW w, w = TagSet(vol, r, t, d)
        PROVE  /\ Offered(w) = Offered(vol)
               /\ Pointed(w) = [key \in DOMAIN Pointed(vol) \cup {<<r, t>>} |->
                                  IF key = <<r, t>> THEN d.of ELSE Pointed(vol)[key]]
               /\ OnlyIn(vol, w, r)
    <3>1. /\ IsVolume(w)
          /\ DOMAIN w.tags = DOMAIN vol.tags \cup {<<r, t>>}
          /\ w.tags[<<r, t>>] = d
          /\ \A key \in DOMAIN vol.tags : key # <<r, t>> => w.tags[key] = vol.tags[key]
          /\ w.files = vol.files /\ w.objects = vol.objects /\ w.links = vol.links
          /\ w.aliases = vol.aliases /\ w.referrers = vol.referrers /\ w.repos = vol.repos
      BY <1>1, <2>1, TagSetSets
    <3>2. QED  BY <3>1 DEF Offered, Pointed, OnlyIn
  <2>2. QED  BY <1>2, <1>4, <2>1
<1>6. CASE r \in Tame
  <2>1. <<r, d>> \in DOMAIN vol.links
    BY <1>1, <1>4, <1>6 DEF SetTag, At, Assured
  <2>2. <<r, d.of>> \in Offered(vol)
    BY <2>1 DEF Offered
  <2>3. PICK c \in Contents : c = d.of
    BY <1>3, <1>4
  <2>4. Promise!Point(r, t, c)
    BY <1>5, <2>2, <2>3 DEF Promise!Point, Offered, Pointed
  <2>5. QED  BY <1>3, <1>6, <2>4 DEF Promise!Next, Promise!Tame, Tame
<1>7. CASE r \notin Tame
  BY <1>4, <1>5, <1>7, DamagePromised DEF Tame
<1>8. QED  BY <1>6, <1>7

LEMMA UntagPromised ==
    ASSUME Inductive, TagsSettled, UNCHANGED wild, NEW a \in Requests, Untag(a)
    PROVE  Promise!Next \/ UNCHANGED Promise!vars
<1> DEFINE q == req[a]
<1>1. IsVolume(vol) /\ TypedVolume(vol) /\ q.repo \in Repos
  BY DEF Inductive, VolumeOK, Untag, At, InFlight
<1>2. PICK t \in q.todo : vol' = TagDelete(vol, q.repo, t)
  BY DEF Untag
<1>3. ASSUME NEW r, NEW w, w = TagDelete(vol, r, t)
      PROVE  /\ Offered(w) = Offered(vol)
             /\ Pointed(w) = [key \in DOMAIN Pointed(vol) \ {<<r, t>>} |-> Pointed(vol)[key]]
             /\ <<r, t>> \notin DOMAIN vol.tags => Pointed(w) = Pointed(vol)
             /\ OnlyIn(vol, w, r)
  <2>1. /\ IsVolume(w)
        /\ DOMAIN w.tags = DOMAIN vol.tags \ {<<r, t>>}
        /\ \A key \in DOMAIN w.tags : w.tags[key] = vol.tags[key]
        /\ w.files = vol.files /\ w.objects = vol.objects /\ w.links = vol.links
        /\ w.aliases = vol.aliases /\ w.referrers = vol.referrers /\ w.repos = vol.repos
    BY <1>1, <1>3, TagDeleteDeletes
  <2>2. QED  BY <2>1 DEF Offered, Pointed, OnlyIn
<1>4. CASE t \in Tags
  <2>1. Promise!Unpoint(q.repo, t)
    <3>1. /\ Offered(vol') = Offered(vol)
          /\ Pointed(vol') = [key \in DOMAIN Pointed(vol) \ {<<q.repo, t>>} |->
                                Pointed(vol)[key]]
      BY <1>2, <1>3
    <3>2. QED  BY <3>1 DEF Promise!Unpoint, Offered, Pointed
  <2>2. CASE q.repo \in Tame
    BY <1>4, <2>1, <2>2 DEF Promise!Next, Promise!Tame, Tame
  <2>3. CASE q.repo \notin Tame
    BY <1>1, <1>2, <1>3, <2>3, DamagePromised DEF Tame
  <2>4. QED  BY <2>2, <2>3
<1>5. CASE t \notin Tags
  <2>1. <<q.repo, t>> \notin DOMAIN vol.tags
    BY <1>1, <1>5 DEF TypedVolume
  <2>2. UNCHANGED Promise!vars
    BY <1>2, <1>3, <2>1 DEF Promise!vars, Offered, Pointed
  <2>3. QED  BY <2>2
<1>6. QED  BY <1>4, <1>5

(* What is unlinked is no longer tagged. *)
LEMMA UnlinkPromised ==
    ASSUME Inductive, TagsSettled, TagsSettled', UNCHANGED wild, NEW a \in Requests,
           Unlink(a)
    PROVE  Promise!Next
<1> DEFINE q == req[a]
<1>1. VolumeOK(vol) /\ IsVolume(vol) /\ q.repo \in Repos
  BY DEF Inductive, VolumeOK, Unlink, At, InFlight
<1>2. vol' = LinkRemove(vol, q.repo, Head(q.unlink))
  BY DEF Unlink
<1>3. ASSUME NEW r, NEW d, NEW w, w = LinkRemove(vol, r, d)
      PROVE  /\ Offered(w) \subseteq Offered(vol) /\ w.tags = vol.tags
             /\ Offered(vol) \ Offered(w) \subseteq {r} \X Contents
             /\ OnlyIn(vol, w, r)
  <2>1. /\ IsVolume(w)
        /\ DOMAIN w.links = DOMAIN vol.links \ {<<r, d>>}
        /\ \A key \in DOMAIN w.links : w.links[key] = vol.links[key]
        /\ w.referrers = {row \in vol.referrers : ~(row[1] = r /\ row[3] = d)}
        /\ w.files = vol.files /\ w.objects = vol.objects /\ w.aliases = vol.aliases
        /\ w.repos = vol.repos /\ w.tags = vol.tags
    BY <1>1, <1>3, LinkRemoveUnlinks
  <2>2. OnlyIn(vol, w, r)
    BY <2>1 DEF OnlyIn
  <2>3. ASSUME NEW pair \in Offered(vol) \ Offered(w)
        PROVE  pair \in {r} \X Contents
    <3>1. PICK key \in DOMAIN vol.links : pair = <<key[1], key[2].of>>
      BY DEF Offered
    <3>2. key \notin DOMAIN w.links
      BY <3>1 DEF Offered
    <3>3. key[1] = r /\ key[2].of \in Contents
      BY <1>1, <2>1, <3>1, <3>2 DEF VolumeOK, TypedVolume, Digests
    <3>4. QED  BY <3>1, <3>3
  <2>4. QED  BY <2>1, <2>2, <2>3 DEF Offered
<1>4. /\ Offered(vol') \subseteq Offered(vol) /\ vol'.tags = vol.tags
      /\ Offered(vol) \ Offered(vol') \subseteq {q.repo} \X Contents
      /\ OnlyIn(vol, vol', q.repo)
  BY <1>2, <1>3
<1>5. CASE q.repo \in Tame
  <2>1. PICK r \in Tame : r = q.repo
    BY <1>5
  <2>2. ASSUME NEW key \in DOMAIN vol.tags, key[1] = r
        PROVE  <<key[1], vol.tags[key].of>> \in Offered(vol')
    <3>1. <<key[1], vol.tags[key]>> \in DOMAIN vol'.links
      BY <1>4, <2>2 DEF TagsSettled, TagsServed, Tame
    <3>2. QED  BY <3>1 DEF Offered
  <2>3. ASSUME NEW pair \in Promise!Tagged, pair[1] = r
        PROVE  pair \in Offered(vol')
    <3>1. PICK key \in DOMAIN vol.tags : pair = <<key[1], vol.tags[key].of>>
      BY DEF Promise!Tagged
    <3>2. QED  BY <2>2, <2>3, <3>1
  <2>4. Offered(vol) \ Offered(vol') \subseteq ({r} \X Contents) \ Promise!Tagged
    BY <1>4, <2>1, <2>3
  <2>5. Promise!Withdraw(r)
    BY <1>4, <2>4 DEF Promise!Withdraw, Offered
  <2>6. QED  BY <2>5 DEF Promise!Next, Promise!Tame, Tame
<1>6. CASE q.repo \notin Tame
  BY <1>1, <1>4, <1>6, DamagePromised DEF Tame
<1>7. QED  BY <1>5, <1>6

(* A store, an alias or a `.tmp` file is nothing a client is promised. *)
LEMMA StorePromised ==
    ASSUME Inductive, NEW a \in Requests,
           \/ Store(a) \/ Place(a) \/ Create(a) \/ Write(a) \/ Rename(a)
           \/ HardLink(a) \/ Alias(a)
    PROVE  vol'.links = vol.links /\ vol'.tags = vol.tags
<1> DEFINE q == req[a]
<1>1. IsVolume(vol)
  BY DEF Inductive, VolumeOK
<1>2. ASSUME NEW w, NEW d, NEW names, NEW bytes,
             w = PutFile(vol, d, bytes) \/ w = StoreFile(vol, d, bytes)
             \/ w = WriteFile(vol, names, bytes)
      PROVE  w.links = vol.links /\ w.tags = vol.tags
  BY <1>1, <1>2, PutFilePuts, StoreFileStores, WriteFileWrites
<1>3. ASSUME NEW w, NEW d, NEW e, w = AliasPut(vol, d, e)
      PROVE  w.links = vol.links /\ w.tags = vol.tags
  BY <1>1, <1>3 DEF AliasPut, IsVolume
<1>4. QED
  BY <1>2, <1>3 DEF Store, Place, Create, Write, Rename, HardLink, HardLinkSha256, Alias

LEMMA StepPromised ==
    ASSUME Inductive, Inductive', TagsSettled, TagsSettled', [Next]_vars
    PROVE  [Promise!Next]_(Promise!vars)
<1>1. CASE Arrival
  <2>1. UNCHANGED vol /\ wild \subseteq wild'
    <3>1. \A a, q : Arrive(a, q) => UNCHANGED vol /\ wild \subseteq wild'
      BY DEF Arrive
    <3>2. QED
      BY <1>1, <3>1 DEF Arrival, Push, PutByTag, PutByDigest, Mount, DeleteManifest,
                        DeleteTag, DeleteBlob
  <2>2. wild' \subseteq Repos
    BY DEF Inductive
  <2>3. Promise!RunWild
    BY <2>1, <2>2 DEF Promise!RunWild
  <2>4. QED  BY <2>3 DEF Promise!Next
<1>2. ASSUME NEW a \in Requests, Serve(a) PROVE [Promise!Next]_(Promise!vars)
  <2>1. UNCHANGED wild
    BY <1>2, ServeIsStill DEF Still
  <2>2. CASE \/ Store(a) \/ Place(a) \/ Create(a) \/ Write(a) \/ Rename(a)
             \/ HardLink(a) \/ Alias(a)
    BY <2>1, <2>2, StorePromised, NothingPromised
  <2>3. CASE Check(a) \/ Stat(a) \/ Lookup(a) \/ ListTags(a) \/ Untagged(a) \/ ResolveTag(a)
    <3>1. UNCHANGED vol
      BY <2>3 DEF Check, Stat, Lookup, ListTags, Untagged, ResolveTag
    <3>2. QED  BY <2>1, <3>1, NothingPromised
  <2>4. CASE Commit(a) \/ Link(a) \/ SetTag(a) \/ Untag(a) \/ Unlink(a)
    BY <2>1, <2>4, CommitPromised, LinkPromised, SetTagPromised, UntagPromised,
       UnlinkPromised
  <2>5. QED  BY <1>2, <2>2, <2>3, <2>4 DEF Serve
<1>3. CASE Kill \/ Restart \/ UNCHANGED vars
  <2>1. UNCHANGED vol /\ UNCHANGED wild
    BY <1>3 DEF Kill, Restart, vars
  <2>2. QED  BY <2>1, NothingPromised
<1>4. QED  BY <1>1, <1>2, <1>3 DEF Next

LEMMA InitPromised == Init => Promise!Init
<1> SUFFICES ASSUME Init PROVE Promise!Init
  OBVIOUS
<1>1. DOMAIN vol.links = {} /\ DOMAIN vol.tags = {} /\ wild = {}
  BY EmptyIsVolume DEF Init, Fresh
<1>2. QED  BY <1>1 DEF Promise!Init

(* OciStore's requests, each in its several transactions, interleaved with  *)
(* others and killed between any two, do nothing a registry of whole        *)
(* operations would not: what manifest_put looked up is on offer when it    *)
(* commits, a tag is set only on what is on offer, and what a delete        *)
(* withdraws is tagged no more.  Nothing is assumed of what clients send:   *)
(* a repository in which a PUT meets a delete of related content, or where  *)
(* a manifest goes through the routes for blobs, runs wild, and the others  *)
(* keep the promise.                                                        *)
THEOREM RegistryKeepsPromise == Spec => ImplementsPromise
<1>1. Inductive /\ TagsSettled /\ Inductive' /\ TagsSettled' /\ [Next]_vars
         => [Promise!Next]_(Promise!vars)
  BY StepPromised
<1>2. QED
  BY <1>1, InitPromised, AlwaysInductive, AlwaysSettled, PTL
     DEF Spec, ImplementsPromise, Promise!Spec

-----------------------------------------------------------------------------
(* Induction over the naturals, for sets. *)

(* A set of naturals that is not empty has a least element. *)
LEMMA LeastNat ==
  ASSUME NEW T \in SUBSET Nat, T # {}
  PROVE  \E m \in T : \A k \in T : m <= k
<1> DEFINE R == {ss \in Nat \X Nat : ss[1] < ss[2]}
<1>1. R = OpToRel(<, Nat)
  BY Zenon DEF OpToRel
<1>2. IsWellFoundedOn(R, Nat)
  BY <1>1, NatLessThanWellFounded, Zenon
<1> HIDE DEF R
<1>3. PICK m \in T : \A y \in T : ~(<<y, m>> \in R)
  BY <1>2, WFMin
<1>4. ASSUME NEW y \in T PROVE m <= y
  <2>1. m \in Nat /\ y \in Nat /\ <<y, m>> \notin R
    BY <1>3
  <2>2. <<y, m>> \in Nat \X Nat /\ <<y, m>>[1] = y /\ <<y, m>>[2] = m
    BY <2>1
  <2>3. ~(y < m)
    BY <2>1, <2>2 DEF R
  <2>4. QED  BY <2>1, <2>3
<1>5. QED  BY <1>4

(* A set that holds 0 and, with each natural, the next one, holds them all. *)
LEMMA NatSetInduction ==
  ASSUME NEW T, 0 \in T, \A n \in Nat : n \in T => n + 1 \in T
  PROVE  Nat \subseteq T
<1> SUFFICES ASSUME ~(Nat \subseteq T) PROVE FALSE
  OBVIOUS
<1> DEFINE U == {n \in Nat : n \notin T}
<1>1. PICK m \in U : \A k \in U : m <= k
  BY LeastNat
<1>2. m # 0 /\ m - 1 \in Nat /\ m - 1 \notin U
  BY <1>1
<1>3. QED  BY <1>1, <1>2

-----------------------------------------------------------------------------
(* The rounds of the worklist, and of a pull. *)

(* A round of either: where it starts, and what it adds to the one before. *)
WalkRound(v, all, f, n) ==
    IF n = 0 THEN Roots(v, all) ELSE f[n - 1] \cup FoundFrom(v, f[n - 1])
PullRound(d, f, n) ==
    IF n = 0 THEN {d} ELSE f[n - 1] \cup UNION {Named(x) : x \in f[n - 1]}

WalkRounds(v, all, f, n) == f = [k \in 0 .. n |-> WalkRound(v, all, f, k)]
PullRounds(d, f, n) == f = [k \in 0 .. n |-> PullRound(d, f, k)]

(* There are as many rounds as one likes. *)
LEMMA WalkRoundsExist ==
  ASSUME NEW v, NEW all
  PROVE  \A n \in Nat : \E f : WalkRounds(v, all, f, n)
<1> DEFINE T == {n \in Nat : \E f : WalkRounds(v, all, f, n)}
<1>1. 0 \in T
  <2> DEFINE f == [k \in 0 .. 0 |-> Roots(v, all)]
  <2>1. f = [k \in 0 .. 0 |-> WalkRound(v, all, f, k)]
    BY DEF WalkRound
  <2>2. WalkRounds(v, all, f, 0)
    BY <2>1 DEF WalkRounds
  <2>3. QED  BY <2>2
<1>2. ASSUME NEW n \in Nat, n \in T PROVE n + 1 \in T
  <2>1. PICK f : WalkRounds(v, all, f, n)
    BY <1>2
  <2> DEFINE g == [k \in 0 .. n + 1 |-> WalkRound(v, all, f, k)]
  <2>2. ASSUME NEW k \in 0 .. n PROVE g[k] = f[k]
    <3>1. f = [j \in 0 .. n |-> WalkRound(v, all, f, j)]
      BY <2>1 DEF WalkRounds
    <3>2. f[k] = WalkRound(v, all, f, k)
      BY <3>1
    <3>3. k \in 0 .. n + 1
      BY <1>2
    <3>4. QED  BY <3>2, <3>3
  <2>3. ASSUME NEW k \in 0 .. n + 1 PROVE g[k] = WalkRound(v, all, g, k)
    <3>1. g[k] = WalkRound(v, all, f, k)
      OBVIOUS
    <3>2. k # 0 => k - 1 \in 0 .. n
      BY <1>2
    <3>3. k # 0 => g[k - 1] = f[k - 1]
      BY <2>2, <3>2
    <3> HIDE DEF g
    <3>4. QED  BY <3>1, <3>3 DEF WalkRound
  <2>4. g = [k \in 0 .. n + 1 |-> WalkRound(v, all, g, k)]
    <3> DEFINE h == [k \in 0 .. n + 1 |-> WalkRound(v, all, g, k)]
    <3>1. \A k \in 0 .. n + 1 : g[k] = h[k]
      BY <2>3
    <3>2. g = [k \in 0 .. n + 1 |-> g[k]] /\ h = [k \in 0 .. n + 1 |-> h[k]]
      OBVIOUS
    <3> HIDE DEF g, h
    <3>3. g = h
      BY <3>1, <3>2
    <3>4. QED  BY <3>3 DEF h
  <2> HIDE DEF g
  <2>5. WalkRounds(v, all, g, n + 1)
    BY <2>4 DEF WalkRounds
  <2>6. QED  BY <2>5, <1>2
<1>3. QED  BY <1>1, <1>2, NatSetInduction

LEMMA PullRoundsExist ==
  ASSUME NEW d
  PROVE  \A n \in Nat : \E f : PullRounds(d, f, n)
<1> DEFINE T == {n \in Nat : \E f : PullRounds(d, f, n)}
<1>1. 0 \in T
  <2> DEFINE f == [k \in 0 .. 0 |-> {d}]
  <2>1. f = [k \in 0 .. 0 |-> PullRound(d, f, k)]
    BY DEF PullRound
  <2>2. PullRounds(d, f, 0)
    BY <2>1 DEF PullRounds
  <2>3. QED  BY <2>2
<1>2. ASSUME NEW n \in Nat, n \in T PROVE n + 1 \in T
  <2>1. PICK f : PullRounds(d, f, n)
    BY <1>2
  <2> DEFINE g == [k \in 0 .. n + 1 |-> PullRound(d, f, k)]
  <2>2. ASSUME NEW k \in 0 .. n PROVE g[k] = f[k]
    <3>1. f = [j \in 0 .. n |-> PullRound(d, f, j)]
      BY <2>1 DEF PullRounds
    <3>2. f[k] = PullRound(d, f, k)
      BY <3>1
    <3>3. k \in 0 .. n + 1
      BY <1>2
    <3>4. QED  BY <3>2, <3>3
  <2>3. ASSUME NEW k \in 0 .. n + 1 PROVE g[k] = PullRound(d, g, k)
    <3>1. g[k] = PullRound(d, f, k)
      OBVIOUS
    <3>2. k # 0 => k - 1 \in 0 .. n
      BY <1>2
    <3>3. k # 0 => g[k - 1] = f[k - 1]
      BY <2>2, <3>2
    <3> HIDE DEF g
    <3>4. QED  BY <3>1, <3>3 DEF PullRound
  <2>4. g = [k \in 0 .. n + 1 |-> PullRound(d, g, k)]
    <3> DEFINE h == [k \in 0 .. n + 1 |-> PullRound(d, g, k)]
    <3>1. \A k \in 0 .. n + 1 : g[k] = h[k]
      BY <2>3
    <3>2. g = [k \in 0 .. n + 1 |-> g[k]] /\ h = [k \in 0 .. n + 1 |-> h[k]]
      OBVIOUS
    <3> HIDE DEF g, h
    <3>3. g = h
      BY <3>1, <3>2
    <3>4. QED  BY <3>3 DEF h
  <2> HIDE DEF g
  <2>5. PullRounds(d, g, n + 1)
    BY <2>4 DEF PullRounds
  <2>6. QED  BY <2>5, <1>2
<1>3. QED  BY <1>1, <1>2, NatSetInduction

LEMMA WalkedIs ==
  ASSUME NEW v, NEW all, Cardinality(ManifestLinks(v)) \in Nat
  PROVE  \E f : /\ WalkRounds(v, all, f, Cardinality(ManifestLinks(v)))
                /\ Walked(v, all) = f[Cardinality(ManifestLinks(v))]
<1> DEFINE N == Cardinality(ManifestLinks(v))
           step(f) == [n \in 0 .. N |-> IF n = 0 THEN Roots(v, all)
                                         ELSE f[n - 1] \cup FoundFrom(v, f[n - 1])]
           g == CHOOSE f : f = step(f)
<1>1. Walked(v, all) = g[N]
  BY Zenon DEF Walked
<1>2. PICK f : WalkRounds(v, all, f, N)
  BY WalkRoundsExist
<1>3. f = step(f)
  BY <1>2 DEF WalkRounds, WalkRound
<1>4. g = step(g)
  BY <1>3, Zenon
<1> HIDE DEF g
<1>5. WalkRounds(v, all, g, N)
  BY <1>4 DEF WalkRounds, WalkRound
<1>6. QED  BY <1>1, <1>5

LEMMA ReachedIs ==
  ASSUME NEW d
  PROVE  \E f : PullRounds(d, f, Cardinality(Manifests)) /\ Reached(d) = f[Cardinality(Manifests)]
<1> DEFINE N == Cardinality(Manifests)
           step(f) == [n \in 0 .. N |-> IF n = 0 THEN {d}
                                         ELSE f[n - 1] \cup UNION {Named(x) : x \in f[n - 1]}]
           g == CHOOSE f : f = step(f)
<1>0. N \in Nat
  BY RegistryAssumption, FS_CardinalityType
<1>1. Reached(d) = g[N]
  BY Zenon DEF Reached
<1>2. PICK f : PullRounds(d, f, N)
  BY <1>0, PullRoundsExist
<1>3. f = step(f)
  BY <1>2 DEF PullRounds, PullRound
<1>4. g = step(g)
  BY <1>3, Zenon
<1> HIDE DEF g
<1>5. PullRounds(d, g, N)
  BY <1>4 DEF PullRounds, PullRound
<1>6. QED  BY <1>1, <1>5

(* Each round holds the one before, and stays among the manifest links. *)
LEMMA WalkRoundFacts ==
  ASSUME NEW v, NEW all, NEW N \in Nat, NEW f, WalkRounds(v, all, f, N)
  PROVE  /\ f[0] = Roots(v, all)
         /\ \A n \in 0 .. N - 1 : f[n + 1] = f[n] \cup FoundFrom(v, f[n])
         /\ \A n \in 0 .. N : f[n] \subseteq ManifestLinks(v) /\ Roots(v, all) \subseteq f[n]
<1>1. \A n \in 0 .. N : f[n] = WalkRound(v, all, f, n)
  <2>1. f = [k \in 0 .. N |-> WalkRound(v, all, f, k)]
    BY DEF WalkRounds
  <2> DEFINE h == [k \in 0 .. N |-> WalkRound(v, all, f, k)]
  <2>2. \A n \in 0 .. N : h[n] = WalkRound(v, all, f, n)
    OBVIOUS
  <2> HIDE DEF h
  <2>3. f = h
    BY <2>1 DEF h
  <2>4. QED  BY <2>2, <2>3
<1>2. f[0] = Roots(v, all)
  <2>1. 0 \in 0 .. N /\ f[0] = WalkRound(v, all, f, 0)
    BY <1>1
  <2>2. QED  BY <2>1, Zenon DEF WalkRound
<1>3. ASSUME NEW n \in 0 .. N - 1 PROVE f[n + 1] = f[n] \cup FoundFrom(v, f[n])
  <2>1. n + 1 \in 0 .. N /\ n + 1 # 0 /\ (n + 1) - 1 = n
    OBVIOUS
  <2>2. f[n + 1] = WalkRound(v, all, f, n + 1)
    BY <1>1, <2>1
  <2>3. f[n + 1] = f[(n + 1) - 1] \cup FoundFrom(v, f[(n + 1) - 1])
    BY <2>1, <2>2, Zenon DEF WalkRound
  <2>4. QED  BY <2>1, <2>3
<1> DEFINE T == {n \in Nat : n <= N => f[n] \subseteq ManifestLinks(v) /\ Roots(v, all) \subseteq f[n]}
<1>4. 0 \in T
  BY <1>2 DEF Roots
<1>5. ASSUME NEW n \in Nat, n \in T PROVE n + 1 \in T
  <2> SUFFICES ASSUME n + 1 <= N
               PROVE  f[n + 1] \subseteq ManifestLinks(v) /\ Roots(v, all) \subseteq f[n + 1]
    OBVIOUS
  <2>1. n \in 0 .. N - 1 /\ n <= N
    OBVIOUS
  <2>2. f[n + 1] = f[n] \cup FoundFrom(v, f[n])
    BY <1>3, <2>1
  <2>3. FoundFrom(v, f[n]) \subseteq ManifestLinks(v)
    BY DEF FoundFrom
  <2>4. QED  BY <1>5, <2>1, <2>2, <2>3
<1>6. Nat \subseteq T
  BY <1>4, <1>5, NatSetInduction
<1>7. \A n \in 0 .. N : f[n] \subseteq ManifestLinks(v) /\ Roots(v, all) \subseteq f[n]
  BY <1>6
<1>8. QED  BY <1>2, <1>3, <1>7

(* As many rounds as there are manifest links are enough: each round that    *)
(* changes something adds a link, so the last one leads nowhere new.         *)
LEMMA WalkedIsClosed ==
  ASSUME NEW v, NEW all, IsFiniteSet(ManifestLinks(v))
  PROVE  /\ Roots(v, all) \subseteq Walked(v, all)
         /\ Walked(v, all) \subseteq ManifestLinks(v)
         /\ FoundFrom(v, Walked(v, all)) \subseteq Walked(v, all)
<1> DEFINE M == ManifestLinks(v)
           N == Cardinality(M)
           Full(W) == FoundFrom(v, W) \subseteq W
<1>0. N \in Nat
  BY FS_CardinalityType
<1>1. PICK f : WalkRounds(v, all, f, N) /\ Walked(v, all) = f[N]
  BY <1>0, WalkedIs
<1>2. /\ f[0] = Roots(v, all)
      /\ \A n \in 0 .. N - 1 : f[n + 1] = f[n] \cup FoundFrom(v, f[n])
      /\ \A n \in 0 .. N : f[n] \subseteq M /\ Roots(v, all) \subseteq f[n]
  <2> HIDE DEF N
  <2>1. QED  BY <1>0, <1>1, WalkRoundFacts
<1>3. \A n \in 0 .. N : IsFiniteSet(f[n]) /\ Cardinality(f[n]) \in Nat /\ Cardinality(f[n]) <= N
  <2> SUFFICES ASSUME NEW n \in 0 .. N
               PROVE  IsFiniteSet(f[n]) /\ Cardinality(f[n]) \in Nat /\ Cardinality(f[n]) <= N
    OBVIOUS
  <2>1. f[n] \in SUBSET M
    BY <1>2
  <2>2. QED  BY <2>1, FS_Subset, FS_CardinalityType
<1> DEFINE T == {n \in Nat : n <= N => Full(f[n]) \/ Cardinality(f[n]) >= n}
<1>4. 0 \in T
  BY <1>0, <1>3
<1>5. ASSUME NEW n \in Nat, n \in T PROVE n + 1 \in T
  <2> SUFFICES ASSUME n + 1 <= N
               PROVE  Full(f[n + 1]) \/ Cardinality(f[n + 1]) >= n + 1
    OBVIOUS
  <2> HIDE DEF N, Full
  <2>1. n \in 0 .. N - 1 /\ n \in 0 .. N /\ n + 1 \in 0 .. N /\ n <= N
    BY <1>0
  <2>2. f[n + 1] = f[n] \cup FoundFrom(v, f[n])
    BY <1>2, <2>1
  <2>3. CASE Full(f[n])
    <3>1. f[n + 1] = f[n]
      BY <2>2, <2>3 DEF Full
    <3>2. QED  BY <2>3, <3>1
  <2>4. CASE ~Full(f[n])
    <3>1. Cardinality(f[n]) >= n
      BY <1>5, <2>1, <2>4
    <3>2. PICK y : y \in f[n + 1] /\ y \notin f[n]
      BY <2>2, <2>4 DEF Full
    <3>3. IsFiniteSet(f[n + 1]) /\ Cardinality(f[n + 1]) \in Nat
      BY <1>3, <2>1
    <3>4. f[n] \in SUBSET f[n + 1] /\ f[n] # f[n + 1]
      BY <2>2, <3>2
    <3>5. Cardinality(f[n]) < Cardinality(f[n + 1])
      <4>1. /\ Cardinality(f[n]) <= Cardinality(f[n + 1])
            /\ Cardinality(f[n]) = Cardinality(f[n + 1]) => f[n] = f[n + 1]
        BY <3>3, <3>4, FS_Subset
      <4>2. Cardinality(f[n]) \in Nat
        BY <1>3, <2>1
      <4>3. QED  BY <3>3, <3>4, <4>1, <4>2
    <3>6. Cardinality(f[n]) \in Nat
      BY <1>3, <2>1
    <3>7. QED  BY <3>1, <3>3, <3>5, <3>6
  <2>5. QED  BY <2>3, <2>4
<1>6. Nat \subseteq T
  <2> HIDE DEF T
  <2>1. QED  BY <1>4, <1>5, NatSetInduction
<1>7. Full(f[N]) \/ Cardinality(f[N]) >= N
  BY <1>0, <1>6
<1>8. N \in 0 .. N
  BY <1>0
<1>9. Full(f[N])
  <2>1. CASE Cardinality(f[N]) >= N
    <3>1. f[N] \in SUBSET M /\ Cardinality(f[N]) <= N /\ Cardinality(f[N]) \in Nat
      BY <1>2, <1>3, <1>8
    <3>2. Cardinality(f[N]) = N
      BY <1>0, <2>1, <3>1
    <3>3. f[N] = M
      BY <3>1, <3>2, FS_Subset
    <3>4. QED  BY <3>3 DEF FoundFrom
  <2>2. QED  BY <1>7, <2>1
<1>10. QED  BY <1>1, <1>2, <1>8, <1>9

(* And everything walked was led to from a root. *)
LEMMA WalkedIsLeast ==
  ASSUME NEW v, NEW all, IsFiniteSet(ManifestLinks(v)), NEW P,
         Roots(v, all) \subseteq P, FoundFrom(v, P) \subseteq P
  PROVE  Walked(v, all) \subseteq P
<1> DEFINE N == Cardinality(ManifestLinks(v))
<1>0. N \in Nat
  BY FS_CardinalityType
<1>1. PICK f : WalkRounds(v, all, f, N) /\ Walked(v, all) = f[N]
  BY <1>0, WalkedIs
<1> HIDE DEF N
<1>2. /\ f[0] = Roots(v, all)
      /\ \A n \in 0 .. N - 1 : f[n + 1] = f[n] \cup FoundFrom(v, f[n])
  BY <1>0, <1>1, WalkRoundFacts
<1> DEFINE T == {n \in Nat : n <= N => f[n] \subseteq P}
<1>3. 0 \in T
  BY <1>2
<1>4. ASSUME NEW n \in Nat, n \in T PROVE n + 1 \in T
  <2> SUFFICES ASSUME n + 1 <= N PROVE f[n + 1] \subseteq P
    OBVIOUS
  <2>1. n \in 0 .. N - 1 /\ n <= N
    BY <1>0
  <2>2. f[n + 1] = f[n] \cup FoundFrom(v, f[n]) /\ f[n] \subseteq P
    BY <1>2, <1>4, <2>1
  <2>3. FoundFrom(v, f[n]) \subseteq FoundFrom(v, P)
    BY <2>2 DEF FoundFrom
  <2>4. QED  BY <2>2, <2>3
<1>5. Nat \subseteq T
  BY <1>3, <1>4, NatSetInduction
<1>6. QED  BY <1>0, <1>1, <1>5

(* What a pull goes through: the digest itself and, of a set that holds it   *)
(* and whatever the pulled manifests in the set name, nothing outside.       *)
LEMMA ReachedFacts ==
  ASSUME NEW d
  PROVE  /\ d \in Reached(d)
         /\ \A P : d \in P /\ (\A y \in P \cap Reached(d) : Named(y) \subseteq P)
                   => Reached(d) \subseteq P
<1> DEFINE N == Cardinality(Manifests)
<1>0. N \in Nat
  BY RegistryAssumption, FS_CardinalityType
<1>1. PICK f : PullRounds(d, f, N) /\ Reached(d) = f[N]
  BY ReachedIs
<1> HIDE DEF N
<1>2. \A n \in 0 .. N : f[n] = PullRound(d, f, n)
  <2>1. f = [k \in 0 .. N |-> PullRound(d, f, k)]
    BY <1>1 DEF PullRounds
  <2> DEFINE h == [k \in 0 .. N |-> PullRound(d, f, k)]
  <2>2. \A n \in 0 .. N : h[n] = PullRound(d, f, n)
    OBVIOUS
  <2> HIDE DEF h
  <2>3. f = h
    BY <2>1 DEF h
  <2>4. QED  BY <2>2, <2>3
<1>3. f[0] = {d}
  <2>1. 0 \in 0 .. N /\ f[0] = PullRound(d, f, 0)
    BY <1>0, <1>2
  <2>2. QED  BY <2>1, Zenon DEF PullRound
<1>4. ASSUME NEW n \in 0 .. N - 1
      PROVE  f[n + 1] = f[n] \cup UNION {Named(x) : x \in f[n]}
  <2>1. n + 1 \in 0 .. N /\ n + 1 # 0 /\ (n + 1) - 1 = n
    BY <1>0
  <2>2. f[n + 1] = PullRound(d, f, n + 1)
    BY <1>2, <2>1
  <2>3. f[n + 1] = f[(n + 1) - 1] \cup UNION {Named(x) : x \in f[(n + 1) - 1]}
    BY <2>1, <2>2, Zenon DEF PullRound
  <2>4. QED  BY <2>1, <2>3
<1> DEFINE T == {n \in Nat : n <= N => f[N - n] \subseteq f[N]}
<1>5. 0 \in T
  BY <1>0
<1>6. ASSUME NEW n \in Nat, n \in T PROVE n + 1 \in T
  <2> SUFFICES ASSUME n + 1 <= N PROVE f[N - (n + 1)] \subseteq f[N]
    OBVIOUS
  <2>1. N - (n + 1) \in 0 .. N - 1 /\ (N - (n + 1)) + 1 = N - n /\ n <= N
    BY <1>0
  <2>2. f[N - (n + 1)] \subseteq f[(N - (n + 1)) + 1]
    BY <1>4, <2>1
  <2>3. QED  BY <1>6, <2>1, <2>2
<1>7. Nat \subseteq T
  BY <1>5, <1>6, NatSetInduction
<1>8. ASSUME NEW n \in 0 .. N PROVE f[n] \subseteq f[N]
  <2>1. N - n \in Nat /\ N - n <= N /\ N - (N - n) = n
    BY <1>0
  <2>2. QED  BY <1>7, <2>1
<1> HIDE DEF T
<1>9. d \in Reached(d)
  BY <1>0, <1>1, <1>3, <1>8
<1>10. ASSUME NEW P, d \in P, \A y \in P \cap Reached(d) : Named(y) \subseteq P
       PROVE  Reached(d) \subseteq P
  <2> DEFINE U == {n \in Nat : n <= N => f[n] \subseteq P}
  <2>1. 0 \in U
    BY <1>3, <1>10
  <2>2. ASSUME NEW n \in Nat, n \in U PROVE n + 1 \in U
    <3> SUFFICES ASSUME n + 1 <= N PROVE f[n + 1] \subseteq P
      OBVIOUS
    <3>1. n \in 0 .. N - 1 /\ n \in 0 .. N /\ n <= N
      BY <1>0
    <3>2. f[n] \subseteq P /\ f[n] \subseteq Reached(d)
      BY <1>1, <1>8, <2>2, <3>1
    <3>3. \A y \in f[n] : Named(y) \subseteq P
      BY <1>10, <3>2
    <3>4. QED  BY <1>4, <3>1, <3>2, <3>3
  <2>3. Nat \subseteq U
    BY <2>1, <2>2, NatSetInduction
  <2>4. QED  BY <1>0, <1>1, <2>3
<1>11. QED  BY <1>9, <1>10

-----------------------------------------------------------------------------
(* Mark.  Two names of a digest are enough for the collector as long as      *)
(* nothing was stored by sha512.                                             *)

(* A volume as the registry and a collection, also an interrupted one, leave *)
(* it: its tables are in order, but a link may have lost its bytes or its    *)
(* alias.                                                                    *)
Tidy(v) ==
    /\ IsFiniteSet(DOMAIN v.links)
    /\ \A key \in DOMAIN v.links : v.links[key] # "blob" => key[2].of \in Manifests
    /\ \A d \in DOMAIN v.aliases :
          /\ v.aliases[d] = OtherName(d) /\ OtherName(d) \in DOMAIN v.aliases
          /\ d.alg # "sha512"

Sound(v) ==
    /\ IsVolume(v) /\ TypedVolume(v) /\ TagsServed(v, Repos) /\ Tidy(v)
    /\ \A row \in v.referrers : <<row[1], row[3]>> \in DOMAIN v.links

LEMMA OtherNameTwice ==
    ASSUME NEW d \in Digests, d.alg # "sha512"
    PROVE  OtherName(OtherName(d)) = d /\ OtherName(d) \in Digests /\ OtherName(d).alg # "sha512"
BY RegistryAssumption DEF OtherName, Digests, Digest

(* Names are the same for a digest and its alias. *)
LEMMA NamesFacts ==
    ASSUME NEW v, Sound(v)
    PROVE  /\ \A x : x \in Names(v, x)
           /\ \A x : x \notin DOMAIN v.aliases => Names(v, x) = {x}
           /\ \A x \in DOMAIN v.aliases : Names(v, x) = {x, OtherName(x)}
           /\ \A x, y : y \in Names(v, x) => Names(v, y) = Names(v, x)
<1>1. \A x \in DOMAIN v.aliases :
         /\ x \in Digests /\ v.aliases[x] = OtherName(x) /\ OtherName(x) \in DOMAIN v.aliases
         /\ OtherName(OtherName(x)) = x
  BY OtherNameTwice DEF Sound, Tidy, TypedVolume
<1>2. \A x : x \in Names(v, x)
  BY DEF Names
<1>3. \A x : x \notin DOMAIN v.aliases => Names(v, x) = {x}
  BY DEF Names, AliasOf
<1>4. \A x \in DOMAIN v.aliases : Names(v, x) = {x, OtherName(x)}
  <2>1. ASSUME NEW x \in DOMAIN v.aliases PROVE Names(v, x) = {x, OtherName(x)}
    <3>1. AliasOf(v, x) = {OtherName(x)}
      BY <1>1 DEF AliasOf
    <3>2. QED  BY <3>1 DEF Names
  <2>2. QED  BY <2>1
<1>5. ASSUME NEW x, NEW y, y \in Names(v, x) PROVE Names(v, y) = Names(v, x)
  <2>1. CASE x \in DOMAIN v.aliases
    <3>1. Names(v, x) = {x, OtherName(x)}
      BY <1>4, <2>1
    <3>2. OtherName(x) \in DOMAIN v.aliases /\ OtherName(OtherName(x)) = x
      BY <1>1, <2>1
    <3>3. Names(v, OtherName(x)) = {OtherName(x), x}
      BY <1>4, <3>2
    <3>4. QED  BY <1>5, <3>1, <3>3
  <2>2. CASE x \notin DOMAIN v.aliases
    BY <1>3, <1>5, <2>2
  <2>3. QED  BY <2>1, <2>2
<1>6. QED  BY <1>2, <1>3, <1>4, <1>5

(* What mark promises: the roots are walked; whatever a walked manifest      *)
(* leads to is marked, under both names; a marked manifest is walked in      *)
(* every repository that links it.                                           *)
LEMMA MarkFacts ==
    ASSUME NEW v, Sound(v), NEW all
    PROVE  /\ Roots(v, all) \subseteq Walked(v, all)
           /\ Walked(v, all) \subseteq ManifestLinks(v)
           /\ \A key \in Walked(v, all) : Found(v, key) \subseteq Marked(v, all)
           /\ \A x \in Marked(v, all) : Names(v, x) \subseteq Marked(v, all)
           /\ \A key \in ManifestLinks(v) : key[2] \in Marked(v, all) => key \in Walked(v, all)
           /\ \A z \in Marked(v, all) :
                 \E key \in Walked(v, all) : \E x \in Found(v, key) : z \in Names(v, x)
           /\ \A d : IsMarked(v, all, d) <=> d \in Marked(v, all)
<1> DEFINE W == Walked(v, all)
           M == Marked(v, all)
<1>1. ManifestLinks(v) \in SUBSET DOMAIN v.links
  BY DEF ManifestLinks
<1>2. IsFiniteSet(ManifestLinks(v))
  BY <1>1, FS_Subset DEF Sound, Tidy
<1>3. Roots(v, all) \subseteq W /\ W \subseteq ManifestLinks(v) /\ FoundFrom(v, W) \subseteq W
  BY <1>2, WalkedIsClosed
<1>4. /\ \A x : x \in Names(v, x)
      /\ \A x, y : y \in Names(v, x) => Names(v, y) = Names(v, x)
  BY NamesFacts
<1>5. \A z : z \in M <=> \E key \in W : \E x \in Found(v, key) : z \in Names(v, x)
  BY DEF Marked
<1> HIDE DEF M, W
<1>6. \A key \in W : Found(v, key) \subseteq M
  BY <1>4, <1>5
<1>7. \A x \in M : Names(v, x) \subseteq M
  BY <1>4, <1>5
<1>8. ASSUME NEW key \in ManifestLinks(v), key[2] \in M PROVE key \in W
  <2>1. PICK w \in W : \E x \in Found(v, w) : key[2] \in Names(v, x)
    BY <1>5, <1>8
  <2>2. \E x \in Found(v, w) : Names(v, key[2]) \cap Names(v, x) # {}
    BY <1>4, <2>1
  <2>3. key \in FoundFrom(v, W)
    BY <2>2 DEF FoundFrom
  <2>4. QED  BY <1>3, <2>3
<1>9. \A d : IsMarked(v, all, d) <=> d \in M
  <2>1. ASSUME NEW d, NEW z, z \in Names(v, d), z \in M PROVE d \in M
    <3>1. d \in Names(v, z)
      BY <1>4, <2>1
    <3>2. QED  BY <1>7, <2>1, <3>1
  <2>2. \A d : IsMarked(v, all, d) <=> Names(v, d) \cap M # {}
    BY DEF IsMarked, M
  <2>3. QED  BY <1>4, <2>1, <2>2
<1>10. QED  BY <1>3, <1>5, <1>6, <1>7, <1>8, <1>9 DEF M, W

(* Volume w is v with nothing of the set M of digests gone. *)
Spares(v, w, M) ==
    /\ DOMAIN w.links \subseteq DOMAIN v.links
    /\ \A key \in DOMAIN w.links : w.links[key] = v.links[key]
    /\ \A key \in DOMAIN v.links : key[2] \in M => key \in DOMAIN w.links
    /\ DOMAIN w.files \subseteq DOMAIN v.files
    /\ \A d \in DOMAIN w.files : w.files[d] = v.files[d]
    /\ DOMAIN v.files \cap M \subseteq DOMAIN w.files
    /\ DOMAIN w.aliases \subseteq DOMAIN v.aliases
    /\ \A d \in DOMAIN w.aliases : w.aliases[d] = v.aliases[d]
    /\ DOMAIN v.aliases \cap M \subseteq DOMAIN w.aliases
    /\ w.referrers \subseteq v.referrers
    /\ \A row \in v.referrers : row[2] \in M /\ row[3] \in M => row \in w.referrers
    /\ DOMAIN w.tags = DOMAIN v.tags
    /\ \A key \in DOMAIN w.tags : w.tags[key] = v.tags[key]

(* Then names only get fewer, and those of M stay. *)
LEMMA SparesNames ==
    ASSUME NEW v, NEW w, NEW M, Spares(v, w, M)
    PROVE  /\ \A x : Names(w, x) \subseteq Names(v, x)
           /\ \A x \in M : Names(w, x) = Names(v, x)
           /\ ManifestLinks(w) \subseteq ManifestLinks(v)
           /\ \A key \in ManifestLinks(v) : key[2] \in M => key \in ManifestLinks(w)
           /\ \A r : TagTargets(w, r) = TagTargets(v, r)
<1>1. \A x : x \in DOMAIN w.aliases => x \in DOMAIN v.aliases /\ w.aliases[x] = v.aliases[x]
  BY DEF Spares
<1>2. \A x \in M : x \in DOMAIN v.aliases => x \in DOMAIN w.aliases
  BY DEF Spares
<1>3. \A x : AliasOf(w, x) \subseteq AliasOf(v, x)
  BY <1>1 DEF AliasOf
<1>4. \A x \in M : AliasOf(w, x) = AliasOf(v, x)
  BY <1>1, <1>2 DEF AliasOf
<1>5. ManifestLinks(w) \subseteq ManifestLinks(v)
  BY DEF Spares, ManifestLinks
<1>6. \A key \in ManifestLinks(v) : key[2] \in M => key \in ManifestLinks(w)
  BY DEF Spares, ManifestLinks
<1>7. \A r : TagTargets(w, r) = TagTargets(v, r)
  BY DEF Spares, TagTargets
<1>8. QED  BY <1>3, <1>4, <1>5, <1>6, <1>7 DEF Names

(* A step that removes only what is not marked does not change the mark, so *)
(* that the lists made at its time stay right while the sweep goes on, and  *)
(* a second collection finds the same.                                      *)
LEMMA MarkStays ==
    ASSUME NEW v, Sound(v), NEW w, Sound(w), NEW all,
           Spares(v, w, Marked(v, all))
    PROVE  Marked(w, all) = Marked(v, all) /\ Walked(w, all) = Walked(v, all)
<1> DEFINE M == Marked(v, all)
           W == Walked(v, all)
           X == Walked(w, all)
<1>1. /\ \A x : Names(w, x) \subseteq Names(v, x)
      /\ \A x \in M : Names(w, x) = Names(v, x)
      /\ ManifestLinks(w) \subseteq ManifestLinks(v)
      /\ \A key \in ManifestLinks(v) : key[2] \in M => key \in ManifestLinks(w)
      /\ \A r : TagTargets(w, r) = TagTargets(v, r)
  <2> HIDE DEF M
  <2>1. Spares(v, w, M)
    BY DEF M
  <2>2. QED  BY <2>1, SparesNames
<1>2. /\ Roots(v, all) \subseteq W
      /\ W \subseteq ManifestLinks(v)
      /\ \A key \in W : Found(v, key) \subseteq M
      /\ \A x \in M : Names(v, x) \subseteq M
      /\ \A key \in ManifestLinks(v) : key[2] \in M => key \in W
      /\ \A z \in M : \E key \in W : \E x \in Found(v, key) : z \in Names(v, x)
  BY MarkFacts
<1>3. /\ \A x : x \in Names(v, x)
      /\ \A x, y : y \in Names(v, x) => Names(v, y) = Names(v, x)
  BY NamesFacts
<1>4. IsFiniteSet(ManifestLinks(v)) /\ IsFiniteSet(ManifestLinks(w))
  <2>1. \A u : ManifestLinks(u) \in SUBSET DOMAIN u.links
    BY DEF ManifestLinks
  <2>2. QED  BY <2>1, FS_Subset DEF Sound, Tidy
<1>5. FoundFrom(v, W) \subseteq W
  BY <1>4, WalkedIsClosed
<1>6. Roots(w, all) \subseteq X /\ X \subseteq ManifestLinks(w) /\ FoundFrom(w, X) \subseteq X
  BY <1>4, WalkedIsClosed
<1>7. w.referrers \subseteq v.referrers
      /\ \A row \in v.referrers : row[2] \in M /\ row[3] \in M => row \in w.referrers
  BY DEF Spares
<1>8. \A P : Roots(w, all) \subseteq P /\ FoundFrom(w, P) \subseteq P => X \subseteq P
  BY <1>4, WalkedIsLeast
<1>9. \A P : Roots(v, all) \subseteq P /\ FoundFrom(v, P) \subseteq P => W \subseteq P
  BY <1>4, WalkedIsLeast
<1>10. Marked(w, all) = UNION {Names(w, x) : x \in UNION {Found(w, key) : key \in X}}
  BY DEF Marked
<1> HIDE DEF M, W, X
<1>11. \A key : Found(w, key) \subseteq Found(v, key)
  BY <1>1, <1>7 DEF Found
<1>12. ASSUME NEW key \in W PROVE Found(w, key) = Found(v, key)
  <2>1. key[2] \in M /\ Found(v, key) \subseteq M
    <3>1. key[2] \in Found(v, key)
      BY DEF Found
    <3>2. QED  BY <1>2, <3>1
  <2>2. Names(w, key[2]) = Names(v, key[2]) /\ Names(v, key[2]) \subseteq M
    BY <1>1, <1>2, <2>1
  <2>3. ASSUME NEW row \in v.referrers, row[1] = key[1], row[2] \in Names(v, key[2])
        PROVE  row \in w.referrers
    <3>1. row[3] \in Found(v, key)
      BY <2>3 DEF Found
    <3>2. QED  BY <1>7, <2>1, <2>2, <2>3, <3>1
  <2>4. Found(v, key) \subseteq Found(w, key)
    BY <2>2, <2>3 DEF Found
  <2>5. QED  BY <1>11, <2>4
<1>13. X \subseteq W
  <2>1. Roots(w, all) \subseteq Roots(v, all)
    BY <1>1 DEF Roots
  <2>2. FoundFrom(w, W) \subseteq FoundFrom(v, W)
    BY <1>1, <1>11 DEF FoundFrom
  <2>3. QED  BY <1>2, <1>5, <1>8, <2>1, <2>2
<1>14. \A key \in W : key[2] \in M /\ key \in ManifestLinks(w)
  <2>1. \A key : key[2] \in Found(v, key)
    BY DEF Found
  <2>2. QED  BY <1>1, <1>2, <2>1
<1>15. W \subseteq W \cap X
  <2>1. Roots(v, all) \subseteq W \cap X
    <3>1. ASSUME NEW key \in Roots(v, all) PROVE key \in Roots(w, all)
      <4>1. key \in W
        BY <1>2
      <4>2. key \in ManifestLinks(w) /\ Names(w, key[2]) = Names(v, key[2])
        BY <1>1, <1>14, <4>1
      <4>3. QED  BY <1>1, <4>2 DEF Roots
    <3>2. QED  BY <1>2, <1>6, <3>1
  <2>2. FoundFrom(v, W \cap X) \subseteq W \cap X
    <3>1. ASSUME NEW key \in FoundFrom(v, W \cap X) PROVE key \in W /\ key \in X
      <4>0. PICK y \in W \cap X : \E x \in Found(v, y) : Names(v, key[2]) \cap Names(v, x) # {}
        BY DEF FoundFrom
      <4>1. PICK x \in Found(v, y) : Names(v, key[2]) \cap Names(v, x) # {}
        BY <4>0
      <4>2. key \in ManifestLinks(v)
        BY DEF FoundFrom
      <4>3. key \in FoundFrom(v, W)
        BY <4>1, <4>2 DEF FoundFrom
      <4>4. key \in W /\ key[2] \in M /\ key \in ManifestLinks(w)
        BY <1>5, <1>14, <4>3
      <4>5. x \in Found(w, y) /\ x \in M
        BY <1>2, <1>12, <4>1
      <4>6. Names(w, key[2]) \cap Names(w, x) # {}
        BY <1>1, <4>1, <4>4, <4>5
      <4>7. key \in FoundFrom(w, X)
        BY <4>1, <4>4, <4>5, <4>6 DEF FoundFrom
      <4>8. QED  BY <1>6, <4>4, <4>7
    <3>2. QED  BY <3>1
  <2>3. QED  BY <1>9, <2>1, <2>2
<1>16. X = W
  BY <1>13, <1>15
<1>17. ASSUME NEW z PROVE z \in Marked(w, all) <=> z \in M
  <2>1. z \in Marked(w, all) <=> \E key \in W : \E x \in Found(w, key) : z \in Names(w, x)
    BY <1>10, <1>16
  <2>2. z \in M <=> \E key \in W : \E x \in Found(v, key) : z \in Names(v, x)
    BY <1>2
  <2>3. \A key \in W : \A x \in Found(v, key) : Names(w, x) = Names(v, x)
    BY <1>1, <1>2
  <2>4. QED  BY <1>12, <2>1, <2>2, <2>3
<1>18. QED  BY <1>16, <1>17 DEF M, W, X

-----------------------------------------------------------------------------
(* The invariant of the collector composed with the registry. *)

(* No manifest that is linked leads to d, which therefore no mark can find,  *)
(* with or without --delete-untagged.                                        *)
Loose(v, d) == \A key \in ManifestLinks(v) : Names(v, d) \cap Found(v, key) = {}

(* A link that has lost its bytes or its alias to a sweep. *)
Broken(v, key) == key[2] \notin DOMAIN v.files \/ key[2] \notin DOMAIN v.aliases
Unbroken(v) == \A key \in DOMAIN v.links : ~Broken(v, key)
Loosened(v) == \A key \in DOMAIN v.links : Broken(v, key) => Loose(v, key[2])

(* A volume the server may run on. *)
Orderly(v) == Sound(v) /\ Unbroken(v)

(* A request that is about to link has paired the names before. *)
Pairing(q, v) ==
    /\ q.pc = "commit" /\ q.op # "push" => q.digest \in DOMAIN v.aliases
    /\ q.pc = "link" => q.digest \in DOMAIN v.aliases

Running == {"delete", "delete_alias", "sweep", "forget", "links"}

GcShape ==
    /\ gc = [pc |-> gc.pc, untagged |-> gc.untagged, doomed |-> gc.doomed, stale |-> gc.stale,
             names |-> gc.names, all |-> gc.all, interrupted |-> gc.interrupted]
    /\ gc.pc \in {"idle", "done", "failed"} \cup Running
    /\ gc.all \in BOOLEAN /\ gc.interrupted \in BOOLEAN

(* What the collection has listed is exactly what is left to remove: nothing *)
(* of it is marked, and nothing else that is unmarked is there.              *)
Listing(v, g) ==
    /\ \A key \in g.untagged \cup g.stale : key[2] \notin Marked(v, g.all)
    /\ \A key \in g.untagged : key[2].of \in Manifests
    /\ g.doomed \cap Marked(v, g.all) = {}
    /\ UntaggedLinks(v, g.all) \subseteq g.untagged
    /\ StaleLinks(v, g.all) \subseteq g.stale
    /\ Doomed(v, g.all) \subseteq g.doomed \cup (IF g.pc = "forget" THEN g.names ELSE {})
    /\ g.pc = "delete_alias" =>
          \A key \in g.names : key[2] \notin Marked(v, g.all) /\ key[2].of \in Manifests
    /\ g.pc = "forget" => g.names \cap Marked(v, g.all) = {} /\ \A d, e \in g.names : d = e
    /\ g.pc \in {"sweep", "forget", "links"} => g.untagged = {}
    /\ g.pc = "links" => g.doomed = {}

Clean(v, all) ==
    UntaggedLinks(v, all) = {} /\ Doomed(v, all) = {} /\ StaleLinks(v, all) = {} /\ Unbroken(v)

Serveable ==
    /\ Inductive /\ TagsSettled /\ Orderly(vol)
    /\ \A a \in Requests : Pairing(req[a], vol)

(* No request is in flight. *)
Quiet ==
    /\ req \in [Requests -> Local] /\ wild \subseteq Repos /\ Disturbed(req) \subseteq wild
    /\ \A a \in Requests :
          req[a].pc = "idle" /\ (req[a].op # "none" => req[a].repo \in Repos)

Collectable ==
    /\ GcShape
    /\ Sound(vol) /\ Loosened(vol)
    /\ up \in BOOLEAN
    /\ ~up => Quiet
    /\ up => Serveable /\ gc.pc = "idle" /\ ~gc.interrupted
    /\ gc.pc \in {"idle", "delete", "delete_alias", "failed"} /\ ~gc.interrupted => Unbroken(vol)
    /\ gc.pc = "done" => Clean(vol, gc.all)
    /\ gc.pc \in Running => Listing(vol, gc)

-----------------------------------------------------------------------------
(* While the server runs, every step leaves the volume orderly. *)

(* What the serving proofs add to VolumeOK and TagsServed. *)
Neat(v) == Tidy(v) /\ \A key \in DOMAIN v.links : key[2] \in DOMAIN v.aliases

LEMMA OrderlyIs ==
    ASSUME NEW v
    PROVE  Orderly(v) <=> VolumeOK(v) /\ TagsServed(v, Repos) /\ Neat(v)
BY DEF Orderly, Sound, Unbroken, Broken, VolumeOK, Neat

(* What a durable step of a request does to the links and the aliases: it    *)
(* leaves them, pairs two names, adds one link, or takes one away.           *)
LEMMA SameNeat ==
    ASSUME NEW v, NEW w, Neat(v), w.links = v.links, w.aliases = v.aliases
    PROVE  Neat(w)
BY DEF Neat, Tidy

LEMMA PairNeat ==
    ASSUME NEW v, NEW w, Neat(v), NEW d \in Digests, d.alg # "sha512", w.links = v.links,
           DOMAIN w.aliases = DOMAIN v.aliases \cup {d, OtherName(d)},
           w.aliases[d] = OtherName(d), w.aliases[OtherName(d)] = d,
           \A x \in DOMAIN v.aliases : x \notin {d, OtherName(d)} => w.aliases[x] = v.aliases[x]
    PROVE  Neat(w)
<1>1. OtherName(OtherName(d)) = d /\ OtherName(d).alg # "sha512"
  BY OtherNameTwice
<1>2. \A x \in DOMAIN v.aliases :
         /\ v.aliases[x] = OtherName(x) /\ OtherName(x) \in DOMAIN v.aliases /\ x.alg # "sha512"
  BY DEF Neat, Tidy
<1>3. \A x \in DOMAIN w.aliases :
         /\ w.aliases[x] = OtherName(x) /\ OtherName(x) \in DOMAIN w.aliases /\ x.alg # "sha512"
  BY <1>1, <1>2
<1>4. QED  BY <1>3 DEF Neat, Tidy

LEMMA LinkedNeat ==
    ASSUME NEW v, NEW w, Neat(v), NEW r, NEW d, w.aliases = v.aliases, d \in DOMAIN v.aliases,
           DOMAIN w.links = DOMAIN v.links \cup {<<r, d>>},
           w.links[<<r, d>>] # "blob" => d.of \in Manifests,
           \A key \in DOMAIN v.links : key # <<r, d>> => w.links[key] = v.links[key]
    PROVE  Neat(w)
<1>1. IsFiniteSet(DOMAIN w.links)
  BY FS_AddElement DEF Neat, Tidy
<1>2. QED  BY <1>1 DEF Neat, Tidy

LEMMA FewerNeat ==
    ASSUME NEW v, NEW w, Neat(v), w.aliases = v.aliases, DOMAIN w.links \in SUBSET DOMAIN v.links,
           \A key \in DOMAIN w.links : w.links[key] = v.links[key]
    PROVE  Neat(w)
<1>1. IsFiniteSet(DOMAIN w.links)
  BY FS_Subset DEF Neat, Tidy
<1>2. QED  BY <1>1 DEF Neat, Tidy

(* The commit of an upload pairs and links at once. *)
LEMMA PushNeat ==
    ASSUME NEW v, VolumeOK(v), Neat(v), NEW r, NEW d \in Digests,
           d.alg # "sha512", NEW newly,
           NEW w, w = CommitFinishedUpload(v, r, d, OtherName(d), newly)
    PROVE  Neat(w) /\ DOMAIN v.aliases \subseteq DOMAIN w.aliases
<1>1. OtherName(d) # d /\ IsVolume(v)
  BY OtherNameIsDigest DEF VolumeOK
<1>2. /\ IsVolume(w)
      /\ w.files = v.files
      /\ DOMAIN w.links = DOMAIN v.links \cup {<<r, d>>}
      /\ w.links[<<r, d>>] = "blob"
      /\ \A key \in DOMAIN v.links : key # <<r, d>> => w.links[key] = v.links[key]
      /\ DOMAIN w.aliases = DOMAIN v.aliases \cup {d, OtherName(d)}
      /\ w.aliases[d] = OtherName(d) /\ w.aliases[OtherName(d)] = d
      /\ \A x \in DOMAIN v.aliases : x \notin {d, OtherName(d)} => w.aliases[x] = v.aliases[x]
      /\ w.objects \subseteq v.objects \cup {d}
      /\ w.repos = v.repos \cup {r}
      /\ w.referrers = v.referrers /\ w.tags = v.tags
  BY <1>1, CommitFinishedUploadCommits
<1> DEFINE u == [v EXCEPT !.aliases = w.aliases]
<1>3. u.links = v.links /\ u.aliases = w.aliases
  BY <1>1 DEF IsVolume
<1> HIDE DEF u
<1>4. Neat(u)
  BY <1>2, <1>3, PairNeat
<1>5. Neat(w)
  BY <1>2, <1>3, <1>4, LinkedNeat
<1>6. QED  BY <1>2, <1>5

(* The commit of a manifest links what its alias step has paired. *)
LEMMA ManifestNeat ==
    ASSUME NEW v, VolumeOK(v), Neat(v), NEW r, NEW d, d \in DOMAIN v.aliases,
           d.of \in Manifests, NEW kind, NEW subjects, NEW newly,
           NEW w, w = ManifestCommit(v, r, d, kind, subjects, newly)
    PROVE  Neat(w) /\ w.aliases = v.aliases
<1>1. IsVolume(v)
  BY DEF VolumeOK
<1>2. /\ IsVolume(w)
      /\ w.files = v.files
      /\ DOMAIN w.links = DOMAIN v.links \cup {<<r, d>>}
      /\ w.links[<<r, d>>] = kind
      /\ \A key \in DOMAIN v.links : key # <<r, d>> => w.links[key] = v.links[key]
      /\ w.objects \subseteq v.objects \cup {d}
      /\ w.referrers = v.referrers \cup {<<r, s, d>> : s \in subjects}
      /\ w.repos = v.repos \cup {r}
      /\ w.aliases = v.aliases /\ w.tags = v.tags
  BY <1>1, ManifestCommitCommits
<1>3. QED  BY <1>2, LinkedNeat

(* Tags are no concern of the links. *)
LEMMA TagNeat ==
    ASSUME NEW v, VolumeOK(v), Neat(v), NEW r, NEW t, NEW d,
           NEW w, w = TagSet(v, r, t, d) \/ w = TagDelete(v, r, t)
    PROVE  Neat(w) /\ w.aliases = v.aliases
<1>1. w.links = v.links /\ w.aliases = v.aliases
  BY DEF VolumeOK, IsVolume, TagSet, TagDelete
<1>2. QED  BY <1>1, SameNeat

LEMMA PairingMovesOn ==
    ASSUME Serveable, NEW a \in Requests, NEW q, Set(a, q),
           DOMAIN vol.aliases \subseteq DOMAIN vol'.aliases, Pairing(q, vol')
    PROVE  \A b \in Requests : Pairing(req'[b], vol')
<1> TAKE b \in Requests
<1>1. req \in [Requests -> Local] /\ Pairing(req[b], vol)
  BY DEF Serveable, Inductive
<1>2. CASE b = a
  BY <1>1, <1>2 DEF Set
<1>3. CASE b # a
  <2>1. req'[b] = req[b]
    BY <1>1, <1>3 DEF Set
  <2>2. QED  BY <1>1, <2>1 DEF Pairing
<1>4. QED  BY <1>2, <1>3

LEMMA IdlePairing == \A v : Pairing(Idle, v)
BY DEF Pairing, Idle

LEMMA ServeNeat ==
    ASSUME Serveable, NEW a \in Requests, ~StoresBySha512(req[a]), Serve(a)
    PROVE  Neat(vol') /\ \A b \in Requests : Pairing(req'[b], vol')
<1> DEFINE q == req[a]
           d == q.digest
           r == q.repo
           Grown == DOMAIN vol.aliases \subseteq DOMAIN vol'.aliases
           Moves == \E p : Set(a, p) /\ Pairing(p, vol')
<1>1. /\ VolumeOK(vol) /\ IsVolume(vol) /\ TagsServed(vol, Repos) /\ Neat(vol) /\ Unbroken(vol)
      /\ q \in Local /\ InFlight(q, vol) /\ Shaped(q) /\ Pairing(q, vol)
  BY OrderlyIs DEF Serveable, Orderly, Inductive, TagsSettled, VolumeOK
<1>2. ASSUME End(a) PROVE Moves
  BY <1>2, IdlePairing DEF End
<1>3. ASSUME NEW pc, Goto(a, pc), pc \notin {"commit", "link"} PROVE Moves
  <2> DEFINE p == [q EXCEPT !.pc = pc]
  <2>1. Set(a, p)
    BY <1>3 DEF Goto
  <2>2. p.pc = pc
    BY <1>1 DEF Local
  <2> HIDE DEF p
  <2>3. Pairing(p, vol')
    BY <1>3, <2>2 DEF Pairing
  <2>4. QED  BY <2>1, <2>3
<1>4. ASSUME vol'.links = vol.links, vol'.aliases = vol.aliases PROVE Neat(vol') /\ Grown
  BY <1>1, <1>4, SameNeat
<1>5. CASE Check(a)
  <2>1. UNCHANGED vol
    BY <1>5 DEF Check
  <2>2. ASSUME NEW x PROVE Pairing([q EXCEPT !.todo = x], vol')
    <3>1. [q EXCEPT !.todo = x].pc = "check"
      BY <1>1, <1>5 DEF Local, Check, At
    <3>2. QED  BY <3>1 DEF Pairing
  <2>3. Moves
    BY <1>5, <1>2, <1>3, <2>2 DEF Check
  <2>4. QED  BY <1>4, <2>1, <2>3, PairingMovesOn
<1>6. CASE Store(a)
  <2> DEFINE new == NewlyStored(vol, d)
             pc == IF ~new THEN Stored(q) ELSE IF q.op = "push" THEN "place" ELSE "create"
             p == [q EXCEPT !.newly = new, !.pc = pc]
  <2>1. UNCHANGED vol /\ Set(a, p)
    BY <1>6 DEF Store
  <2>2. p.pc = pc /\ p.op = q.op
    BY <1>1 DEF Local
  <2>3. pc \in {"place", "create", "hard_link", "commit", "alias"}
        /\ (pc = "commit" => q.op = "push")
    BY DEF Stored
  <2> HIDE DEF p, pc
  <2>4. Pairing(p, vol')
    BY <2>2, <2>3 DEF Pairing
  <2>5. QED  BY <1>4, <2>1, <2>4, PairingMovesOn
<1>7. CASE Place(a) \/ Create(a) \/ Write(a) \/ Rename(a) \/ HardLink(a)
  <2>1. vol'.links = vol.links /\ vol'.aliases = vol.aliases
    <3>1. CASE Place(a)
      BY <1>1, <3>1, PutFilePuts DEF Place
    <3>2. CASE Create(a)
      BY <3>2 DEF Create
    <3>3. CASE Write(a)
      BY <1>1, <3>3, WriteFileWrites DEF Write
    <3>4. CASE Rename(a)
      BY <1>1, <3>4, PutFilePuts DEF Rename
    <3>5. CASE HardLink(a)
      BY <1>1, <3>5, StoreFileStores DEF HardLink, HardLinkSha256
    <3>6. QED  BY <1>7, <3>1, <3>2, <3>3, <3>4, <3>5
  <2>2. ASSUME NEW pc, Goto(a, pc), pc \notin {"commit", "link"} \/ (pc = "commit" /\ q.op = "push")
        PROVE  Moves
    <3> DEFINE p == [q EXCEPT !.pc = pc]
    <3>1. Set(a, p)
      BY <2>2 DEF Goto
    <3>2. p.pc = pc /\ p.op = q.op
      BY <1>1 DEF Local
    <3> HIDE DEF p
    <3>3. Pairing(p, vol')
      BY <2>2, <3>2 DEF Pairing
    <3>4. QED  BY <3>1, <3>3
  <2> DEFINE next == IF q.op = "push" THEN "commit" ELSE "alias"
  <2>3. Goto(a, Stored(q)) \/ Goto(a, "write") \/ Goto(a, "rename") \/ Goto(a, next) \/ End(a)
    BY <1>7 DEF Place, Create, Write, Rename, HardLink
  <2>4. /\ Stored(q) \notin {"commit", "link"} \/ (Stored(q) = "commit" /\ q.op = "push")
        /\ next \notin {"commit", "link"} \/ (next = "commit" /\ q.op = "push")
    BY DEF Stored
  <2> HIDE DEF next
  <2>5. Moves
    BY <1>2, <2>2, <2>3, <2>4
  <2>6. QED  BY <1>4, <2>1, <2>5, PairingMovesOn
<1>8. CASE Alias(a)
  <2> DEFINE p == [q EXCEPT !.pc = "commit"]
  <2>1. vol' = AliasPut(vol, d, OtherName(d)) /\ Set(a, p) /\ d \in Digests
        /\ d.alg # "sha512"
    BY <1>1, <1>8 DEF Alias, Goto, At, InFlight, Shaped, Storing, StoresBySha512
  <2>2. d # OtherName(d)
    BY <2>1, OtherNameIsDigest
  <2> HIDE DEF d
  <2>3. /\ DOMAIN vol'.aliases = DOMAIN vol.aliases \cup {d, OtherName(d)}
        /\ vol'.aliases[d] = OtherName(d) /\ vol'.aliases[OtherName(d)] = d
        /\ \A x \in DOMAIN vol.aliases :
              x \notin {d, OtherName(d)} => vol'.aliases[x] = vol.aliases[x]
        /\ vol'.links = vol.links
    BY <1>1, <2>1, <2>2, AliasPutPairs
  <2>4. Neat(vol') /\ Grown
    BY <1>1, <2>1, <2>3, PairNeat
  <2>5. p.digest = d
    BY <1>1 DEF Local, d
  <2> HIDE DEF p
  <2>6. Pairing(p, vol')
    BY <2>3, <2>5 DEF Pairing
  <2>7. QED  BY <2>1, <2>4, <2>6, PairingMovesOn
<1>9. CASE Commit(a)
  <2>1. q.pc = "commit" /\ d \in Digests /\ d.alg # "sha512"
    BY <1>1, <1>9 DEF Commit, At, InFlight, Shaped, Storing, StoresBySha512
  <2>2. Moves
    BY <1>2, <1>3, <1>9 DEF Commit
  <2>3. CASE q.op = "push"
    <3>1. vol' = CommitFinishedUpload(vol, r, d, OtherName(d), q.newly)
      BY <1>9, <2>3 DEF Commit
    <3>2. Neat(vol') /\ Grown
      BY <1>1, <2>1, <3>1, PushNeat
    <3>3. QED  BY <2>2, <3>2, PairingMovesOn
  <2>4. CASE q.op # "push"
    <3>1. /\ vol' = ManifestCommit(vol, r, d, Kind[d.of], Subject[d.of], q.newly)
          /\ d.of \in Manifests /\ d \in DOMAIN vol.aliases
      BY <1>1, <1>9, <2>1, <2>4 DEF Commit, InFlight, Pairing
    <3> HIDE DEF d, r
    <3>2. Neat(vol') /\ Grown
      BY <1>1, <3>1, ManifestNeat
    <3>3. QED  BY <2>2, <3>2, PairingMovesOn
  <2>5. QED  BY <2>3, <2>4
<1>10. CASE SetTag(a)
  <2>1. PICK t \in q.tag : vol' = TagSet(vol, r, t, d)
    BY <1>10 DEF SetTag
  <2> HIDE DEF d, r
  <2>2. Neat(vol') /\ Grown
    BY <1>1, <2>1, TagNeat
  <2>3. Moves
    BY <1>2, <1>10 DEF SetTag
  <2>4. QED  BY <2>2, <2>3, PairingMovesOn
<1>11. CASE Stat(a)
  <2>1. UNCHANGED vol
    BY <1>11 DEF Stat
  <2>2. CASE ~RequireLink(vol, q.from, d) \/ ResolveStored(vol, d) = {}
    <3>1. Moves
      BY <1>2, <1>11, <2>2 DEF Stat
    <3>2. QED  BY <1>4, <2>1, <3>1, PairingMovesOn
  <2>3. CASE RequireLink(vol, q.from, d) /\ ResolveStored(vol, d) # {}
    <3>1. PICK stored \in ResolveStored(vol, d) :
             IF q.op = "mount"
             THEN Set(a, [q EXCEPT !.pc = "link", !.digest = stored])
             ELSE Set(a, [q EXCEPT !.pc = "unlink",
                            !.unlink = IF stored = d THEN <<d>> ELSE <<stored, d>>])
      BY <1>11, <2>3 DEF Stat
    <3>2. d \in DOMAIN vol.aliases
      <4>1. CASE <<q.from, d>> \in DOMAIN vol.links
        BY <1>1, <4>1 DEF Neat
      <4>2. CASE <<q.from, d>> \notin DOMAIN vol.links
        BY <2>3, <4>2 DEF RequireLink, LinkOf, AliasOf
      <4>3. QED  BY <4>1, <4>2
    <3>3. stored \in DOMAIN vol.aliases
      <4>1. stored = d \/ stored = vol.aliases[d]
        BY DEF ResolveStored, AliasOf
      <4>2. vol.aliases[d] \in DOMAIN vol.aliases
        BY <1>1, <3>2 DEF Neat, Tidy
      <4>3. QED  BY <3>2, <4>1, <4>2
    <3>4. Moves
      <4>1. CASE q.op = "mount"
        <5> DEFINE p == [q EXCEPT !.pc = "link", !.digest = stored]
        <5>1. Set(a, p)
          BY <3>1, <4>1
        <5>2. p.pc = "link" /\ p.digest = stored
          BY <1>1 DEF Local
        <5> HIDE DEF p
        <5>3. Pairing(p, vol')
          BY <2>1, <3>3, <5>2 DEF Pairing
        <5>4. QED  BY <5>1, <5>3
      <4>2. CASE q.op # "mount"
        <5> DEFINE left == IF stored = d THEN <<d>> ELSE <<stored, d>>
                   p == [q EXCEPT !.pc = "unlink", !.unlink = left]
        <5>1. Set(a, p)
          BY <3>1, <4>2
        <5>2. p.pc = "unlink"
          BY <1>1 DEF Local
        <5> HIDE DEF p
        <5>3. Pairing(p, vol')
          BY <5>2 DEF Pairing
        <5>4. QED  BY <5>1, <5>3
      <4>3. QED  BY <4>1, <4>2
    <3>5. QED  BY <1>4, <2>1, <3>4, PairingMovesOn
  <2>4. QED  BY <2>2, <2>3
<1>12. CASE Link(a)
  <2>1. vol' = LinkAdd(vol, r, d, "blob") /\ d \in DOMAIN vol.aliases
    BY <1>1, <1>12 DEF Link, At, Pairing
  <2>2. Moves
    BY <1>2, <1>12 DEF Link
  <2> HIDE DEF d, r
  <2>3. /\ DOMAIN vol'.links = DOMAIN vol.links \cup {<<r, d>>}
        /\ vol'.links[<<r, d>>] = "blob"
        /\ \A key \in DOMAIN vol.links : key # <<r, d>> => vol'.links[key] = vol.links[key]
        /\ vol'.aliases = vol.aliases
    BY <1>1, <2>1, LinkAddLinks
  <2>4. Neat(vol') /\ Grown
    BY <1>1, <2>1, <2>3, LinkedNeat
  <2>5. QED  BY <2>2, <2>4, PairingMovesOn
<1>13. CASE Lookup(a) \/ ListTags(a) \/ ResolveTag(a) \/ Untagged(a)
  <2>1. UNCHANGED vol
    BY <1>13 DEF Lookup, ListTags, ResolveTag, Untagged
  <2>2. ASSUME NEW x, NEW pc, pc \in {"list", "untag"},
               Set(a, [q EXCEPT !.pc = pc, !.todo = x]) \/ Set(a, [q EXCEPT !.pc = pc, !.unlink = x])
        PROVE  Moves
    <3> DEFINE p == [q EXCEPT !.pc = pc, !.todo = x]
               s == [q EXCEPT !.pc = pc, !.unlink = x]
    <3>1. p.pc = pc /\ s.pc = pc
      BY <1>1 DEF Local
    <3>2. Set(a, p) \/ Set(a, s)
      BY <2>2
    <3> HIDE DEF p, s
    <3>3. Pairing(p, vol') /\ Pairing(s, vol')
      BY <2>2, <3>1 DEF Pairing
    <3>4. QED  BY <3>2, <3>3
  <2>3. CASE Lookup(a)
    <3> DEFINE x == IF AliasOf(vol, d) = {} THEN <<d>> ELSE <<d, vol.aliases[d]>>
    <3>1. End(a) \/ Set(a, [q EXCEPT !.pc = "list", !.unlink = x])
      BY <2>3 DEF Lookup
    <3> HIDE DEF x
    <3>2. QED  BY <1>2, <1>4, <2>1, <2>2, <3>1, PairingMovesOn
  <2>4. CASE ListTags(a)
    <3> DEFINE x == TagsAt(vol, r, InSeq(q.unlink))
    <3>1. Set(a, [q EXCEPT !.pc = "untag", !.todo = x])
      BY <2>4 DEF ListTags
    <3> HIDE DEF x
    <3>2. QED  BY <1>4, <2>1, <2>2, <3>1, PairingMovesOn
  <2>5. CASE ResolveTag(a)
    <3>1. End(a) \/ Set(a, [q EXCEPT !.pc = "untag", !.todo = q.tag])
      BY <2>5 DEF ResolveTag
    <3>2. Moves
      BY <1>2, <2>2, <3>1
    <3>3. QED  BY <1>4, <2>1, <3>2, PairingMovesOn
  <2>6. CASE Untagged(a)
    <3>1. Moves
      BY <1>2, <1>3, <2>6 DEF Untagged
    <3>2. QED  BY <1>4, <2>1, <3>1, PairingMovesOn
  <2>7. QED  BY <1>13, <2>3, <2>4, <2>5, <2>6
<1>14. CASE Untag(a)
  <2>1. PICK t \in q.todo : vol' = TagDelete(vol, r, t) /\ Set(a, [q EXCEPT !.todo = @ \ {t}])
    BY <1>14 DEF Untag
  <2>2. vol'.links = vol.links /\ vol'.aliases = vol.aliases
    BY <1>1, <2>1, TagDeleteDeletes
  <2> DEFINE p == [q EXCEPT !.todo = @ \ {t}]
  <2>3. p.pc = "untag"
    BY <1>1, <1>14 DEF Local, Untag, At
  <2>4. Set(a, p)
    BY <2>1
  <2> HIDE DEF p
  <2>5. Pairing(p, vol')
    BY <2>3 DEF Pairing
  <2>6. QED  BY <1>4, <2>2, <2>4, <2>5, PairingMovesOn
<1>15. CASE Unlink(a)
  <2> DEFINE left == q.unlink
             p == [q EXCEPT !.unlink = Tail(left)]
  <2>1. vol' = LinkRemove(vol, r, Head(left)) /\ (End(a) \/ Set(a, p))
    BY <1>15 DEF Unlink
  <2>2. /\ DOMAIN vol'.links \in SUBSET DOMAIN vol.links
        /\ \A key \in DOMAIN vol'.links : vol'.links[key] = vol.links[key]
        /\ vol'.aliases = vol.aliases
    <3> HIDE DEF left, r
    <3>1. QED  BY <1>1, <2>1, LinkRemoveUnlinks
  <2>3. p.pc = "unlink"
    BY <1>1, <1>15 DEF Local, Unlink, At
  <2> HIDE DEF p
  <2>4. Pairing(p, vol')
    BY <2>3 DEF Pairing
  <2>5. Neat(vol') /\ Grown
    BY <1>1, <2>2, FewerNeat
  <2>6. Moves
    BY <1>2, <2>1, <2>4
  <2>7. QED  BY <2>5, <2>6, PairingMovesOn
<1>16. QED
  BY <1>5, <1>6, <1>7, <1>8, <1>9, <1>10, <1>11, <1>12, <1>13, <1>14, <1>15 DEF Serve

LEMMA ArrivalPairs ==
    ASSUME Serveable, Arrival
    PROVE  UNCHANGED vol /\ \A b \in Requests : Pairing(req'[b], vol')
<1>1. ASSUME NEW a \in Requests, NEW q, Arrive(a, q), q.pc \notin {"commit", "link"}
      PROVE  UNCHANGED vol /\ \A b \in Requests : Pairing(req'[b], vol')
  <2>1. UNCHANGED vol /\ Set(a, q)
    BY <1>1 DEF Arrive
  <2>2. Pairing(q, vol')
    BY <1>1 DEF Pairing
  <2>3. QED  BY <2>1, <2>2, PairingMovesOn
<1>2. PICK a \in Requests, r \in Repos :
       \/ \E c \in Contents, alg \in Algorithms : Push(a, r, c, alg)
       \/ \E m \in Manifests, t \in Tags : PutByTag(a, r, m, t)
       \/ \E m \in Manifests, alg \in Algorithms : PutByDigest(a, r, m, alg)
       \/ \E from \in Repos, c \in Contents, alg \in Algorithms :
             Mount(a, r, from, Digest(alg, c))
       \/ \E m \in Manifests, alg \in Algorithms : DeleteManifest(a, r, Digest(alg, m))
       \/ \E t \in Tags : DeleteTag(a, r, t)
       \/ \E c \in Contents, alg \in Algorithms : DeleteBlob(a, r, Digest(alg, c))
  BY DEF Arrival
<1> DEFINE Fine == UNCHANGED vol /\ \A b \in Requests : Pairing(req'[b], vol')
<1> HIDE DEF Fine
<1>3. ASSUME NEW c, NEW alg, Push(a, r, c, alg) PROVE Fine
  <2> DEFINE q == [Idle EXCEPT !.op = "push", !.pc = "store", !.repo = r, !.digest = Digest(alg, c)]
  <2>1. Arrive(a, q) /\ q.pc = "store"
    BY <1>3 DEF Push, Idle
  <2> HIDE DEF q
  <2>2. QED  BY <1>1, <2>1 DEF Fine
<1>4. ASSUME NEW m, NEW t, PutByTag(a, r, m, t) PROVE Fine
  <2> DEFINE q == [Idle EXCEPT !.op = "put_tag", !.pc = "check", !.repo = r, !.tag = {t},
                               !.digest = Digest("sha256", m), !.todo = MustExist[m]]
  <2>1. Arrive(a, q) /\ q.pc = "check"
    BY <1>4 DEF PutByTag, Idle
  <2> HIDE DEF q
  <2>2. QED  BY <1>1, <2>1 DEF Fine
<1>5. ASSUME NEW m, NEW alg, PutByDigest(a, r, m, alg) PROVE Fine
  <2> DEFINE q == [Idle EXCEPT !.op = "put_digest", !.pc = "check", !.repo = r,
                               !.digest = Digest(alg, m), !.todo = MustExist[m]]
  <2>1. Arrive(a, q) /\ q.pc = "check"
    BY <1>5 DEF PutByDigest, Idle
  <2> HIDE DEF q
  <2>2. QED  BY <1>1, <2>1 DEF Fine
<1>6. ASSUME NEW from, NEW d, Mount(a, r, from, d) PROVE Fine
  <2> DEFINE q == [Idle EXCEPT !.op = "mount", !.pc = "stat", !.repo = r, !.from = from, !.digest = d]
  <2>1. Arrive(a, q) /\ q.pc = "stat"
    BY <1>6 DEF Mount, Idle
  <2> HIDE DEF q
  <2>2. QED  BY <1>1, <2>1 DEF Fine
<1>7. ASSUME NEW d, DeleteManifest(a, r, d) PROVE Fine
  <2> DEFINE q == [Idle EXCEPT !.op = "delete_manifest", !.pc = "lookup", !.repo = r, !.digest = d]
  <2>1. Arrive(a, q) /\ q.pc = "lookup"
    BY <1>7 DEF DeleteManifest, Idle
  <2> HIDE DEF q
  <2>2. QED  BY <1>1, <2>1 DEF Fine
<1>8. ASSUME NEW t, DeleteTag(a, r, t) PROVE Fine
  <2> DEFINE q == [Idle EXCEPT !.op = "delete_tag", !.pc = "resolve", !.repo = r, !.tag = {t}]
  <2>1. Arrive(a, q) /\ q.pc = "resolve"
    BY <1>8 DEF DeleteTag, Idle
  <2> HIDE DEF q
  <2>2. QED  BY <1>1, <2>1 DEF Fine
<1>9. ASSUME NEW d, DeleteBlob(a, r, d) PROVE Fine
  <2> DEFINE q == [Idle EXCEPT !.op = "delete_blob", !.pc = "stat", !.repo = r, !.from = r,
                               !.digest = d]
  <2>1. Arrive(a, q) /\ q.pc = "stat"
    BY <1>9 DEF DeleteBlob, Idle
  <2> HIDE DEF q
  <2>2. QED  BY <1>1, <2>1 DEF Fine
<1>10. Fine
  BY <1>2, <1>3, <1>4, <1>5, <1>6, <1>7, <1>8, <1>9
<1>11. QED  BY <1>10 DEF Fine

LEMMA ServingKeepsOrder ==
    ASSUME Serveable, FilesOK, \A a \in Requests : ~StoresBySha512(req[a]), wild' = {},
           Arrival \/ (\E a \in Requests : Serve(a)) \/ Kill
    PROVE  Serveable'
<1>1. [Next]_vars /\ Inductive /\ TagsSettled /\ Orderly(vol)
  BY DEF Next, Serveable
<1>2. Inductive' /\ TagsSettled'
  BY <1>1, StepKeeps, StepSettles
<1>3. Neat(vol') /\ \A a \in Requests : Pairing(req'[a], vol')
  <2>1. Neat(vol)
    BY <1>1, OrderlyIs
  <2>2. CASE Arrival
    <3>1. vol' = vol
      BY <2>2, ArrivalPairs
    <3>2. QED  BY <2>1, <2>2, <3>1, ArrivalPairs
  <2>3. CASE \E a \in Requests : Serve(a)
    BY <2>3, ServeNeat
  <2>4. CASE Kill
    <3>1. vol' = vol /\ \A a \in Requests : req'[a] = Idle
      BY <2>4 DEF Kill
    <3>2. QED  BY <2>1, <3>1, IdlePairing
  <2>5. QED  BY <2>2, <2>3, <2>4
<1>4. VolumeOK(vol') /\ TagsServed(vol', Repos)
  BY <1>2 DEF Inductive, TagsSettled, Tame
<1>5. Orderly(vol')
  BY <1>3, <1>4, OrderlyIs
<1>6. QED  BY <1>2, <1>3, <1>5 DEF Serveable

-----------------------------------------------------------------------------
(* The steps of a collection, on a volume v with mark M. *)

(* A tag's manifest is a root. *)
LEMMA TagsAreMarked ==
    ASSUME NEW v, Sound(v), NEW all, NEW key \in DOMAIN v.tags
    PROVE  /\ <<key[1], v.tags[key]>> \in Walked(v, all)
           /\ v.tags[key] \in Marked(v, all)
<1> DEFINE at == <<key[1], v.tags[key]>>
<1>0. key[1] \in Repos
  BY DEF Sound, TypedVolume
<1>1. at \in DOMAIN v.links /\ v.links[at] # "blob"
  BY <1>0 DEF Sound, TagsServed
<1>2. v.tags[key] \in TagTargets(v, key[1]) /\ v.tags[key] \in Names(v, v.tags[key])
  BY DEF TagTargets, Names
<1>3. at \in Roots(v, all)
  BY <1>1, <1>2 DEF Roots, ManifestLinks
<1>4. at \in Walked(v, all) /\ Found(v, at) \subseteq Marked(v, all)
  BY <1>3, MarkFacts
<1>5. v.tags[key] \in Found(v, at)
  BY DEF Found
<1>6. QED  BY <1>4, <1>5

LEMMA UnmarkedNames ==
    ASSUME NEW v, Sound(v), NEW all, NEW d, d \notin Marked(v, all)
    PROVE  Names(v, d) \cap Marked(v, all) = {}
<1>1. ~IsMarked(v, all, d)
  BY MarkFacts
<1>2. QED  BY <1>1 DEF IsMarked

(* Removing the link of a digest that is not marked. *)
Unlinked(v, w, r, d) ==
    /\ IsVolume(w)
    /\ DOMAIN w.links = DOMAIN v.links \ {<<r, d>>}
    /\ \A key \in DOMAIN w.links : w.links[key] = v.links[key]
    /\ w.referrers = {row \in v.referrers : ~(row[1] = r /\ row[3] = d)}
    /\ w.files = v.files /\ w.objects = v.objects /\ w.aliases = v.aliases /\ w.repos = v.repos
    /\ DOMAIN w.tags = DOMAIN v.tags
    /\ \A key \in DOMAIN v.tags : w.tags[key] = v.tags[key]

LEMMA RemoveUnlinks ==
    ASSUME NEW v, Sound(v), NEW r, NEW d, NEW w, w = LinkRemove(v, r, d)
    PROVE  Unlinked(v, w, r, d)
<1>0. IsVolume(v)
  BY DEF Sound
<1>1. /\ IsVolume(w)
      /\ DOMAIN w.links = DOMAIN v.links \ {<<r, d>>}
      /\ \A key \in DOMAIN w.links : w.links[key] = v.links[key]
      /\ w.referrers = {row \in v.referrers : ~(row[1] = r /\ row[3] = d)}
      /\ w.files = v.files /\ w.objects = v.objects /\ w.aliases = v.aliases
      /\ w.repos = v.repos /\ w.tags = v.tags
  BY <1>0, LinkRemoveUnlinks
<1>2. QED  BY <1>1 DEF Unlinked

(* manifest_delete of what is not marked finds no tag to delete. *)
SameTables(v, u) ==
    /\ IsVolume(u)
    /\ u.links = v.links /\ u.referrers = v.referrers /\ u.files = v.files
    /\ u.objects = v.objects /\ u.aliases = v.aliases /\ u.repos = v.repos
    /\ DOMAIN u.tags = DOMAIN v.tags
    /\ \A key \in DOMAIN v.tags : u.tags[key] = v.tags[key]

Emptied(v, r, d) ==
    [v EXCEPT !.tags = Drop(@, {k \in DOMAIN @ : k[1] = r /\ @[k] \in Names(v, d)})]

LEMMA NothingToUntag ==
    ASSUME NEW v, Sound(v), NEW all, NEW r, NEW d, d \notin Marked(v, all)
    PROVE  SameTables(v, Emptied(v, r, d))
<1> DEFINE gone == {k \in DOMAIN v.tags : k[1] = r /\ v.tags[k] \in Names(v, d)}
           u == Emptied(v, r, d)
<1>1. gone = {}
  BY TagsAreMarked, UnmarkedNames
<1>2. u = [v EXCEPT !.tags = Drop(v.tags, gone)]
  BY DEF Emptied
<1> HIDE DEF u
<1> HIDE DEF gone
<1>3. /\ DOMAIN Drop(v.tags, gone) = DOMAIN v.tags
      /\ \A k \in DOMAIN v.tags : Drop(v.tags, gone)[k] = v.tags[k]
  BY <1>1 DEF Drop
<1>4. /\ IsVolume(u) /\ u.tags = Drop(v.tags, gone)
      /\ u.links = v.links /\ u.referrers = v.referrers /\ u.files = v.files
      /\ u.objects = v.objects /\ u.aliases = v.aliases /\ u.repos = v.repos
  BY <1>2 DEF Sound, IsVolume
<1>5. SameTables(v, u)
  BY <1>3, <1>4 DEF SameTables
<1>6. QED  BY <1>5 DEF u

LEMMA DeleteUnlinks ==
    ASSUME NEW v, NEW u, SameTables(v, u), NEW r, NEW d, NEW w, w = LinkRemove(u, r, d)
    PROVE  Unlinked(v, w, r, d)
<1>0. IsVolume(u)
  BY DEF SameTables
<1>1. /\ IsVolume(w)
      /\ DOMAIN w.links = DOMAIN u.links \ {<<r, d>>}
      /\ \A key \in DOMAIN w.links : w.links[key] = u.links[key]
      /\ w.referrers = {row \in u.referrers : ~(row[1] = r /\ row[3] = d)}
      /\ w.files = u.files /\ w.objects = u.objects /\ w.aliases = u.aliases
      /\ w.repos = u.repos /\ w.tags = u.tags
  BY <1>0, LinkRemoveUnlinks
<1>2. QED  BY <1>1 DEF Unlinked, SameTables

LEMMA UnlinkSpares ==
    ASSUME NEW v, Sound(v), NEW all, NEW r, NEW d, d \notin Marked(v, all),
           NEW w, Unlinked(v, w, r, d)
    PROVE  Sound(w) /\ Spares(v, w, Marked(v, all))
<1> DEFINE M == Marked(v, all)
<1>1. /\ IsVolume(w)
      /\ DOMAIN w.links = DOMAIN v.links \ {<<r, d>>}
      /\ \A key \in DOMAIN w.links : w.links[key] = v.links[key]
      /\ w.referrers = {row \in v.referrers : ~(row[1] = r /\ row[3] = d)}
      /\ w.files = v.files /\ w.objects = v.objects /\ w.aliases = v.aliases /\ w.repos = v.repos
      /\ DOMAIN w.tags = DOMAIN v.tags
      /\ \A key \in DOMAIN v.tags : w.tags[key] = v.tags[key]
  BY DEF Unlinked
<1>2. \A key \in DOMAIN v.tags : v.tags[key] \in M
  BY TagsAreMarked
<1> HIDE DEF M
<1>3. d \notin M
  BY DEF M
<1>4. Spares(v, w, M)
  BY <1>1, <1>3 DEF Spares
<1>5. TypedVolume(w)
  BY <1>1 DEF Sound, TypedVolume
<1>6. TagsServed(w, Repos)
  BY <1>1, <1>2, <1>3 DEF Sound, TagsServed
<1>7. Tidy(w)
  <2>1. IsFiniteSet(DOMAIN w.links)
    BY <1>1, FS_Subset DEF Sound, Tidy
  <2>2. QED  BY <1>1, <2>1 DEF Sound, Tidy
<1>8. \A row \in w.referrers : <<row[1], row[3]>> \in DOMAIN w.links
  BY <1>1 DEF Sound
<1>9. QED  BY <1>1, <1>4, <1>5, <1>6, <1>7, <1>8 DEF Sound, M

(* Deleting the file of one. *)
LEMMA SweepSpares ==
    ASSUME NEW v, Sound(v), NEW M, NEW d, d \notin M,
           NEW w, w = BlobDelete(v, d)
    PROVE  /\ Sound(w) /\ Spares(v, w, M)
           /\ w.objects = v.objects /\ w.links = v.links /\ w.aliases = v.aliases
           /\ DOMAIN w.files = DOMAIN v.files \ {d}
<1>1. /\ IsVolume(w)
      /\ DOMAIN w.files = DOMAIN v.files \ {d}
      /\ \A x \in DOMAIN w.files : w.files[x] = v.files[x]
      /\ w.objects = v.objects /\ w.links = v.links /\ w.aliases = v.aliases
      /\ w.referrers = v.referrers /\ w.repos = v.repos /\ w.tags = v.tags
  BY DEF Sound, IsVolume, BlobDelete, Drop
<1>2. Spares(v, w, M)
  BY <1>1 DEF Spares
<1>3. TypedVolume(w) /\ TagsServed(w, Repos) /\ Tidy(w)
  BY <1>1 DEF Sound, TypedVolume, TagsServed, Tidy
<1>4. QED  BY <1>1, <1>2, <1>3 DEF Sound

(* Forgetting one: its names go together. *)
LEMMA ForgetSpares ==
    ASSUME NEW v, Sound(v), NEW all, NEW d, d \notin Marked(v, all),
           NEW w, w = ObjectForget(v, d)
    PROVE  /\ Sound(w) /\ Spares(v, w, Marked(v, all))
           /\ w.objects = v.objects \ {d} /\ w.files = v.files
           /\ DOMAIN w.links = {key \in DOMAIN v.links : key[2] # d}
           /\ DOMAIN w.aliases = DOMAIN v.aliases \ Names(v, d)
<1> DEFINE M == Marked(v, all)
           names == Names(v, d)
           pointsBack == {a \in AliasOf(v, d) : AliasOf(v, a) = {d}}
<1>1. names \cap M = {}
  BY UnmarkedNames
<1>2. \A key \in DOMAIN v.tags : v.tags[key] \in M
  BY TagsAreMarked
<1>3. \A x \in DOMAIN v.aliases :
         /\ x \in Digests /\ v.aliases[x] = OtherName(x) /\ OtherName(x) \in DOMAIN v.aliases
         /\ OtherName(OtherName(x)) = x
  BY OtherNameTwice DEF Sound, Tidy, TypedVolume
<1>4. (DOMAIN v.aliases) \cap names = (DOMAIN v.aliases) \cap ({d} \cup pointsBack)
  <2>1. CASE d \in DOMAIN v.aliases
    <3>1. AliasOf(v, d) = {OtherName(d)} /\ AliasOf(v, OtherName(d)) = {d}
      BY <1>3, <2>1 DEF AliasOf
    <3>2. QED  BY <3>1 DEF Names
  <2>2. CASE d \notin DOMAIN v.aliases
    <3>1. AliasOf(v, d) = {}
      BY <2>2 DEF AliasOf
    <3>2. QED  BY <3>1 DEF Names
  <2>3. QED  BY <2>1, <2>2
<1>5. /\ IsVolume(w)
      /\ w.objects = v.objects \ {d}
      /\ w.links = Drop(v.links, {key \in DOMAIN v.links : key[2] = d})
      /\ w.referrers = {row \in v.referrers : row[2] \notin names /\ row[3] \notin names}
      /\ w.aliases = Drop(v.aliases, {d} \cup pointsBack)
      /\ w.files = v.files /\ w.repos = v.repos /\ w.tags = v.tags
  BY DEF Sound, IsVolume, ObjectForget
<1>6. /\ DOMAIN w.links = {key \in DOMAIN v.links : key[2] # d}
      /\ \A key \in DOMAIN w.links : w.links[key] = v.links[key]
      /\ DOMAIN w.aliases = DOMAIN v.aliases \ names
      /\ \A x \in DOMAIN w.aliases : w.aliases[x] = v.aliases[x]
  <2> HIDE DEF names, pointsBack
  <2>1. QED  BY <1>4, <1>5 DEF Drop
<1>7. d \in names
  BY DEF Names
<1>8. \A x \in DOMAIN v.aliases : OtherName(x) \in names => x \in names
  <2>1. ASSUME NEW x \in DOMAIN v.aliases, OtherName(x) \in names PROVE x \in names
    <3>1. Names(v, OtherName(x)) = names
      BY <2>1, NamesFacts
    <3>2. x \in Names(v, OtherName(x))
      BY <1>3, <2>1 DEF Names, AliasOf
    <3>3. QED  BY <3>1, <3>2
  <2>2. QED  BY <2>1
<1> HIDE DEF M, names
<1>9. Spares(v, w, M)
  BY <1>1, <1>5, <1>6, <1>7 DEF Spares
<1>10. TypedVolume(w)
  BY <1>5, <1>6 DEF Sound, TypedVolume
<1>11. TagsServed(w, Repos)
  <2>1. TagsServed(v, Repos)
    BY DEF Sound
  <2>2. ASSUME NEW key \in DOMAIN w.tags
        PROVE  w.tags[key].of \in Manifests /\ <<key[1], w.tags[key]>> \in DOMAIN w.links
    <3>1. w.tags[key] = v.tags[key] /\ key \in DOMAIN v.tags /\ v.tags[key] # d
      BY <1>1, <1>2, <1>5, <1>7, <2>2
    <3>2. v.tags[key].of \in Manifests /\ <<key[1], v.tags[key]>> \in DOMAIN v.links
      BY <2>1, <3>1 DEF TagsServed, Sound, TypedVolume
    <3>3. QED  BY <1>6, <3>1, <3>2
  <2>3. QED  BY <1>5, <1>6, <2>1, <2>2 DEF TagsServed
<1>12. Tidy(w)
  <2>1. IsFiniteSet(DOMAIN w.links)
    BY <1>6, FS_Subset DEF Sound, Tidy
  <2>2. QED  BY <1>3, <1>6, <1>8, <2>1 DEF Sound, Tidy
<1>13. \A row \in w.referrers : <<row[1], row[3]>> \in DOMAIN w.links
  BY <1>5, <1>6, <1>7 DEF Sound
<1>14. QED  BY <1>5, <1>6, <1>9, <1>10, <1>11, <1>12, <1>13 DEF Sound, M, names

(* What nothing leads to stays so when more is removed. *)
LEMMA LooseStays ==
    ASSUME NEW v, NEW w, NEW M, Spares(v, w, M), NEW d, Loose(v, d)
    PROVE  Loose(w, d)
<1>1. /\ \A x : Names(w, x) \subseteq Names(v, x)
      /\ ManifestLinks(w) \subseteq ManifestLinks(v)
  BY SparesNames
<1>2. w.referrers \subseteq v.referrers
  BY DEF Spares
<1>3. \A key : Found(w, key) \subseteq Found(v, key)
  BY <1>1, <1>2 DEF Found
<1>4. QED  BY <1>1, <1>3 DEF Loose

(* Once every linked manifest is marked, only what nothing leads to is not. *)
LEMMA UnmarkedIsLoose ==
    ASSUME NEW v, Sound(v), NEW all, UntaggedLinks(v, all) = {},
           NEW d, d \notin Marked(v, all)
    PROVE  Loose(v, d)
<1>1. ASSUME NEW key \in ManifestLinks(v) PROVE Found(v, key) \subseteq Marked(v, all)
  <2>1. IsMarked(v, all, key[2])
    BY DEF UntaggedLinks
  <2>2. QED  BY <2>1, MarkFacts
<1>2. Names(v, d) \cap Marked(v, all) = {}
  BY UnmarkedNames
<1>3. QED  BY <1>1, <1>2 DEF Loose

(* A removal that spares the mark leaves the volume sound, the mark the same *)
(* and, in the sweep, breaks only links that nothing leads to.               *)
LEMMA RemovalFacts ==
    ASSUME NEW v, Sound(v), Loosened(v), NEW all,
           NEW w, Sound(w), Spares(v, w, Marked(v, all)),
           (w.files = v.files /\ w.aliases = v.aliases) \/ UntaggedLinks(v, all) = {}
    PROVE  /\ Loosened(w) /\ Marked(w, all) = Marked(v, all)
           /\ UntaggedLinks(w, all) = UntaggedLinks(v, all) \cap DOMAIN w.links
           /\ StaleLinks(w, all) = StaleLinks(v, all) \cap DOMAIN w.links
           /\ Doomed(w, all) = w.objects \ Marked(v, all)
<1> DEFINE M == Marked(v, all)
<1>1. Marked(w, all) = M
  BY MarkStays
<1>2. /\ \A d : IsMarked(v, all, d) <=> d \in M
      /\ \A d : IsMarked(w, all, d) <=> d \in M
  BY <1>1, MarkFacts
<1>3. \A d : d \notin M /\ UntaggedLinks(v, all) = {} => Loose(v, d)
  BY UnmarkedIsLoose
<1> HIDE DEF M
<1>4. Spares(v, w, M)
  BY DEF M
<1>5. /\ DOMAIN w.links \subseteq DOMAIN v.links
      /\ \A key \in DOMAIN w.links : w.links[key] = v.links[key]
      /\ DOMAIN v.files \cap M \subseteq DOMAIN w.files
      /\ DOMAIN v.aliases \cap M \subseteq DOMAIN w.aliases
  BY <1>4 DEF Spares
<1>6. Loosened(w)
  <2>1. ASSUME NEW key \in DOMAIN w.links, Broken(w, key) PROVE Loose(v, key[2])
    <3>1. CASE Broken(v, key)
      BY <1>5, <2>1, <3>1 DEF Loosened
    <3>2. CASE ~Broken(v, key)
      <4>1. key[2] \notin M
        BY <1>5, <2>1, <3>2 DEF Broken
      <4>2. UntaggedLinks(v, all) = {}
        BY <2>1, <3>2 DEF Broken
      <4>3. QED  BY <1>3, <4>1, <4>2
    <3>3. QED  BY <3>1, <3>2
  <2>2. QED  BY <1>4, <2>1, LooseStays DEF Loosened
<1>7. ManifestLinks(w) = ManifestLinks(v) \cap DOMAIN w.links
  BY <1>5 DEF ManifestLinks
<1>8. UntaggedLinks(w, all) = UntaggedLinks(v, all) \cap DOMAIN w.links
  BY <1>2, <1>7 DEF UntaggedLinks
<1>9. StaleLinks(w, all) = StaleLinks(v, all) \cap DOMAIN w.links
  BY <1>2, <1>5, <1>7 DEF StaleLinks
<1>10. QED  BY <1>1, <1>6, <1>8, <1>9 DEF Doomed, M

(* Links that are unbroken stay so while files and aliases do. *)
LEMMA UnbrokenStays ==
    ASSUME NEW v, NEW w, Unbroken(v), DOMAIN w.links \subseteq DOMAIN v.links,
           w.files = v.files, w.aliases = v.aliases
    PROVE  Unbroken(w)
BY DEF Unbroken, Broken

(* What a step of the stopped server has to show. *)
LEMMA Collected ==
    ASSUME Collectable, ~up, UNCHANGED <<up, req, wild>>, GcShape', Sound(vol'), Loosened(vol'),
           gc'.pc \in {"idle", "delete", "delete_alias", "failed"} /\ ~gc'.interrupted
              => Unbroken(vol'),
           gc'.pc = "done" => Clean(vol', gc'.all),
           gc'.pc \in Running => Listing(vol', gc')
    PROVE  Collectable'
<1>1. Quiet /\ up \in BOOLEAN
  BY DEF Collectable
<1>2. Quiet' /\ up' \in BOOLEAN /\ ~up'
  BY <1>1 DEF Quiet, Disturbed
<1>3. QED  BY <1>2 DEF Collectable

(* The record of the collection, updated. *)
LEMMA GcShapeFacts ==
    ASSUME GcShape, NEW pc, NEW untagged, NEW doomed, NEW stale, NEW names, NEW all, NEW interrupted,
           pc \in {"idle", "done", "failed"} \cup Running, all \in BOOLEAN, interrupted \in BOOLEAN,
           gc' = [pc |-> pc, untagged |-> untagged, doomed |-> doomed, stale |-> stale,
                  names |-> names, all |-> all, interrupted |-> interrupted]
    PROVE  /\ GcShape'
           /\ gc'.pc = pc /\ gc'.untagged = untagged /\ gc'.doomed = doomed /\ gc'.stale = stale
           /\ gc'.names = names /\ gc'.all = all /\ gc'.interrupted = interrupted
BY DEF GcShape

(* The backfill adds rows to OBJECTS and nothing else. *)
LEMMA BackfillFacts ==
    ASSUME NEW v, Sound(v), NEW w, w = ObjectsBackfill(v)
    PROVE  /\ Sound(w) /\ (Loosened(v) => Loosened(w)) /\ (Unbroken(v) => Unbroken(w))
           /\ w.files = v.files /\ w.links = v.links /\ w.aliases = v.aliases
           /\ w.referrers = v.referrers /\ w.tags = v.tags
<1>1. IsVolume(v)
  BY DEF Sound
<1>2. /\ IsVolume(w)
      /\ w.files = v.files /\ w.links = v.links /\ w.aliases = v.aliases
      /\ w.referrers = v.referrers /\ w.tags = v.tags /\ w.repos = v.repos
      /\ w.objects \subseteq v.objects \cup {key[2] : key \in DOMAIN v.links}
  <2>1. CASE v.recorded
    BY <1>1, <2>1 DEF ObjectsBackfill
  <2>2. CASE ~v.recorded
    <3>1. w = [v EXCEPT !.objects = @ \cup {key[2] : key \in DOMAIN v.links}, !.recorded = TRUE]
      BY <2>2 DEF ObjectsBackfill
    <3>2. QED  BY <1>1, <3>1 DEF IsVolume
  <2>3. QED  BY <2>1, <2>2
<1>3. TypedVolume(w)
  <2>1. TypedVolume(v)
    BY DEF Sound
  <2>2. \A key \in DOMAIN v.links : key[2] \in Digests
    BY <2>1 DEF TypedVolume
  <2>3. QED  BY <1>2, <2>1, <2>2 DEF TypedVolume
<1>4. TagsServed(w, Repos) /\ Tidy(w)
  BY <1>2 DEF Sound, TagsServed, Tidy
<1>5. Sound(w)
  BY <1>2, <1>3, <1>4 DEF Sound
<1>6. \A key : Broken(w, key) <=> Broken(v, key)
  BY <1>2 DEF Broken
<1>7. \A d : Loose(v, d) => Loose(w, d)
  BY <1>2 DEF Loose, ManifestLinks, Names, AliasOf, Found
<1>8. QED  BY <1>2, <1>5, <1>6, <1>7 DEF Loosened, Unbroken

(* Mark lists exactly what it did not find. *)
LEMMA CollectKeeps ==
    ASSUME Collectable, NEW all \in BOOLEAN, Collect(all)
    PROVE  Collectable'
<1> DEFINE M == Marked(vol', all)
<1>1. /\ GcShape /\ Sound(vol) /\ Loosened(vol) /\ ~up /\ gc.pc = "idle"
      /\ ~gc.interrupted => Unbroken(vol)
  BY DEF Collectable, Collect, GcAt
<1>2. vol' = ObjectsBackfill(vol) /\ UNCHANGED <<up, req, wild>>
  BY DEF Collect, Keep, Still
<1>3. Sound(vol') /\ Loosened(vol') /\ (Unbroken(vol) => Unbroken(vol'))
  BY <1>1, <1>2, BackfillFacts
<1>4. CASE MarkSucceeds(vol', all)
  <2>1. gc' = [gc EXCEPT !.pc = "delete", !.all = all, !.untagged = UntaggedLinks(vol', all),
                         !.doomed = Doomed(vol', all), !.stale = StaleLinks(vol', all)]
    BY <1>2, <1>4 DEF Collect
  <2>2. gc' = [pc |-> "delete", untagged |-> UntaggedLinks(vol', all),
               doomed |-> Doomed(vol', all), stale |-> StaleLinks(vol', all),
               names |-> gc.names, all |-> all, interrupted |-> gc.interrupted]
    BY <1>1, <2>1 DEF GcShape
  <2>3. /\ GcShape' /\ gc'.pc = "delete" /\ gc'.untagged = UntaggedLinks(vol', all)
        /\ gc'.doomed = Doomed(vol', all) /\ gc'.stale = StaleLinks(vol', all)
        /\ gc'.all = all /\ gc'.interrupted = gc.interrupted
    <3>1. gc.interrupted \in BOOLEAN
      BY <1>1 DEF GcShape
    <3>2. QED  BY <1>1, <2>2, <3>1, GcShapeFacts DEF Running
  <2>4. \A d : IsMarked(vol', all, d) <=> d \in M
    BY <1>3, MarkFacts
  <2>5. \A key \in ManifestLinks(vol') : key[2].of \in Manifests
    BY <1>3 DEF Sound, Tidy, ManifestLinks
  <2> HIDE DEF M
  <2>6. /\ \A key \in UntaggedLinks(vol', all) \cup StaleLinks(vol', all) : key[2] \notin M
        /\ \A key \in UntaggedLinks(vol', all) : key[2].of \in Manifests
    BY <2>4, <2>5 DEF UntaggedLinks, StaleLinks
  <2>7. Doomed(vol', all) \cap M = {}
    BY DEF Doomed, M
  <2>8. Listing(vol', gc')
    <3>1. M = Marked(vol', gc'.all)
      BY <2>3 DEF M
    <3>2. QED  BY <2>3, <2>6, <2>7, <3>1 DEF Listing
  <2>9. QED  BY <1>1, <1>2, <1>3, <2>3, <2>8, Collected
<1>5. CASE ~MarkSucceeds(vol', all)
  <2>1. gc' = [gc EXCEPT !.pc = "failed"]
    BY <1>2, <1>5 DEF Collect
  <2>2. GcShape' /\ gc'.pc = "failed" /\ gc'.interrupted = gc.interrupted
    BY <1>1, <2>1 DEF GcShape
  <2>3. QED  BY <1>1, <1>2, <1>3, <2>2, Collected DEF Running
<1>6. QED  BY <1>4, <1>5

(* Removing links: an unmarked manifest, its alias, a stale layer link. *)
LEMMA UnlinkFacts ==
    ASSUME NEW v, Sound(v), Loosened(v), NEW all, NEW r, NEW d,
           d \notin Marked(v, all), NEW w, Unlinked(v, w, r, d)
    PROVE  /\ Sound(w) /\ Loosened(w) /\ (Unbroken(v) => Unbroken(w))
           /\ Marked(w, all) = Marked(v, all)
           /\ UntaggedLinks(w, all) = UntaggedLinks(v, all) \ {<<r, d>>}
           /\ StaleLinks(w, all) = StaleLinks(v, all) \ {<<r, d>>}
           /\ Doomed(w, all) = Doomed(v, all)
<1>0. Sound(w) /\ Spares(v, w, Marked(v, all))
  BY UnlinkSpares
<1>1. /\ w.objects = v.objects /\ w.files = v.files /\ w.aliases = v.aliases
      /\ DOMAIN w.links = DOMAIN v.links \ {<<r, d>>}
  BY DEF Unlinked
<1>2. /\ Loosened(w) /\ Marked(w, all) = Marked(v, all)
      /\ UntaggedLinks(w, all) = UntaggedLinks(v, all) \cap DOMAIN w.links
      /\ StaleLinks(w, all) = StaleLinks(v, all) \cap DOMAIN w.links
      /\ Doomed(w, all) = w.objects \ Marked(v, all)
  BY <1>0, <1>1, RemovalFacts
<1>3. UntaggedLinks(v, all) \subseteq DOMAIN v.links /\ StaleLinks(v, all) \subseteq DOMAIN v.links
  BY DEF UntaggedLinks, StaleLinks, ManifestLinks
<1>4. Doomed(v, all) = v.objects \ Marked(v, all)
  BY DEF Doomed
<1>5. Unbroken(v) => Unbroken(w)
  BY <1>1, UnbrokenStays
<1>6. QED  BY <1>0, <1>1, <1>2, <1>3, <1>4, <1>5

(* A key of the links, rebuilt from its parts. *)
LEMMA LinkKeys ==
    ASSUME NEW v, Sound(v)
    PROVE  \A key \in DOMAIN v.links : key = <<key[1], key[2]>>
BY DEF Sound, TypedVolume

LEMMA GcDeleteKeeps ==
    ASSUME Collectable, GcDelete
    PROVE  Collectable'
<1> DEFINE M == Marked(vol, gc.all)
<1>1. /\ GcShape /\ Sound(vol) /\ Loosened(vol) /\ ~up /\ gc.pc = "delete" /\ UNCHANGED <<up, req, wild>>
      /\ ~gc.interrupted => Unbroken(vol)
      /\ Listing(vol, gc)
  BY DEF Collectable, GcDelete, GcAt, GcKeep, Keep, Still, Running
<1> DEFINE Others(key) == {<<key[1], d>> : d \in Names(vol, key[2]) \ {key[2]}}
<1>2. PICK key \in gc.untagged :
         IF LinkedAsManifest(vol, key[1], key[2])
         THEN /\ vol' = LinkRemove(Emptied(vol, key[1], key[2]), key[1], key[2])
              /\ gc' = [gc EXCEPT !.untagged = @ \ {key}, !.pc = "delete_alias",
                          !.names = Others(key)]
         ELSE /\ gc' = [gc EXCEPT !.pc = "failed"]
              /\ UNCHANGED vol
  BY DEF GcDelete, Emptied
<1>3. CASE ~LinkedAsManifest(vol, key[1], key[2])
  <2>1. gc' = [gc EXCEPT !.pc = "failed"] /\ vol' = vol
    BY <1>2, <1>3
  <2>2. GcShape' /\ gc'.pc = "failed" /\ gc'.interrupted = gc.interrupted
    BY <1>1, <2>1 DEF GcShape
  <2>3. Sound(vol') /\ Loosened(vol') /\ (Unbroken(vol) => Unbroken(vol'))
    BY <1>1, <2>1
  <2>4. QED  BY <1>1, <2>2, <2>3, Collected DEF Running
<1>4. CASE LinkedAsManifest(vol, key[1], key[2])
  <2> DEFINE r == key[1]
             d == key[2]
  <2>1. d \notin M /\ d.of \in Manifests
    BY <1>1 DEF Listing
  <2>2. Unlinked(vol, vol', r, d)
    <3> DEFINE u == Emptied(vol, r, d)
    <3>1. SameTables(vol, u)
      BY <1>1, <2>1, NothingToUntag
    <3>2. vol' = LinkRemove(u, r, d)
      BY <1>2, <1>4
    <3> HIDE DEF u, r, d
    <3>3. QED  BY <3>1, <3>2, DeleteUnlinks
  <2>3. /\ Sound(vol') /\ Loosened(vol') /\ (Unbroken(vol) => Unbroken(vol'))
        /\ Marked(vol', gc.all) = M
        /\ UntaggedLinks(vol', gc.all) = UntaggedLinks(vol, gc.all) \ {<<r, d>>}
        /\ StaleLinks(vol', gc.all) = StaleLinks(vol, gc.all) \ {<<r, d>>}
        /\ Doomed(vol', gc.all) = Doomed(vol, gc.all)
    <3> HIDE DEF r, d
    <3>1. QED  BY <1>1, <2>1, <2>2, UnlinkFacts
  <2>4. /\ GcShape' /\ gc'.pc = "delete_alias" /\ gc'.untagged = gc.untagged \ {key}
        /\ gc'.doomed = gc.doomed /\ gc'.stale = gc.stale /\ gc'.names = Others(key)
        /\ gc'.all = gc.all /\ gc'.interrupted = gc.interrupted
    <3> DEFINE o == Others(key)
    <3>1. gc' = [gc EXCEPT !.untagged = @ \ {key}, !.pc = "delete_alias", !.names = o]
      BY <1>2, <1>4
    <3> HIDE DEF o
    <3>2. /\ GcShape' /\ gc'.pc = "delete_alias" /\ gc'.untagged = gc.untagged \ {key}
          /\ gc'.doomed = gc.doomed /\ gc'.stale = gc.stale /\ gc'.names = o
          /\ gc'.all = gc.all /\ gc'.interrupted = gc.interrupted
      BY <1>1, <3>1 DEF GcShape, Running
    <3>3. QED  BY <3>2 DEF o
  <2>5. UntaggedLinks(vol', gc.all) \subseteq gc.untagged \ {key}
    <3>1. UntaggedLinks(vol, gc.all) \subseteq gc.untagged
      BY <1>1 DEF Listing
    <3>2. UntaggedLinks(vol, gc.all) \subseteq DOMAIN vol.links
      BY DEF UntaggedLinks, ManifestLinks
    <3>3. \A k \in UntaggedLinks(vol, gc.all) : k = <<k[1], k[2]>>
      BY <1>1, <3>2, LinkKeys
    <3>4. QED  BY <2>3, <3>1, <3>3
  <2>6. \A k \in Others(key) : k[2] \notin M /\ k[2].of \in Manifests
    <3>1. Names(vol, d) \cap M = {}
      BY <1>1, <2>1, UnmarkedNames
    <3>2. \A x \in Names(vol, d) : x.of = d.of
      BY <1>1 DEF Sound, TagsServed, Names, AliasOf
    <3>3. QED  BY <2>1, <3>1, <3>2
  <2>7. Listing(vol', gc')
    <3> HIDE DEF Others, M, r, d
    <3>1. /\ \A k \in gc.untagged \cup gc.stale : k[2] \notin M
          /\ \A k \in gc.untagged : k[2].of \in Manifests
          /\ gc.doomed \cap M = {}
          /\ StaleLinks(vol, gc.all) \subseteq gc.stale
          /\ Doomed(vol, gc.all) \subseteq gc.doomed
      BY <1>1 DEF Listing, M
    <3>2. Marked(vol', gc'.all) = M
      BY <2>3, <2>4
    <3>3. QED  BY <2>3, <2>4, <2>5, <2>6, <3>1, <3>2 DEF Listing
  <2>8. QED  BY <1>1, <2>3, <2>4, <2>7, Collected
<1>5. QED  BY <1>3, <1>4

LEMMA GcDeleteAliasKeeps ==
    ASSUME Collectable, GcDeleteAlias
    PROVE  Collectable'
<1> DEFINE M == Marked(vol, gc.all)
<1>1. /\ GcShape /\ Sound(vol) /\ Loosened(vol) /\ ~up /\ gc.pc = "delete_alias"
      /\ UNCHANGED <<up, req, wild>>
      /\ ~gc.interrupted => Unbroken(vol)
      /\ Listing(vol, gc)
  BY DEF Collectable, GcDeleteAlias, GcAt, GcKeep, Keep, Still, Running
<1>2. /\ GcShape' /\ gc'.pc = "delete" /\ gc'.untagged = gc.untagged
      /\ gc'.doomed = gc.doomed /\ gc'.stale = gc.stale
      /\ gc'.all = gc.all /\ gc'.interrupted = gc.interrupted
  BY <1>1 DEF GcDeleteAlias, GcShape, Running
<1>3. /\ \A k \in gc.untagged \cup gc.stale : k[2] \notin M
      /\ \A k \in gc.untagged : k[2].of \in Manifests
      /\ gc.doomed \cap M = {}
      /\ UntaggedLinks(vol, gc.all) \subseteq gc.untagged
      /\ StaleLinks(vol, gc.all) \subseteq gc.stale
      /\ Doomed(vol, gc.all) \subseteq gc.doomed
      /\ \A key \in gc.names : key[2] \notin M
  BY <1>1 DEF Listing
<1>4. /\ Sound(vol') /\ Loosened(vol') /\ (Unbroken(vol) => Unbroken(vol'))
      /\ Marked(vol', gc.all) = M
      /\ UntaggedLinks(vol', gc.all) \subseteq UntaggedLinks(vol, gc.all)
      /\ StaleLinks(vol', gc.all) \subseteq StaleLinks(vol, gc.all)
      /\ Doomed(vol', gc.all) = Doomed(vol, gc.all)
  <2>1. CASE vol' = vol
    BY <1>1, <2>1
  <2>2. CASE \E key \in gc.names : vol' = LinkRemove(vol, key[1], key[2])
    <3>1. PICK key \in gc.names : vol' = LinkRemove(vol, key[1], key[2])
      BY <2>2
    <3>2. key[2] \notin M
      BY <1>3
    <3>3. Unlinked(vol, vol', key[1], key[2])
      BY <1>1, <3>1, RemoveUnlinks
    <3>4. QED  BY <1>1, <3>2, <3>3, UnlinkFacts
  <2>3. QED  BY <2>1, <2>2 DEF GcDeleteAlias
<1> HIDE DEF M
<1>5. Marked(vol', gc'.all) = M
  BY <1>2, <1>4
<1>6. Listing(vol', gc')
  BY <1>2, <1>3, <1>4, <1>5 DEF Listing
<1>7. QED  BY <1>1, <1>2, <1>4, <1>6, Collected

LEMMA GcDeletedKeeps ==
    ASSUME Collectable, GcDeleted
    PROVE  Collectable'
<1>1. /\ GcShape /\ Sound(vol) /\ Loosened(vol) /\ ~up /\ UNCHANGED <<up, req, wild>> /\ vol' = vol
      /\ gc.pc = "delete" /\ gc.untagged = {} /\ Listing(vol, gc)
  BY DEF Collectable, GcDeleted, GcAt, GcKeep, Keep, Still, Running
<1>2. /\ GcShape' /\ gc'.pc = "sweep" /\ gc'.untagged = {}
      /\ gc'.doomed = gc.doomed /\ gc'.stale = gc.stale /\ gc'.all = gc.all
  BY <1>1 DEF GcDeleted, GcShape, Running
<1>3. Listing(vol', gc')
  BY <1>1, <1>2 DEF Listing
<1>4. Sound(vol') /\ Loosened(vol')
  BY <1>1
<1>5. QED  BY <1>1, <1>2, <1>3, <1>4, Collected

LEMMA GcSweepKeeps ==
    ASSUME Collectable, GcSweep
    PROVE  Collectable'
<1> DEFINE M == Marked(vol, gc.all)
<1>1. /\ GcShape /\ Sound(vol) /\ Loosened(vol) /\ ~up /\ gc.pc = "sweep" /\ UNCHANGED <<up, req, wild>>
      /\ Listing(vol, gc)
  BY DEF Collectable, GcSweep, GcAt, GcKeep, Keep, Still, Running
<1>2. PICK d \in gc.doomed :
         /\ vol' = BlobDelete(vol, d)
         /\ gc' = [gc EXCEPT !.pc = "forget", !.names = {d}, !.doomed = @ \ {d}]
  BY DEF GcSweep
<1>3. /\ GcShape' /\ gc'.pc = "forget" /\ gc'.untagged = gc.untagged
      /\ gc'.doomed = gc.doomed \ {d} /\ gc'.stale = gc.stale /\ gc'.names = {d}
      /\ gc'.all = gc.all
  BY <1>1, <1>2 DEF GcShape, Running
<1>4. /\ \A k \in gc.untagged \cup gc.stale : k[2] \notin M
      /\ gc.doomed \cap M = {} /\ gc.untagged = {}
      /\ UntaggedLinks(vol, gc.all) = {}
      /\ StaleLinks(vol, gc.all) \subseteq gc.stale
      /\ Doomed(vol, gc.all) \subseteq gc.doomed
  BY <1>1 DEF Listing
<1>5. d \notin M
  BY <1>4
<1>6. /\ Sound(vol') /\ Spares(vol, vol', M)
      /\ vol'.objects = vol.objects /\ vol'.links = vol.links
  <2> HIDE DEF M
  <2>1. QED  BY <1>1, <1>2, <1>5, SweepSpares
<1>7. /\ Loosened(vol') /\ Marked(vol', gc.all) = M
      /\ UntaggedLinks(vol', gc.all) = UntaggedLinks(vol, gc.all) \cap DOMAIN vol'.links
      /\ StaleLinks(vol', gc.all) = StaleLinks(vol, gc.all) \cap DOMAIN vol'.links
      /\ Doomed(vol', gc.all) = vol'.objects \ M
  BY <1>1, <1>4, <1>6, RemovalFacts
<1>8. Doomed(vol', gc.all) = Doomed(vol, gc.all)
  BY <1>6, <1>7 DEF Doomed
<1> HIDE DEF M
<1>9. Marked(vol', gc'.all) = M
  BY <1>3, <1>7
<1>10. Listing(vol', gc')
  BY <1>3, <1>4, <1>5, <1>7, <1>8, <1>9 DEF Listing
<1>11. QED  BY <1>1, <1>3, <1>6, <1>7, <1>10, Collected

LEMMA GcForgetKeeps ==
    ASSUME Collectable, GcForget
    PROVE  Collectable'
<1> DEFINE M == Marked(vol, gc.all)
<1>1. /\ GcShape /\ Sound(vol) /\ Loosened(vol) /\ ~up /\ gc.pc = "forget" /\ UNCHANGED <<up, req, wild>>
      /\ Listing(vol, gc)
  BY DEF Collectable, GcForget, GcAt, GcKeep, Keep, Still, Running
<1>2. PICK d \in gc.names : vol' = ObjectForget(vol, d)
  BY DEF GcForget
<1>3. /\ GcShape' /\ gc'.pc = "sweep" /\ gc'.untagged = gc.untagged
      /\ gc'.doomed = gc.doomed /\ gc'.stale = gc.stale /\ gc'.all = gc.all
  BY <1>1 DEF GcForget, GcShape, Running
<1>4. /\ \A k \in gc.untagged \cup gc.stale : k[2] \notin M
      /\ gc.doomed \cap M = {} /\ gc.untagged = {}
      /\ UntaggedLinks(vol, gc.all) = {}
      /\ StaleLinks(vol, gc.all) \subseteq gc.stale
      /\ Doomed(vol, gc.all) \subseteq gc.doomed \cup gc.names
      /\ gc.names \cap M = {} /\ gc.names = {d}
  BY <1>1, <1>2 DEF Listing
<1>5. d \notin M
  BY <1>4
<1>6. /\ Sound(vol') /\ Spares(vol, vol', M)
      /\ vol'.objects = vol.objects \ {d}
  BY <1>1, <1>2, <1>5, ForgetSpares
<1>7. /\ Loosened(vol') /\ Marked(vol', gc.all) = M
      /\ UntaggedLinks(vol', gc.all) = UntaggedLinks(vol, gc.all) \cap DOMAIN vol'.links
      /\ StaleLinks(vol', gc.all) = StaleLinks(vol, gc.all) \cap DOMAIN vol'.links
      /\ Doomed(vol', gc.all) = vol'.objects \ M
  BY <1>1, <1>4, <1>6, RemovalFacts
<1>8. Doomed(vol', gc.all) \subseteq gc.doomed
  BY <1>4, <1>6, <1>7 DEF Doomed
<1> HIDE DEF M
<1>9. Marked(vol', gc'.all) = M
  BY <1>3, <1>7
<1>10. Listing(vol', gc')
  BY <1>3, <1>4, <1>7, <1>8, <1>9 DEF Listing
<1>11. QED  BY <1>1, <1>3, <1>6, <1>7, <1>10, Collected

LEMMA GcSweptKeeps ==
    ASSUME Collectable, GcSwept
    PROVE  Collectable'
<1>1. /\ GcShape /\ Sound(vol) /\ Loosened(vol) /\ ~up /\ UNCHANGED <<up, req, wild>> /\ vol' = vol
      /\ gc.pc = "sweep" /\ gc.doomed = {} /\ Listing(vol, gc)
  BY DEF Collectable, GcSwept, GcAt, GcKeep, Keep, Still, Running
<1>2. /\ GcShape' /\ gc'.pc = "links" /\ gc'.untagged = gc.untagged
      /\ gc'.doomed = gc.doomed /\ gc'.stale = gc.stale /\ gc'.all = gc.all
  BY <1>1 DEF GcSwept, GcShape, Running
<1>3. Listing(vol', gc')
  BY <1>1, <1>2 DEF Listing
<1>4. Sound(vol') /\ Loosened(vol')
  BY <1>1
<1>5. QED  BY <1>1, <1>2, <1>3, <1>4, Collected

LEMMA GcUnlinkKeeps ==
    ASSUME Collectable, GcUnlink
    PROVE  Collectable'
<1> DEFINE M == Marked(vol, gc.all)
<1>1. /\ GcShape /\ Sound(vol) /\ Loosened(vol) /\ ~up /\ gc.pc = "links" /\ UNCHANGED <<up, req, wild>>
      /\ Listing(vol, gc)
  BY DEF Collectable, GcUnlink, GcAt, GcKeep, Keep, Still, Running
<1>2. PICK key \in gc.stale :
         /\ vol' = LinkRemove(vol, key[1], key[2])
         /\ gc' = [gc EXCEPT !.stale = @ \ {key}]
  BY DEF GcUnlink
<1>3. /\ GcShape' /\ gc'.pc = "links" /\ gc'.untagged = gc.untagged
      /\ gc'.doomed = gc.doomed /\ gc'.stale = gc.stale \ {key} /\ gc'.all = gc.all
  BY <1>1, <1>2 DEF GcShape, Running
<1>4. /\ \A k \in gc.untagged \cup gc.stale : k[2] \notin M
      /\ gc.doomed = {} /\ gc.untagged = {}
      /\ UntaggedLinks(vol, gc.all) = {}
      /\ StaleLinks(vol, gc.all) \subseteq gc.stale
      /\ Doomed(vol, gc.all) = {}
  BY <1>1 DEF Listing
<1>5. key[2] \notin M
  BY <1>4
<1>6. Unlinked(vol, vol', key[1], key[2])
  BY <1>1, <1>2, RemoveUnlinks
<1>7. /\ Sound(vol') /\ Loosened(vol')
      /\ Marked(vol', gc.all) = M
      /\ UntaggedLinks(vol', gc.all) = UntaggedLinks(vol, gc.all) \ {<<key[1], key[2]>>}
      /\ StaleLinks(vol', gc.all) = StaleLinks(vol, gc.all) \ {<<key[1], key[2]>>}
      /\ Doomed(vol', gc.all) = Doomed(vol, gc.all)
  <2> DEFINE r == key[1]
             d == key[2]
  <2>1. d \notin Marked(vol, gc.all) /\ Unlinked(vol, vol', r, d)
    BY <1>5, <1>6
  <2> HIDE DEF r, d
  <2>2. /\ Sound(vol') /\ Loosened(vol')
        /\ Marked(vol', gc.all) = M
        /\ UntaggedLinks(vol', gc.all) = UntaggedLinks(vol, gc.all) \ {<<r, d>>}
        /\ StaleLinks(vol', gc.all) = StaleLinks(vol, gc.all) \ {<<r, d>>}
        /\ Doomed(vol', gc.all) = Doomed(vol, gc.all)
    BY <1>1, <2>1, UnlinkFacts
  <2>3. QED  BY <2>2 DEF r, d
<1>8. StaleLinks(vol', gc.all) \subseteq gc.stale \ {key}
  <2>1. StaleLinks(vol, gc.all) \subseteq DOMAIN vol.links
    BY DEF StaleLinks
  <2>2. \A k \in StaleLinks(vol, gc.all) : k = <<k[1], k[2]>>
    BY <1>1, <2>1, LinkKeys
  <2>3. QED  BY <1>4, <1>7, <2>2
<1> HIDE DEF M
<1>9. Marked(vol', gc'.all) = M
  BY <1>3, <1>7
<1>10. Listing(vol', gc')
  BY <1>3, <1>4, <1>7, <1>8, <1>9 DEF Listing
<1>11. QED  BY <1>1, <1>3, <1>7, <1>10, Collected

(* A link that is still there is marked, so it is not one that was broken. *)
LEMMA CleanAtLast ==
    ASSUME NEW v, Sound(v), Loosened(v), NEW all,
           UntaggedLinks(v, all) = {}, StaleLinks(v, all) = {}
    PROVE  Unbroken(v)
<1> SUFFICES ASSUME NEW key \in DOMAIN v.links, Broken(v, key) PROVE FALSE
  BY DEF Unbroken
<1>1. Loose(v, key[2])
  BY DEF Loosened
<1>2. IsMarked(v, all, key[2])
  BY DEF UntaggedLinks, StaleLinks
<1>3. key[2] \in Marked(v, all)
  BY <1>2, MarkFacts
<1>4. PICK k \in Walked(v, all) : \E x \in Found(v, k) : key[2] \in Names(v, x)
  BY <1>3, MarkFacts
<1>5. PICK x \in Found(v, k) : key[2] \in Names(v, x)
  BY <1>4
<1>6. x \in Names(v, key[2])
  BY <1>5, NamesFacts
<1>7. k \in ManifestLinks(v)
  BY MarkFacts
<1>8. QED  BY <1>1, <1>5, <1>6, <1>7 DEF Loose

LEMMA GcDoneKeeps ==
    ASSUME Collectable, GcDone
    PROVE  Collectable'
<1>1. /\ GcShape /\ Sound(vol) /\ Loosened(vol) /\ ~up /\ gc.pc = "links" /\ UNCHANGED <<up, req, wild>>
      /\ vol' = vol /\ gc.stale = {} /\ Listing(vol, gc)
  BY DEF Collectable, GcDone, GcAt, GcKeep, Keep, Still, Running
<1>2. GcShape' /\ gc'.pc = "done" /\ gc'.all = gc.all
  BY <1>1 DEF GcDone, GcShape, NoGc
<1>3. UntaggedLinks(vol, gc.all) = {} /\ StaleLinks(vol, gc.all) = {} /\ Doomed(vol, gc.all) = {}
  BY <1>1 DEF Listing
<1>4. Unbroken(vol)
  BY <1>1, <1>3, CleanAtLast
<1>5. Clean(vol', gc'.all) /\ Sound(vol') /\ Loosened(vol')
  BY <1>1, <1>2, <1>3, <1>4 DEF Clean
<1>6. QED  BY <1>1, <1>2, <1>5, Collected DEF Running

LEMMA GcExitKeeps ==
    ASSUME Collectable, GcExit
    PROVE  Collectable'
<1>1. /\ GcShape /\ Sound(vol) /\ Loosened(vol) /\ ~up /\ UNCHANGED <<up, req, wild>> /\ vol' = vol
      /\ gc.pc \in {"done", "failed"}
      /\ gc.pc = "done" => Clean(vol, gc.all)
      /\ gc.pc = "failed" /\ ~gc.interrupted => Unbroken(vol)
  BY DEF Collectable, GcExit, GcKeep, Keep, Still
<1>2. /\ GcShape' /\ gc'.pc = "idle"
      /\ gc'.interrupted <=> (gc.pc = "failed" /\ gc.interrupted)
  <2> DEFINE i == gc.pc = "failed" /\ gc.interrupted
  <2>1. gc' = [NoGc EXCEPT !.interrupted = i]
    BY DEF GcExit
  <2>2. i \in BOOLEAN
    OBVIOUS
  <2> HIDE DEF i
  <2>3. GcShape' /\ gc'.pc = "idle" /\ gc'.interrupted = i
    BY <2>1, <2>2 DEF GcShape, NoGc
  <2>4. QED  BY <2>3 DEF i
<1>3. ~gc'.interrupted => Unbroken(vol')
  BY <1>1, <1>2 DEF Clean
<1>4. Sound(vol') /\ Loosened(vol')
  BY <1>1
<1>5. QED  BY <1>1, <1>2, <1>3, <1>4, Collected DEF Running

LEMMA GcKillKeeps ==
    ASSUME Collectable, GcKill
    PROVE  Collectable'
<1>1. /\ GcShape /\ Sound(vol) /\ Loosened(vol) /\ ~up /\ UNCHANGED <<up, req, wild>> /\ vol' = vol
  BY DEF Collectable, GcKill, vars
<1>2. GcShape' /\ gc'.pc = "idle" /\ gc'.interrupted
  BY DEF GcKill, GcShape, NoGc
<1>3. Sound(vol') /\ Loosened(vol')
  BY <1>1
<1>4. QED  BY <1>1, <1>2, <1>3, Collected DEF Running

-----------------------------------------------------------------------------
(* The server stops, starts and serves. *)

(* A volume of which no link is broken serves. *)
LEMMA ServeableAgain ==
    ASSUME Sound(vol), Unbroken(vol), Quiet, up \in BOOLEAN
    PROVE  Serveable
<1>1. Orderly(vol)
  BY DEF Orderly
<1>2. VolumeOK(vol) /\ TagsServed(vol, Repos)
  BY <1>1, OrderlyIs
<1>3. \A a \in Requests : req[a].pc = "idle" /\ (req[a].op # "none" => req[a].repo \in Repos)
  BY DEF Quiet
<1>4. \A a \in Requests : /\ InFlight(req[a], vol) /\ Shaped(req[a]) /\ Assured(req[a], vol)
                         /\ Pairing(req[a], vol)
  BY <1>3 DEF InFlight, Shaped, Assured, Pairing, Storing
<1>5. TagsServed(vol, Tame)
  BY <1>2 DEF TagsServed, Tame
<1>6. Inductive
  BY <1>2, <1>4 DEF Inductive, Quiet
<1>7. TagsSettled
  BY <1>4, <1>5 DEF TagsSettled, AllAssured, Quiet
<1>8. QED  BY <1>1, <1>4, <1>6, <1>7 DEF Serveable

LEMMA StartKeeps ==
    ASSUME Collectable, ~gc.interrupted, Start
    PROVE  Collectable'
<1>1. /\ GcShape /\ Sound(vol) /\ Loosened(vol) /\ Unbroken(vol) /\ Quiet
      /\ up' = TRUE /\ UNCHANGED <<vol, req, gc, wild>> /\ gc.pc = "idle" /\ ~gc.interrupted
  BY DEF Collectable, Start, Restart
<1>2. Serveable'
  <2>1. Sound(vol)' /\ Unbroken(vol)' /\ Quiet' /\ up' \in BOOLEAN
    BY <1>1 DEF Quiet, Disturbed
  <2>2. (Sound(vol) /\ Unbroken(vol) /\ Quiet /\ up \in BOOLEAN => Serveable)'
    BY ServeableAgain, PTL
  <2>3. QED  BY <2>1, <2>2
<1>3. GcShape' /\ Sound(vol') /\ Loosened(vol') /\ Unbroken(vol')
  BY <1>1 DEF GcShape
<1>4. QED  BY <1>1, <1>2, <1>3 DEF Collectable, Running

LEMMA StopKeeps ==
    ASSUME Collectable, Stop
    PROVE  Collectable'
<1>1. /\ GcShape /\ Sound(vol) /\ Loosened(vol) /\ Serveable /\ gc.pc = "idle" /\ ~gc.interrupted
      /\ up' = FALSE /\ UNCHANGED <<vol, req, gc, wild>> /\ \A a \in Requests : req[a].pc = "idle"
  BY DEF Collectable, Stop, gcVars
<1>2. Quiet'
  BY <1>1 DEF Serveable, Inductive, TagsSettled, Quiet, InFlight, Disturbed
<1>3. GcShape' /\ Sound(vol') /\ Loosened(vol') /\ Unbroken(vol')
  BY <1>1 DEF GcShape, Serveable, Orderly
<1>4. QED  BY <1>1, <1>2, <1>3 DEF Collectable, Running

LEMMA ServingIsUp == Serving => up
<1>1. Arrival => up
  <2>1. \A a, q : Arrive(a, q) => up
    BY DEF Arrive, At
  <2>2. QED
    BY <2>1 DEF Arrival, Push, PutByTag, PutByDigest, Mount, DeleteManifest, DeleteTag, DeleteBlob
<1>2. \A a \in Requests : Serve(a) => up
  BY DEF Serve, Check, Store, Place, Create, Write, Rename, HardLink, Alias, Commit, SetTag,
         Stat, Link, Lookup, ListTags, Untag, Untagged, Unlink, ResolveTag, At
<1>3. QED  BY <1>1, <1>2 DEF Serving, Kill

LEMMA ServingKeeps ==
    ASSUME Collectable, FilesOK, \A a \in Requests : ~StoresBySha512(req[a]), wild' = {},
           Serving
    PROVE  Collectable'
<1>1. Arrival \/ (\E a \in Requests : Serve(a)) \/ Kill
  BY DEF Serving
<1>2. up
  BY ServingIsUp
<1>3. GcShape /\ Serveable /\ gc.pc = "idle" /\ ~gc.interrupted /\ UNCHANGED gc
  BY <1>2 DEF Collectable, Serving
<1>4. Serveable'
  BY <1>1, <1>3, ServingKeepsOrder
<1>5. Sound(vol') /\ Unbroken(vol') /\ up' \in BOOLEAN
  BY <1>4 DEF Serveable, Orderly, Inductive
<1>6. Loosened(vol')
  BY <1>5 DEF Loosened, Unbroken
<1>7. ~up' => Quiet'
  <2>1. ASSUME ~up' PROVE Kill
    <3>1. Arrival => up' = up
      <4>1. \A a, q : Arrive(a, q) => up' = up
        BY DEF Arrive
      <4>2. QED
        BY <4>1 DEF Arrival, Push, PutByTag, PutByDigest, Mount, DeleteManifest, DeleteTag, DeleteBlob
    <3>2. \A a \in Requests : Serve(a) => up' = up
      BY ServeIsStill DEF Still
    <3>3. QED  BY <1>1, <1>2, <2>1, <3>1, <3>2
  <2>2. ASSUME Kill
        PROVE  \A a \in Requests : req'[a].pc = "idle" /\ req'[a].op = "none"
    BY <2>2 DEF Kill, Idle
  <2>3. QED  BY <1>4, <2>1, <2>2 DEF Serveable, Inductive, TagsSettled, Quiet
<1>8. GcShape' /\ gc'.pc = "idle" /\ ~gc'.interrupted
  BY <1>3 DEF GcShape
<1>9. QED  BY <1>4, <1>5, <1>6, <1>7, <1>8 DEF Collectable, Running

-----------------------------------------------------------------------------
(* The collector composed with the registry: the invariant. *)

LEMMA GcStartsCollectable ==
    ASSUME GcInit, \A v \in InitialVolumes : Orderly(v)
    PROVE  Collectable
<1>1. /\ Orderly(vol) /\ up = TRUE /\ gc = NoGc /\ wild = {}
      /\ req = [a \in Requests |-> Idle]
  BY DEF GcInit, Fresh
<1>2. Sound(vol) /\ Unbroken(vol) /\ Loosened(vol)
  BY <1>1 DEF Orderly, Loosened, Unbroken
<1>3. Quiet
  <2>1. Idle \in Local /\ Idle.pc = "idle" /\ Idle.op = "none"
    BY IdleIsReady DEF Idle
  <2>2. \A a \in Requests : req[a] = Idle
    BY <1>1
  <2>3. req \in [Requests -> Local]
    BY <1>1, <2>1
  <2>4. Disturbed(req) = {}
    BY <2>2, IdleIsTame
  <2>5. QED  BY <1>1, <2>1, <2>2, <2>3, <2>4 DEF Quiet
<1>4. Serveable
  BY <1>1, <1>2, <1>3, ServeableAgain
<1>5. GcShape /\ gc.pc = "idle" /\ ~gc.interrupted
  BY <1>1 DEF GcShape, NoGc
<1>6. QED  BY <1>1, <1>2, <1>4, <1>5 DEF Collectable, Running

LEMMA StutterKeepsCollectable ==
    ASSUME Collectable, UNCHANGED allVars
    PROVE  Collectable'
<1>1. UNCHANGED <<vol, up, req, gc, wild>>
  BY DEF allVars, vars, gcVars
<1>2. Disturbed(req)' = Disturbed(req)
  BY <1>1 DEF Disturbed
<1>3. Serveable' <=> Serveable
  BY <1>1, <1>2 DEF Serveable, Inductive, TagsSettled, AllAssured, Tame
<1>4. (Quiet' <=> Quiet) /\ (GcShape' <=> GcShape)
  BY <1>1, <1>2 DEF Quiet, GcShape
<1>5. QED  BY <1>1, <1>3, <1>4 DEF Collectable

(* A file is whole. *)
Intact(v) == \A d \in DOMAIN v.files : v.files[d] = d.of

(* A collection only takes files away. *)
LEMMA CollectingKeepsFiles ==
    ASSUME Sound(vol), FilesOK, Collecting
    PROVE  FilesOK' /\ UNCHANGED <<req, wild, past>>
<1>1. UNCHANGED <<tmp, open, req, torn, wild, past>>
  BY DEF Collecting, Collect, GcDelete, GcDeleteAlias, GcDeleted, GcSweep, GcForget, GcSwept,
         GcUnlink, GcDone, GcExit, GcKill, GcKeep, Keep, KeepOpen, Still, vars
<1>2. IsVolume(vol)
  BY DEF Sound
<1> DEFINE Fewer(v, w) == \A d \in DOMAIN w.files : d \in DOMAIN v.files /\ w.files[d] = v.files[d]
<1>3. ASSUME NEW r, NEW d PROVE Fewer(vol, LinkRemove(vol, r, d))
  BY <1>2 DEF LinkRemove, IsVolume
<1>4. Fewer(vol, vol')
  <2>1. ASSUME NEW all, Collect(all) PROVE Fewer(vol, vol')
    BY <1>2, <2>1 DEF Collect, ObjectsBackfill, IsVolume
  <2>2. CASE GcDelete
    BY <1>2, <2>2 DEF GcDelete, LinkRemove, IsVolume
  <2>3. CASE GcDeleteAlias
    BY <1>3, <2>3 DEF GcDeleteAlias
  <2>4. CASE GcSweep
    BY <1>2, <2>4 DEF GcSweep, BlobDelete, Drop, Restrict, IsVolume
  <2>5. CASE GcForget
    BY <1>2, <2>5 DEF GcForget, ObjectForget, IsVolume
  <2>6. CASE GcUnlink
    BY <1>3, <2>6 DEF GcUnlink
  <2>7. CASE GcDeleted \/ GcSwept \/ GcDone \/ GcExit \/ GcKill
    BY <2>7 DEF GcDeleted, GcSwept, GcDone, GcExit, GcKill, vars
  <2>8. QED  BY <2>1, <2>2, <2>3, <2>4, <2>5, <2>6, <2>7 DEF Collecting
<1>5. WholeFiles'
  BY <1>1, <1>4 DEF FilesOK, WholeFiles, Mending
<1>6. WholeTmp' /\ Opened' /\ torn' \subseteq Contents
  BY <1>1 DEF FilesOK, WholeTmp, Opened, Renaming, Writing
<1>7. QED  BY <1>1, <1>5, <1>6 DEF FilesOK

(* The invariant: as long as nothing that Calm excludes has happened, the   *)
(* volume can be collected, its files are in order, and nothing is stored   *)
(* by sha512.                                                               *)
PastOK ==
    /\ past = [tripled |-> past.tripled, trimmed |-> past.trimmed, rushed |-> past.rushed]
    /\ past.tripled \in BOOLEAN /\ past.rushed \in BOOLEAN
InCalm == Collectable /\ FilesOK /\ \A a \in Requests : ~StoresBySha512(req[a])

(* What has happened stays so. *)
LEMMA PastStays ==
    ASSUME PastOK, [GcNext]_allVars
    PROVE  /\ PastOK'
           /\ Calm' => Calm
           /\ past.trimmed \subseteq past'.trimmed
           /\ Serving /\ Calm' => \A a \in Requests : ~StoresBySha512(req'[a])
           /\ Start /\ Calm' => ~gc.interrupted
           /\ Serving => \A a \in Requests : IsDelete(req'[a].op) => req'[a].repo \in past'.trimmed
<1>1. CASE Serving
  <2>1. wild \subseteq wild' /\ torn \subseteq torn'
    <3>1. CASE Arrival
      <4>1. \A a, q : Arrive(a, q) => wild \subseteq wild' /\ torn' = torn
        BY DEF Arrive
      <4>2. QED
        BY <3>1, <4>1 DEF Arrival, Push, PutByTag, PutByDigest, Mount, DeleteManifest, DeleteTag,
                          DeleteBlob
    <3>2. CASE \E a \in Requests : Serve(a)
      BY <3>2, ServeIsStill DEF Still
    <3>3. CASE Kill
      BY <3>3 DEF Kill
    <3>4. QED  BY <1>1, <3>1, <3>2, <3>3 DEF Serving
  <2> DEFINE third == past.tripled \/ \E a \in Requests : StoresBySha512(req'[a])
             cut == past.trimmed \cup {req'[a].repo : a \in {b \in Requests : IsDelete(req'[b].op)}}
  <2>2. past' = [past EXCEPT !.tripled = third, !.trimmed = cut]
    BY <1>1 DEF Serving
  <2>3. third \in BOOLEAN
    BY DEF PastOK
  <2>4. /\ past.trimmed \subseteq cut
        /\ \A a \in Requests : IsDelete(req'[a].op) => req'[a].repo \in cut
    OBVIOUS
  <2>5. past.tripled \/ (\E a \in Requests : StoresBySha512(req'[a])) => third
    OBVIOUS
  <2> HIDE DEF third, cut
  <2>6. PastOK' /\ past'.tripled = third /\ past'.trimmed = cut /\ past'.rushed = past.rushed
    BY <2>2, <2>3 DEF PastOK
  <2>7. ~Start
    <3>1. Start => ~up
      BY DEF Start, Restart
    <3>2. up
      BY <1>1, ServingIsUp
    <3>3. QED  BY <3>1, <3>2
  <2>8. QED  BY <1>1, <2>1, <2>4, <2>5, <2>6, <2>7 DEF Calm
<1>2. CASE Start
  <2>1. UNCHANGED <<wild, torn>> /\ past' = [past EXCEPT !.rushed = @ \/ gc.interrupted]
    BY <1>2 DEF Start, Restart
  <2> DEFINE r == past.rushed \/ gc.interrupted
  <2>2. past' = [past EXCEPT !.rushed = r]
    BY <2>1 DEF PastOK
  <2>3. r \in BOOLEAN /\ (~r => ~past.rushed /\ ~gc.interrupted)
    BY DEF PastOK
  <2> HIDE DEF r
  <2>4. PastOK' /\ past'.rushed = r /\ past'.tripled = past.tripled /\ past'.trimmed = past.trimmed
    BY <2>2, <2>3 DEF PastOK
  <2>5. ~Serving
    BY <1>2, ServingIsUp DEF Start, Restart
  <2>6. QED  BY <2>1, <2>3, <2>4, <2>5 DEF Calm
<1>3. CASE ~Serving /\ ~Start
  <2>1. UNCHANGED <<wild, torn, past>>
    BY <1>3 DEF GcNext, Stop, Collecting, Collect, GcDelete, GcDeleteAlias, GcDeleted, GcSweep,
           GcForget, GcSwept, GcUnlink, GcDone, GcExit, GcKill, GcKeep, Keep, Still, vars,
           gcVars, allVars
  <2>2. QED  BY <1>3, <2>1 DEF PastOK, Calm
<1>4. QED  BY <1>1, <1>2, <1>3

LEMMA GcStartsCalm ==
    ASSUME GcInit, \A v \in InitialVolumes : Orderly(v) /\ Intact(v)
    PROVE  PastOK /\ InCalm
<1>1. Collectable
  BY GcStartsCollectable
<1>2. PastOK
  BY DEF GcInit, NoPast, PastOK
<1>3. Intact(vol) /\ tmp = NoRows /\ open = [a \in Requests |-> Closed] /\ torn = {}
      /\ req = [a \in Requests |-> Idle]
  BY DEF GcInit, Fresh
<1>4. WholeFiles
  BY <1>3 DEF Intact, WholeFiles
<1>5. DOMAIN tmp = {}
  BY <1>3 DEF NoRows
<1>6. Opened
  BY <1>3 DEF Opened, Closed, Idle
<1>7. FilesOK
  BY <1>3, <1>4, <1>5, <1>6 DEF FilesOK, WholeTmp
<1>8. \A a \in Requests : ~StoresBySha512(req[a])
  BY <1>3 DEF StoresBySha512, Idle, IsPut
<1>9. QED  BY <1>1, <1>2, <1>7, <1>8 DEF InCalm

LEMMA GcStepKeepsCalm ==
    ASSUME InCalm, PastOK, [GcNext]_allVars, Calm'
    PROVE  InCalm'
<1>1. Collectable /\ FilesOK /\ \A a \in Requests : ~StoresBySha512(req[a])
  BY DEF InCalm
<1>2. CASE Serving
  <2>1. wild' = {}
    BY DEF Calm
  <2>2. Collectable'
    BY <1>1, <1>2, <2>1, ServingKeeps
  <2>3. Inductive
    <3>1. up
      BY <1>2, ServingIsUp
    <3>2. QED  BY <1>1, <3>1 DEF Collectable, Serveable
  <2>4. [Next]_vars
    BY <1>2 DEF Serving, Next
  <2>5. FilesOK'
    BY <1>1, <2>3, <2>4, StepFiles
  <2>6. QED  BY <1>2, <2>2, <2>5, PastStays DEF InCalm
<1>3. CASE Stop \/ Start \/ UNCHANGED allVars
  <2>1. UNCHANGED <<vol, tmp, open, req, torn>>
    BY <1>3 DEF Stop, Start, Restart, KeepOpen, allVars, vars
  <2>2. FilesOK'
    BY <1>1, <2>1 DEF FilesOK, WholeFiles, WholeTmp, Opened, Mending, Renaming, Writing
  <2>3. Start => ~gc.interrupted
    BY PastStays
  <2>4. Collectable'
    BY <1>1, <1>3, <2>3, StopKeeps, StartKeeps, StutterKeepsCollectable
  <2>5. QED  BY <1>1, <2>1, <2>2, <2>4 DEF InCalm
<1>4. CASE Collecting
  <2>1. FilesOK' /\ UNCHANGED req
    BY <1>1, <1>4, CollectingKeepsFiles DEF Collectable
  <2>2. ASSUME NEW all \in BOOLEAN, Collect(all) PROVE Collectable'
    BY <1>1, <2>2, CollectKeeps
  <2>3. Collectable'
    BY <1>1, <1>4, <2>2, GcDeleteKeeps, GcDeleteAliasKeeps, GcDeletedKeeps, GcSweepKeeps,
       GcForgetKeeps, GcSweptKeeps, GcUnlinkKeeps, GcDoneKeeps, GcExitKeeps, GcKillKeeps
       DEF Collecting
  <2>4. QED  BY <1>1, <2>1, <2>3 DEF InCalm
<1>5. QED  BY <1>2, <1>3, <1>4 DEF GcNext

LEMMA AlwaysCalm ==
    ASSUME \A v \in InitialVolumes : Orderly(v) /\ Intact(v)
    PROVE  GcSpec => [](PastOK /\ (Calm => InCalm))
<1>1. GcInit => PastOK /\ (Calm => InCalm)
  BY GcStartsCalm
<1>2. PastOK /\ (Calm => InCalm) /\ [GcNext]_allVars => (PastOK /\ (Calm => InCalm))'
  BY PastStays, GcStepKeepsCalm
<1>3. QED  BY <1>1, <1>2, PTL DEF GcSpec

(* "Leaves nothing for another collection to do" (gc.rs collect: the lists   *)
(* made at mark time are swept to the end), for every number of requests,    *)
(* kills and collections, and also after a collection that was killed        *)
(* between any two of its durable steps; until something happens that Calm   *)
(* excludes.                                                                 *)
THEOREM CollectorLeavesNothing ==
    ASSUME \A v \in InitialVolumes : Orderly(v) /\ Intact(v)
    PROVE  GcSpec => []DoneIsClean
<1>1. (Calm => InCalm) => DoneIsClean
  BY DEF InCalm, Collectable, Clean, Unbroken, Broken, DoneIsClean, LinkedIsStored
<1>2. QED  BY <1>1, AlwaysCalm, PTL

(* A linked manifest leads to itself, so its link is not broken. *)
LEMMA ManifestsIntact ==
    ASSUME NEW v, Sound(v), Loosened(v), NEW key \in ManifestLinks(v)
    PROVE  key[2] \in DOMAIN v.files /\ key[2] \in DOMAIN v.aliases
<1>1. key \in DOMAIN v.links
  BY DEF ManifestLinks
<1>2. key[2] \in Names(v, key[2]) /\ key[2] \in Found(v, key)
  BY DEF Names, Found
<1>3. ~Loose(v, key[2])
  BY <1>2 DEF Loose
<1>4. QED  BY <1>1, <1>3 DEF Loosened, Broken

(* "No order of kills leaves a tag pointing at a manifest that is not        *)
(* linked" (manifests.rs), of the requests and of the collector's sweep      *)
(* together: at every moment, also inside a killed sweep, a tag's manifest   *)
(* is linked and manifest_get answers for it, unless a second PUT is just    *)
(* writing its bytes; until something happens that Calm excludes.            *)
THEOREM CollectorTagsServed ==
    ASSUME \A v \in InitialVolumes : Orderly(v) /\ Intact(v)
    PROVE  GcSpec => [](Calm => TagIsServed)
<1>1. InCalm => TagIsServed
  <2> SUFFICES ASSUME InCalm, NEW key \in DOMAIN vol.tags
               PROVE  LET d == vol.tags[key] IN
                      /\ LinkedAsManifest(vol, key[1], d)
                      /\ d.of \in torn \/ Mending(d) \/ Served(vol, key[1], d)
    BY DEF TagIsServed
  <2> DEFINE r == key[1]
             d == vol.tags[key]
  <2>0. Sound(vol) /\ Loosened(vol) /\ FilesOK /\ r \in Repos
    BY DEF InCalm, Collectable, Sound, TypedVolume
  <2>1. d.of \in Manifests /\ <<r, d>> \in DOMAIN vol.links
    BY <2>0 DEF Sound, TagsServed
  <2>2. vol.links[<<r, d>>] # "blob" /\ <<r, d>> \in ManifestLinks(vol)
    BY <2>0, <2>1 DEF Sound, TagsServed, ManifestLinks
  <2> HIDE DEF r, d
  <2>3. d \in DOMAIN vol.files
    BY <2>0, <2>2, ManifestsIntact
  <2>4. vol.files[d] = d.of \/ Mending(d) \/ d.of \in torn
    BY <2>0, <2>3 DEF FilesOK, WholeFiles
  <2>5. LinkOf(vol, r, d) = {vol.links[<<r, d>>]} /\ ResolveStored(vol, d) = {d}
    BY <2>1, <2>3 DEF LinkOf, ResolveStored
  <2>6. LinkedAsManifest(vol, r, d) /\ (vol.files[d] = d.of => Served(vol, r, d))
    BY <2>2, <2>5 DEF Served, LinkedAsManifest, Readable, RequireLink
  <2>7. QED  BY <2>4, <2>6 DEF r, d
<1>2. QED  BY <1>1, AlwaysCalm, PTL

-----------------------------------------------------------------------------
(* What a collection spares, and what that means for a pull. *)

(* A step that leaves what is read alone spares everything. *)
LEMMA SameSpares ==
    ASSUME NEW v, NEW w, NEW M, w.files = v.files, w.links = v.links, w.aliases = v.aliases,
           w.referrers = v.referrers, w.tags = v.tags
    PROVE  Spares(v, w, M)
BY DEF Spares

(* Then every link to a blob stays, and the aliases do. *)
BlobsStay(v, w) ==
    /\ w.aliases = v.aliases
    /\ \A key \in DOMAIN v.links : key[2].of \notin Manifests => key \in DOMAIN w.links

(* Every step of the collector spares what some mark of the volume holds;    *)
(* until no unmarked manifest is linked, it removes no blob.                 *)
LEMMA CollectingSpares ==
    ASSUME Collectable, Collecting
    PROVE  \E all : /\ Spares(vol, vol', Marked(vol, all))
                    /\ UntaggedLinks(vol, all) = {} \/ BlobsStay(vol, vol')
<1> DEFINE M == Marked(vol, gc.all)
           Fine == \E all : /\ Spares(vol, vol', Marked(vol, all))
                            /\ UntaggedLinks(vol, all) = {} \/ BlobsStay(vol, vol')
<1>1. Sound(vol) /\ Loosened(vol) /\ (gc.pc \in Running => Listing(vol, gc))
  BY DEF Collectable
<1>2. ASSUME vol' = vol PROVE Fine
  BY <1>2, SameSpares DEF BlobsStay
<1>3. ASSUME NEW r, NEW d, d \notin M, Unlinked(vol, vol', r, d), d.of \in Manifests PROVE Fine
  <2>1. Spares(vol, vol', M)
    BY <1>1, <1>3, UnlinkSpares
  <2>2. BlobsStay(vol, vol')
    BY <1>3 DEF Unlinked, BlobsStay
  <2>3. QED  BY <2>1, <2>2
<1>4. ASSUME NEW all, Collect(all) PROVE Fine
  <2>1. vol' = ObjectsBackfill(vol)
    BY <1>4 DEF Collect
  <2>2. /\ vol'.files = vol.files /\ vol'.links = vol.links /\ vol'.aliases = vol.aliases
        /\ vol'.referrers = vol.referrers /\ vol'.tags = vol.tags
    BY <1>1, <2>1, BackfillFacts
  <2>3. BlobsStay(vol, vol')
    BY <2>2 DEF BlobsStay
  <2>4. QED  BY <2>2, <2>3, SameSpares
<1>5. ASSUME GcDelete PROVE Fine
  <2>1. PICK key \in gc.untagged :
           vol' = LinkRemove(Emptied(vol, key[1], key[2]), key[1], key[2]) \/ vol' = vol
    BY <1>5 DEF GcDelete, Emptied
  <2> DEFINE r == key[1]
             d == key[2]
             u == Emptied(vol, r, d)
  <2>2. d \notin M /\ d.of \in Manifests
    BY <1>1, <1>5 DEF GcDelete, GcAt, Running, Listing
  <2>3. SameTables(vol, u)
    BY <1>1, <2>2, NothingToUntag
  <2>4. vol' = LinkRemove(u, r, d) \/ vol' = vol
    BY <2>1
  <2> HIDE DEF r, d, u, M, Fine
  <2>5. ASSUME vol' = LinkRemove(u, r, d) PROVE Fine
    <3>1. Unlinked(vol, vol', r, d)
      BY <2>3, <2>5, DeleteUnlinks
    <3>2. QED  BY <1>3, <2>2, <3>1
  <2>6. QED  BY <1>2, <2>4, <2>5
<1>6. ASSUME GcDeleteAlias PROVE Fine
  <2>1. ASSUME \E key \in gc.names : vol' = LinkRemove(vol, key[1], key[2]) PROVE Fine
    <3>1. PICK key \in gc.names : vol' = LinkRemove(vol, key[1], key[2])
      BY <2>1
    <3>2. key[2] \notin M /\ key[2].of \in Manifests
      BY <1>1, <1>6 DEF GcDeleteAlias, GcAt, Running, Listing
    <3>3. Unlinked(vol, vol', key[1], key[2])
      BY <1>1, <3>1, RemoveUnlinks
    <3> HIDE DEF M, Fine
    <3>4. QED  BY <1>3, <3>2, <3>3
  <2>2. QED  BY <1>2, <1>6, <2>1 DEF GcDeleteAlias
<1>7. ASSUME GcSweep PROVE Fine
  <2>1. PICK d \in gc.doomed : vol' = BlobDelete(vol, d)
    BY <1>7 DEF GcSweep
  <2>2. d \notin M
    BY <1>1, <1>7 DEF GcSweep, GcAt, Running, Listing
  <2> HIDE DEF M
  <2>3. Spares(vol, vol', M)
    BY <1>1, <2>1, <2>2, SweepSpares
  <2>4. UntaggedLinks(vol, gc.all) = {}
    BY <1>1, <1>7 DEF GcSweep, GcAt, Running, Listing
  <2>5. QED  BY <2>3, <2>4 DEF M
<1>8. ASSUME GcForget PROVE Fine
  <2>1. PICK d \in gc.names : vol' = ObjectForget(vol, d)
    BY <1>8 DEF GcForget
  <2>2. d \notin M
    BY <1>1, <1>8 DEF GcForget, GcAt, Running, Listing
  <2>3. Spares(vol, vol', M)
    BY <1>1, <2>1, <2>2, ForgetSpares
  <2>4. UntaggedLinks(vol, gc.all) = {}
    BY <1>1, <1>8 DEF GcForget, GcAt, Running, Listing
  <2>5. QED  BY <2>3, <2>4
<1>9. ASSUME GcUnlink PROVE Fine
  <2>1. PICK key \in gc.stale : vol' = LinkRemove(vol, key[1], key[2])
    BY <1>9 DEF GcUnlink
  <2>2. key[2] \notin M
    BY <1>1, <1>9 DEF GcUnlink, GcAt, Running, Listing
  <2>3. Unlinked(vol, vol', key[1], key[2])
    BY <1>1, <2>1, RemoveUnlinks
  <2>4. Spares(vol, vol', M)
    BY <1>1, <2>2, <2>3, UnlinkSpares
  <2>5. UntaggedLinks(vol, gc.all) = {}
    BY <1>1, <1>9 DEF GcUnlink, GcAt, Running, Listing
  <2>6. QED  BY <2>4, <2>5
<1>10. ASSUME GcDeleted \/ GcSwept \/ GcDone \/ GcExit \/ GcKill PROVE Fine
  <2>1. vol' = vol
    BY <1>10 DEF GcDeleted, GcSwept, GcDone, GcExit, GcKill, vars
  <2> HIDE DEF Fine
  <2>2. QED  BY <1>2, <2>1
<1> HIDE DEF Fine
<1>11. Fine
  BY <1>4, <1>5, <1>6, <1>7, <1>8, <1>9, <1>10 DEF Collecting
<1>12. QED  BY <1>11 DEF Fine

(* What is spared under all its names reads as before. *)
LEMMA SparedReads ==
    ASSUME NEW v, NEW w, NEW M, Spares(v, w, M), NEW d \in M, Names(v, d) \subseteq M, NEW r
    PROVE  /\ LinkOf(w, r, d) = LinkOf(v, r, d)
           /\ Readable(v, r, d) => Readable(w, r, d)
           /\ Served(v, r, d) => Served(w, r, d)
<1>1. AliasOf(w, d) = AliasOf(v, d) /\ AliasOf(v, d) \subseteq M
  BY DEF Spares, AliasOf, Names
<1>2. /\ \A x \in M : <<r, x>> \in DOMAIN w.links <=> <<r, x>> \in DOMAIN v.links
      /\ \A x \in M : <<r, x>> \in DOMAIN w.links => w.links[<<r, x>>] = v.links[<<r, x>>]
  BY DEF Spares
<1>3. /\ \A x \in M : x \in DOMAIN w.files <=> x \in DOMAIN v.files
      /\ \A x \in M : x \in DOMAIN w.files => w.files[x] = v.files[x]
  BY DEF Spares
<1>4. LinkOf(w, r, d) = LinkOf(v, r, d)
  BY <1>1, <1>2 DEF LinkOf
<1>5. ResolveStored(w, d) = ResolveStored(v, d)
  BY <1>1, <1>3 DEF ResolveStored
<1>6. \A x \in ResolveStored(v, d) : w.files[x] = v.files[x]
  BY <1>1, <1>3 DEF ResolveStored
<1>7. Readable(v, r, d) => Readable(w, r, d)
  BY <1>4, <1>5, <1>6 DEF Readable, RequireLink
<1>8. QED  BY <1>4, <1>7 DEF Served, LinkedAsManifest

(* A link answered for d is that of one of its names. *)
LEMMA LinkOfNames ==
    ASSUME NEW v, NEW r, NEW d
    PROVE  /\ \A kind \in LinkOf(v, r, d) :
                 \E x \in Names(v, d) : <<r, x>> \in DOMAIN v.links /\ v.links[<<r, x>>] = kind
           /\ (\E x \in Names(v, d) : <<r, x>> \in DOMAIN v.links) => RequireLink(v, r, d)
BY DEF LinkOf, Names, RequireLink

(* Whatever pulls completely and starts at a marked digest is marked. *)
LEMMA PullIsMarked ==
    ASSUME NEW v, Sound(v), NEW all, NEW r, NEW d, d \in Marked(v, all),
           PullsCompletely(v, r, d)
    PROVE  Reached(d) \subseteq Marked(v, all)
<1> DEFINE M == Marked(v, all)
<1>1. ASSUME NEW y \in M \cap Reached(d) PROVE Named(y) \subseteq M
  <2>1. CASE y.of \notin Manifests
    BY <2>1 DEF Named
  <2>2. CASE y.of \in Manifests
    <3>1. LinkedAsManifest(v, r, y)
      BY <2>2 DEF PullsCompletely, Served
    <3>2. PICK x \in Names(v, y) : <<r, x>> \in DOMAIN v.links /\ v.links[<<r, x>>] # "blob"
      BY <3>1, LinkOfNames DEF LinkedAsManifest
    <3> DEFINE key == <<r, x>>
    <3>3. key \in ManifestLinks(v) /\ key[2] = x
      BY <3>2 DEF ManifestLinks
    <3>4. x \in M
      BY <3>2, MarkFacts
    <3>5. key \in Walked(v, all) /\ Found(v, key) \subseteq M
      BY <3>3, <3>4, MarkFacts
    <3>6. x.of = y.of
      BY <3>2 DEF Sound, TagsServed, Names, AliasOf
    <3>7. Named(x) = Named(y)
      BY <3>6 DEF Named
    <3>8. Named(x) \subseteq Found(v, key)
      BY <3>3 DEF Found
    <3>9. QED  BY <3>5, <3>7, <3>8
  <2>3. QED  BY <2>1, <2>2
<1> HIDE DEF M
<1>2. d \in M
  BY DEF M
<1>3. Reached(d) \subseteq M
  BY <1>1, <1>2, ReachedFacts
<1>4. QED  BY <1>3 DEF M

LEMMA SparedPulls ==
    ASSUME NEW v, Sound(v), NEW w, NEW all, Spares(v, w, Marked(v, all)),
           NEW r, NEW d, d \in Marked(v, all), PullsCompletely(v, r, d)
    PROVE  PullsCompletely(w, r, d)
<1> DEFINE M == Marked(v, all)
<1>1. Reached(d) \subseteq M /\ \A x \in M : Names(v, x) \subseteq M
  BY PullIsMarked, MarkFacts
<1> HIDE DEF M
<1>2. Spares(v, w, M)
  BY DEF M
<1>3. ASSUME NEW x \in Reached(d)
      PROVE  /\ Readable(v, r, x) => Readable(w, r, x)
             /\ Served(v, r, x) => Served(w, r, x)
  BY <1>1, <1>2, SparedReads
<1>4. QED  BY <1>3 DEF PullsCompletely

LEMMA SparedReferrers ==
    ASSUME NEW v, Sound(v), NEW w, NEW all, Spares(v, w, Marked(v, all)),
           NEW row \in v.referrers, Names(v, row[2]) \cap TagTargets(v, row[1]) # {},
           PullsCompletely(v, row[1], row[3])
    PROVE  row \in w.referrers /\ PullsCompletely(w, row[1], row[3])
<1> DEFINE M == Marked(v, all)
<1>1. PICK k \in DOMAIN v.tags : k[1] = row[1] /\ v.tags[k] \in Names(v, row[2])
  BY DEF TagTargets
<1> DEFINE t == v.tags[k]
           key == <<row[1], t>>
<1>2. key \in Walked(v, all) /\ t \in M
  BY <1>1, TagsAreMarked
<1>3. row[2] \in Names(v, t)
  BY <1>1, NamesFacts
<1>4. row[2] \in M /\ Found(v, key) \subseteq M
  BY <1>2, <1>3, MarkFacts
<1>5. row[3] \in Found(v, key)
  BY <1>3 DEF Found
<1>6. row[3] \in M
  BY <1>4, <1>5
<1>7. row \in w.referrers
  BY <1>4, <1>6 DEF Spares
<1>8. QED  BY <1>6, <1>7, SparedPulls

(* "Every referrer of a tagged manifest must be listed and pull" (the        *)
(* property test of gc.rs): no step a collection takes drops the referrers   *)
(* row of a subject a tag points at by either name, or anything that         *)
(* referrer needs; until something happens that Calm excludes.               *)
THEOREM CollectorKeepsReferrers ==
    ASSUME \A v \in InitialVolumes : Orderly(v) /\ Intact(v)
    PROVE  GcSpec => CollectKeepsReferrers
<1> DEFINE Kept ==
      Calm /\ ~up /\ ~up' =>
        \A row \in vol.referrers :
           (/\ Names(vol, row[2]) \cap TagTargets(vol, row[1]) # {}
            /\ PullsCompletely(vol, row[1], row[3]))
           => row \in vol'.referrers /\ PullsCompletely(vol', row[1], row[3])
<1>1. (Calm => InCalm) /\ [GcNext]_allVars => [Kept]_allVars
  <2> SUFFICES ASSUME InCalm, GcNext, ~up, ~up' PROVE Kept
    OBVIOUS
  <2>1. Collecting
    BY ServingIsUp DEF GcNext, Start, Restart, Stop
  <2>2. PICK all : Spares(vol, vol', Marked(vol, all))
    BY <2>1, CollectingSpares DEF InCalm
  <2>3. Sound(vol)
    BY DEF InCalm, Collectable
  <2>4. QED  BY <2>2, <2>3, SparedReferrers
<1>2. QED  BY <1>1, AlwaysCalm, PTL DEF GcSpec, CollectKeepsReferrers

-----------------------------------------------------------------------------
(* Every tag pulls completely.  A PUT checks what the manifest itself names   *)
(* and not what that names in turn, so this needs that manifests nest as      *)
(* images in an index do; and it is said of the set T of repositories in      *)
(* which nothing was deleted by digest.                                       *)

TwoDeep ==
    \A m \in Manifests : \A x \in MustExist[m] : \A y \in Named(x) : y.of \notin Manifests

(* The blobs a linked manifest names are linked beside it. *)
LayersKept(v, T) ==
    \A key \in ManifestLinks(v) :
       key[1] \in T => \A x \in Named(key[2]) :
                          x.of \notin Manifests => RequireLink(v, key[1], x)

(* So is everything a tagged manifest names. *)
TagsWhole(v, T) ==
    \A key \in DOMAIN v.tags :
       key[1] \in T => \A x \in Named(v.tags[key]) : RequireLink(v, key[1], x)

(* A PUT in flight has seen what it no longer has to check. *)
Careful(q, v) ==
    (q.pc \in Storing /\ q.op # "push") \/ q.pc = "tag" =>
       \A x \in Named(q.digest) : (q.pc = "check" /\ x \in q.todo) \/ RequireLink(v, q.repo, x)
Minds(q, v, T) == q.repo \in T => Careful(q, v) /\ ~IsDelete(q.op)

Stocked(v, requests, T) ==
    /\ LayersKept(v, T) /\ TagsWhole(v, T)
    /\ \A a \in Requests : Minds(requests[a], v, T)

LEMMA StockedFewer ==
    ASSUME NEW v, NEW requests, NEW T, NEW S, S \subseteq T, Stocked(v, requests, T)
    PROVE  Stocked(v, requests, S)
BY DEF Stocked, LayersKept, TagsWhole, Minds

(* A link that is answered for stays so while links and aliases are added. *)
LEMMA RequireGrows ==
    ASSUME NEW v, NEW w, Tidy(v), Tidy(w), NEW r,
           \A y : <<r, y>> \in DOMAIN v.links => <<r, y>> \in DOMAIN w.links,
           DOMAIN v.aliases \subseteq DOMAIN w.aliases, NEW x, RequireLink(v, r, x)
    PROVE  RequireLink(w, r, x)
<1>1. Names(v, x) \subseteq Names(w, x)
  BY DEF Names, AliasOf, Tidy
<1>2. \E y \in Names(v, x) : <<r, y>> \in DOMAIN v.links
  BY LinkOfNames DEF RequireLink
<1>3. \E y \in Names(w, x) : <<r, y>> \in DOMAIN w.links
  BY <1>1, <1>2
<1>4. QED  BY <1>3, LinkOfNames

(* What a step of a request may do: add links and aliases, and link as a     *)
(* manifest or tag only what has all it names.                               *)
Whole(v, r, d) == \A x \in Named(d) : RequireLink(v, r, x)
Stocks(v, w, T) ==
    /\ \A key \in DOMAIN v.links : key[1] \in T => key \in DOMAIN w.links
    /\ DOMAIN v.aliases \subseteq DOMAIN w.aliases
    /\ \A key \in ManifestLinks(w) :
          key[1] \in T => key \in ManifestLinks(v) \/ Whole(v, key[1], key[2])
    /\ \A key \in DOMAIN w.tags :
          key[1] \in T => \/ key \in DOMAIN v.tags /\ w.tags[key] = v.tags[key]
                          \/ Whole(v, key[1], w.tags[key])

LEMMA StockedMovesOn ==
    ASSUME NEW T, Stocked(vol, req, T), Tidy(vol), Tidy(vol'), req \in [Requests -> Local],
           NEW a \in Requests, NEW p, Set(a, p), Minds(p, vol, T), Stocks(vol, vol', T)
    PROVE  Stocked(vol', req', T)
<1>1. ASSUME NEW r \in T, NEW x, RequireLink(vol, r, x) PROVE RequireLink(vol', r, x)
  <2>1. \A y : <<r, y>> \in DOMAIN vol.links => <<r, y>> \in DOMAIN vol'.links
    <3>1. \A y : <<r, y>>[1] = r
      OBVIOUS
    <3>2. QED  BY <3>1 DEF Stocks
  <2>2. QED  BY <1>1, <2>1, RequireGrows DEF Stocks
<1>2. \A q : Minds(q, vol, T) => Minds(q, vol', T)
  BY <1>1 DEF Minds, Careful
<1>3. LayersKept(vol', T)
  <2>1. ASSUME NEW key \in ManifestLinks(vol'), key[1] \in T, NEW x \in Named(key[2]),
               x.of \notin Manifests
        PROVE  RequireLink(vol', key[1], x)
    <3>1. CASE key \in ManifestLinks(vol)
      <4>1. RequireLink(vol, key[1], x)
        BY <2>1, <3>1 DEF Stocked, LayersKept
      <4>2. QED  BY <1>1, <2>1, <4>1
    <3>2. CASE Whole(vol, key[1], key[2])
      <4>1. RequireLink(vol, key[1], x)
        BY <2>1, <3>2 DEF Whole
      <4>2. QED  BY <1>1, <2>1, <4>1
    <3>3. QED  BY <2>1, <3>1, <3>2 DEF Stocks
  <2>2. QED  BY <2>1 DEF LayersKept
<1>4. TagsWhole(vol', T)
  <2>1. ASSUME NEW key \in DOMAIN vol'.tags, key[1] \in T, NEW x \in Named(vol'.tags[key])
        PROVE  RequireLink(vol', key[1], x)
    <3>1. CASE key \in DOMAIN vol.tags /\ vol'.tags[key] = vol.tags[key]
      <4>1. RequireLink(vol, key[1], x)
        BY <2>1, <3>1 DEF Stocked, TagsWhole
      <4>2. QED  BY <1>1, <2>1, <4>1
    <3>2. CASE Whole(vol, key[1], vol'.tags[key])
      <4>1. RequireLink(vol, key[1], x)
        BY <2>1, <3>2 DEF Whole
      <4>2. QED  BY <1>1, <2>1, <4>1
    <3>3. QED  BY <2>1, <3>1, <3>2 DEF Stocks
  <2>2. QED  BY <2>1 DEF TagsWhole
<1>5. ASSUME NEW b \in Requests PROVE Minds(req'[b], vol', T)
  <2>1. CASE b = a
    <3>1. req'[b] = p
      BY <2>1 DEF Set
    <3>2. QED  BY <1>2, <3>1
  <2>2. CASE b # a
    <3>1. req'[b] = req[b]
      BY <2>2 DEF Set
    <3>2. QED  BY <1>2, <3>1 DEF Stocked
  <2>3. QED  BY <2>1, <2>2
<1>6. QED  BY <1>3, <1>4, <1>5 DEF Stocked

LEMMA SameStocks ==
    ASSUME NEW v, NEW w, NEW T, w.links = v.links, DOMAIN v.aliases \subseteq DOMAIN w.aliases,
           DOMAIN w.tags \subseteq DOMAIN v.tags, \A key \in DOMAIN w.tags : w.tags[key] = v.tags[key]
    PROVE  Stocks(v, w, T)
BY DEF Stocks, ManifestLinks

Linking(v, w, r, d, T) ==
    /\ DOMAIN w.links = DOMAIN v.links \cup {<<r, d>>}
    /\ \A key \in DOMAIN v.links : key # <<r, d>> => w.links[key] = v.links[key]
    /\ w.links[<<r, d>>] = "blob" \/ (r \in T => Whole(v, r, d))
    /\ DOMAIN v.aliases \subseteq DOMAIN w.aliases
    /\ w.tags = v.tags

LEMMA LinkStocks ==
    ASSUME NEW v, NEW w, NEW r, NEW d, NEW T, Linking(v, w, r, d, T)
    PROVE  Stocks(v, w, T)
<1> USE DEF Linking
<1>1. ASSUME NEW key \in ManifestLinks(w), key[1] \in T
      PROVE  key \in ManifestLinks(v) \/ Whole(v, key[1], key[2])
  <2>1. CASE key = <<r, d>>
    <3>1. key[1] = r /\ key[2] = d
      BY <2>1
    <3>2. QED  BY <1>1, <2>1, <3>1 DEF ManifestLinks
  <2>2. CASE key # <<r, d>>
    BY <2>2 DEF ManifestLinks
  <2>3. QED  BY <2>1, <2>2
<1>2. QED  BY <1>1 DEF Stocks

(* A request past its checks keeps what it has seen. *)
LEMMA CarefulOn ==
    ASSUME NEW v, NEW q, NEW p, Careful(q, v), q.pc \in Storing \ {"check"},
           p.op = q.op, p.repo = q.repo, p.digest = q.digest, p.pc # "check",
           p.pc = "tag" => q.op # "push"
    PROVE  Careful(p, v)
BY DEF Careful

LEMMA CarefulElsewhere ==
    ASSUME NEW v, NEW p, p.pc \notin Storing \cup {"tag"}
    PROVE  Careful(p, v)
BY DEF Careful

LEMMA IdleMinds == \A v, T : Minds(Idle, v, T)
BY CarefulElsewhere DEF Minds, Idle, IsDelete, Storing

(* Where nothing is deleted by digest, every step of a request stocks the   *)
(* volume.                                                                  *)
LEMMA ServeStocks ==
    ASSUME Serveable, NEW T, Stocked(vol, req, T), NEW a \in Requests, Serve(a), Tidy(vol')
    PROVE  Stocked(vol', req', T)
<1> DEFINE q == req[a]
           d == q.digest
           r == q.repo
           Moves == \E p : Set(a, p) /\ Minds(p, vol, T)
<1>1. /\ VolumeOK(vol) /\ IsVolume(vol) /\ Tidy(vol) /\ req \in [Requests -> Local]
      /\ q \in Local /\ InFlight(q, vol) /\ Shaped(q) /\ Minds(q, vol, T)
  BY OrderlyIs DEF Serveable, Inductive, TagsSettled, VolumeOK, Neat, Stocked
<1>2. ASSUME End(a) PROVE Moves
  BY <1>2, IdleMinds DEF End
<1>3. ASSUME UNCHANGED vol PROVE Stocks(vol, vol', T)
  BY <1>3, SameStocks
<1>4. ASSUME Moves, Stocks(vol, vol', T) PROVE Stocked(vol', req', T)
  BY <1>1, <1>4, StockedMovesOn
<1>5. ASSUME NEW p, Set(a, p), p.repo = q.repo, p.op = q.op, Careful(q, vol) => Careful(p, vol)
      PROVE  Moves
  BY <1>1, <1>5 DEF Minds
<1>6. ASSUME NEW p, Set(a, p), p.repo = q.repo, p.op = q.op, p.pc \notin Storing \cup {"tag"}
      PROVE  Moves
  BY <1>5, <1>6, CarefulElsewhere
<1>7. ASSUME NEW pc, pc \in (Storing \cup {"tag"}) \ {"check"}, pc = "tag" => q.op # "push",
             q.pc \in Storing \ {"check"},
             Goto(a, pc) \/ \E newly : Set(a, [q EXCEPT !.newly = newly, !.pc = pc])
      PROVE  Moves
  <2>1. PICK p : Set(a, p) /\ (p = [q EXCEPT !.pc = pc]
                               \/ \E newly : p = [q EXCEPT !.newly = newly, !.pc = pc])
    BY <1>7 DEF Goto
  <2>2. p.pc = pc /\ p.op = q.op /\ p.repo = q.repo /\ p.digest = q.digest
    BY <1>1, <2>1 DEF Local
  <2>3. Careful(q, vol) => Careful(p, vol)
    <3> HIDE DEF q
    <3>1. QED  BY <1>7, <2>2, CarefulOn
  <2>4. QED  BY <1>5, <2>1, <2>2, <2>3
<1>8. CASE Check(a)
  <2>1. UNCHANGED vol /\ q.pc = "check"
    BY <1>8 DEF Check, At
  <2>2. ASSUME q.todo = {}, Goto(a, "store") PROVE Moves
    <3> DEFINE p == [q EXCEPT !.pc = "store"]
    <3>1. p.pc = "store" /\ p.op = q.op /\ p.repo = q.repo /\ p.digest = q.digest
      BY <1>1 DEF Local
    <3>2. Set(a, p)
      BY <2>2 DEF Goto
    <3> HIDE DEF p
    <3>3. Careful(q, vol) => Careful(p, vol)
      BY <2>1, <2>2, <3>1 DEF Careful, Storing
    <3>4. QED  BY <1>5, <3>1, <3>2, <3>3
  <2>3. ASSUME NEW x, RequireLink(vol, r, x), Set(a, [q EXCEPT !.todo = @ \ {x}]) PROVE Moves
    <3> DEFINE p == [q EXCEPT !.todo = @ \ {x}]
    <3>1. /\ p.pc = "check" /\ p.op = q.op /\ p.repo = q.repo /\ p.digest = q.digest
          /\ p.todo = q.todo \ {x}
      BY <1>1, <2>1 DEF Local
    <3>2. Set(a, p)
      BY <2>3
    <3> HIDE DEF p
    <3>3. Careful(q, vol) => Careful(p, vol)
      BY <2>1, <2>3, <3>1 DEF Careful, Storing
    <3>4. QED  BY <1>5, <3>1, <3>2, <3>3
  <2>4. Moves
    BY <1>2, <1>8, <2>2, <2>3 DEF Check
  <2>5. QED  BY <1>3, <1>4, <2>1, <2>4
<1>9. CASE Store(a)
  <2> DEFINE new == NewlyStored(vol, d)
             pc == IF ~new THEN Stored(q) ELSE IF q.op = "push" THEN "place" ELSE "create"
  <2>1. UNCHANGED vol /\ Set(a, [q EXCEPT !.newly = new, !.pc = pc]) /\ q.pc \in Storing \ {"check"}
    BY <1>9 DEF Store, At, Storing
  <2>2. pc \in (Storing \cup {"tag"}) \ {"check"} /\ pc # "tag"
    BY DEF Stored, Storing
  <2> HIDE DEF pc, new
  <2>3. Moves
    BY <1>7, <2>1, <2>2
  <2>4. QED  BY <1>3, <1>4, <2>1, <2>3
<1>10. CASE Place(a) \/ Create(a) \/ Write(a) \/ Rename(a) \/ HardLink(a)
  <2>1. vol'.links = vol.links /\ vol'.aliases = vol.aliases /\ vol'.tags = vol.tags
    <3>1. CASE Place(a)
      BY <1>1, <3>1, PutFilePuts DEF Place
    <3>2. CASE Create(a)
      BY <3>2 DEF Create
    <3>3. CASE Write(a)
      BY <1>1, <3>3, WriteFileWrites DEF Write
    <3>4. CASE Rename(a)
      BY <1>1, <3>4, PutFilePuts DEF Rename
    <3>5. CASE HardLink(a)
      BY <1>1, <3>5, StoreFileStores DEF HardLink, HardLinkSha256
    <3>6. QED  BY <1>10, <3>1, <3>2, <3>3, <3>4, <3>5
  <2>2. Stocks(vol, vol', T)
    BY <2>1, SameStocks
  <2> DEFINE next == IF q.op = "push" THEN "commit" ELSE "alias"
  <2>3. Goto(a, Stored(q)) \/ Goto(a, "write") \/ Goto(a, "rename") \/ Goto(a, next) \/ End(a)
    BY <1>10 DEF Place, Create, Write, Rename, HardLink
  <2>4. \A pc \in {Stored(q), "write", "rename", next} :
           pc \in (Storing \cup {"tag"}) \ {"check"} /\ pc # "tag"
    BY DEF Stored, Storing
  <2>5. q.pc \in Storing \ {"check"}
    BY <1>10 DEF Place, Create, Write, Rename, HardLink, At, Storing
  <2> HIDE DEF next
  <2>6. Moves
    BY <1>2, <1>7, <2>3, <2>4, <2>5
  <2>7. QED  BY <1>4, <2>2, <2>6
<1>11. CASE Alias(a)
  <2>1. vol' = AliasPut(vol, d, OtherName(d)) /\ Goto(a, "commit") /\ q.pc = "alias" /\ d \in Digests
    BY <1>1, <1>11 DEF Alias, At, InFlight
  <2>2. d # OtherName(d)
    BY <2>1, OtherNameIsDigest
  <2>3. Moves
    <3>1. "commit" \in (Storing \cup {"tag"}) \ {"check"} /\ q.pc \in Storing \ {"check"}
      BY <2>1 DEF Storing
    <3>2. QED  BY <1>7, <2>1, <3>1
  <2> HIDE DEF d, Moves
  <2>4. /\ DOMAIN vol'.aliases = DOMAIN vol.aliases \cup {d, OtherName(d)}
        /\ vol'.links = vol.links /\ vol'.tags = vol.tags
    BY <1>1, <2>1, <2>2, AliasPutPairs
  <2>5. Stocks(vol, vol', T)
    BY <2>4, SameStocks
  <2>6. QED  BY <1>4, <2>3, <2>5
<1>12. CASE Commit(a)
  <2>1. q.pc = "commit" /\ d \in Digests
    BY <1>1, <1>12 DEF Commit, At, InFlight
  <2>2. Moves
    <3>1. q.op = "push" => q.tag = {}
      BY <1>1, <2>1 DEF Shaped, Storing
    <3>2. End(a) \/ (Goto(a, "tag") /\ q.op # "push")
      BY <1>12, <3>1 DEF Commit
    <3>3. q.pc \in Storing \ {"check"}
      BY <2>1 DEF Storing
    <3>4. QED  BY <1>2, <1>7, <3>2, <3>3
  <2>3. CASE q.op = "push"
    <3>1. vol' = CommitFinishedUpload(vol, r, d, OtherName(d), q.newly)
      BY <1>12, <2>3 DEF Commit
    <3>2. OtherName(d) # d
      BY <2>1, OtherNameIsDigest
    <3> HIDE DEF d, r, Moves
    <3>3. /\ DOMAIN vol'.links = DOMAIN vol.links \cup {<<r, d>>}
          /\ vol'.links[<<r, d>>] = "blob"
          /\ \A key \in DOMAIN vol.links : key # <<r, d>> => vol'.links[key] = vol.links[key]
          /\ DOMAIN vol'.aliases = DOMAIN vol.aliases \cup {d, OtherName(d)}
          /\ vol'.tags = vol.tags
      BY <1>1, <3>1, <3>2, CommitFinishedUploadCommits
    <3>4. Linking(vol, vol', r, d, T)
      BY <3>3 DEF Linking
    <3>5. Stocks(vol, vol', T)
      BY <3>4, LinkStocks
    <3>6. QED  BY <1>4, <2>2, <3>5
  <2>4. CASE q.op # "push"
    <3>1. vol' = ManifestCommit(vol, r, d, Kind[d.of], Subject[d.of], q.newly)
      BY <1>12, <2>4 DEF Commit
    <3>2. r \in T => Whole(vol, r, d)
      BY <1>1, <2>1, <2>4 DEF Minds, Careful, Whole, Storing
    <3> HIDE DEF d, r, Moves
    <3>3. ASSUME NEW kind, NEW subjects, NEW newly,
                 vol' = ManifestCommit(vol, r, d, kind, subjects, newly)
          PROVE  /\ DOMAIN vol'.links = DOMAIN vol.links \cup {<<r, d>>}
                 /\ \A key \in DOMAIN vol.links : key # <<r, d>> => vol'.links[key] = vol.links[key]
                 /\ DOMAIN vol.aliases \subseteq DOMAIN vol'.aliases /\ vol'.tags = vol.tags
      <4>1. /\ IsVolume(vol')
            /\ vol'.files = vol.files
            /\ DOMAIN vol'.links = DOMAIN vol.links \cup {<<r, d>>}
            /\ vol'.links[<<r, d>>] = kind
            /\ \A key \in DOMAIN vol.links : key # <<r, d>> => vol'.links[key] = vol.links[key]
            /\ vol'.objects \subseteq vol.objects \cup {d}
            /\ vol'.referrers = vol.referrers \cup {<<r, s, d>> : s \in subjects}
            /\ vol'.repos = vol.repos \cup {r}
            /\ vol'.aliases = vol.aliases /\ vol'.tags = vol.tags
        BY <1>1, <3>3, ManifestCommitCommits
      <4>2. QED  BY <4>1
    <3>4. Linking(vol, vol', r, d, T)
      BY <3>1, <3>2, <3>3 DEF Linking
    <3>5. Stocks(vol, vol', T)
      BY <3>4, LinkStocks
    <3>6. QED  BY <1>4, <2>2, <3>5
  <2>5. QED  BY <2>3, <2>4
<1>13. CASE SetTag(a)
  <2>1. PICK t \in q.tag : vol' = TagSet(vol, r, t, d)
    BY <1>13 DEF SetTag
  <2>2. r \in T => Whole(vol, r, d)
    BY <1>1, <1>13 DEF SetTag, At, Minds, Careful, Whole
  <2>3. Moves
    BY <1>2, <1>13 DEF SetTag
  <2> HIDE DEF d, r, Moves
  <2>4. /\ DOMAIN vol'.tags = DOMAIN vol.tags \cup {<<r, t>>}
        /\ vol'.tags[<<r, t>>] = d
        /\ \A key \in DOMAIN vol.tags : key # <<r, t>> => vol'.tags[key] = vol.tags[key]
        /\ vol'.links = vol.links /\ vol'.aliases = vol.aliases
    BY <1>1, <2>1, TagSetSets
  <2>5. Stocks(vol, vol', T)
    <3>1. ASSUME NEW key \in DOMAIN vol'.tags, key[1] \in T
          PROVE  \/ key \in DOMAIN vol.tags /\ vol'.tags[key] = vol.tags[key]
                 \/ Whole(vol, key[1], vol'.tags[key])
      <4>1. CASE key = <<r, t>>
        <5>1. key[1] = r
          BY <4>1
        <5>2. QED  BY <2>2, <2>4, <3>1, <4>1, <5>1
      <4>2. CASE key # <<r, t>>
        BY <2>4, <4>2
      <4>3. QED  BY <4>1, <4>2
    <3>2. QED  BY <2>4, <3>1 DEF Stocks, ManifestLinks
  <2>6. QED  BY <1>4, <2>3, <2>5
<1>14. CASE Stat(a)
  <2>1. UNCHANGED vol
    BY <1>14 DEF Stat
  <2>2. ASSUME NEW x, Set(a, [q EXCEPT !.pc = "link", !.digest = x])
                      \/ Set(a, [q EXCEPT !.pc = "unlink", !.unlink = x])
        PROVE  Moves
    <3>1. PICK p : Set(a, p) /\ (p = [q EXCEPT !.pc = "link", !.digest = x]
                                 \/ p = [q EXCEPT !.pc = "unlink", !.unlink = x])
      BY <2>2
    <3>2. p.pc \notin Storing \cup {"tag"} /\ p.op = q.op /\ p.repo = q.repo
      BY <1>1, <3>1 DEF Local, Storing
    <3>3. QED  BY <1>6, <3>1, <3>2
  <2>3. CASE ~RequireLink(vol, q.from, d) \/ ResolveStored(vol, d) = {}
    <3>1. End(a)
      BY <1>14, <2>3 DEF Stat
    <3>2. QED  BY <1>2, <1>3, <1>4, <2>1, <3>1
  <2>4. CASE RequireLink(vol, q.from, d) /\ ResolveStored(vol, d) # {}
    <3>1. PICK stored \in ResolveStored(vol, d) :
             IF q.op = "mount"
             THEN Set(a, [q EXCEPT !.pc = "link", !.digest = stored])
             ELSE Set(a, [q EXCEPT !.pc = "unlink",
                            !.unlink = IF stored = d THEN <<d>> ELSE <<stored, d>>])
      BY <1>14, <2>4 DEF Stat
    <3> DEFINE left == IF stored = d THEN <<d>> ELSE <<stored, d>>
    <3>2. Set(a, [q EXCEPT !.pc = "link", !.digest = stored])
          \/ Set(a, [q EXCEPT !.pc = "unlink", !.unlink = left])
      BY <3>1
    <3> HIDE DEF left
    <3>3. Moves
      BY <2>2, <3>2
    <3>4. QED  BY <1>3, <1>4, <2>1, <3>3
  <2>5. QED  BY <2>3, <2>4
<1>15. CASE Link(a)
  <2>1. vol' = LinkAdd(vol, r, d, "blob")
    BY <1>15 DEF Link
  <2>2. Moves
    BY <1>2, <1>15 DEF Link
  <2> HIDE DEF d, r, Moves
  <2>3. /\ DOMAIN vol'.links = DOMAIN vol.links \cup {<<r, d>>}
        /\ vol'.links[<<r, d>>] = "blob"
        /\ \A key \in DOMAIN vol.links : key # <<r, d>> => vol'.links[key] = vol.links[key]
        /\ vol'.aliases = vol.aliases /\ vol'.tags = vol.tags
    BY <1>1, <2>1, LinkAddLinks
  <2>4. Stocks(vol, vol', T)
    <3>1. Linking(vol, vol', r, d, T)
      BY <2>3 DEF Linking
    <3>2. QED  BY <3>1, LinkStocks
  <2>5. QED  BY <1>4, <2>2, <2>4
<1>16. CASE Lookup(a) \/ ListTags(a) \/ ResolveTag(a) \/ Untagged(a)
  <2>1. UNCHANGED vol
    BY <1>16 DEF Lookup, ListTags, ResolveTag, Untagged
  <2>2. ASSUME NEW x, NEW pc, pc \in {"list", "untag", "unlink"},
               \/ Set(a, [q EXCEPT !.pc = pc, !.todo = x])
               \/ Set(a, [q EXCEPT !.pc = pc, !.unlink = x])
               \/ Set(a, [q EXCEPT !.pc = pc])
        PROVE  Moves
    <3>1. PICK p : Set(a, p) /\ (\/ p = [q EXCEPT !.pc = pc, !.todo = x]
                                 \/ p = [q EXCEPT !.pc = pc, !.unlink = x]
                                 \/ p = [q EXCEPT !.pc = pc])
      BY <2>2
    <3>2. p.pc \notin Storing \cup {"tag"} /\ p.op = q.op /\ p.repo = q.repo
      BY <1>1, <2>2, <3>1 DEF Local, Storing
    <3>3. QED  BY <1>6, <3>1, <3>2
  <2>3. CASE Lookup(a)
    <3> DEFINE x == IF AliasOf(vol, d) = {} THEN <<d>> ELSE <<d, vol.aliases[d]>>
    <3>1. End(a) \/ Set(a, [q EXCEPT !.pc = "list", !.unlink = x])
      BY <2>3 DEF Lookup
    <3> HIDE DEF x
    <3>2. Moves
      BY <1>2, <2>2, <3>1
    <3>3. QED  BY <1>3, <1>4, <2>1, <3>2
  <2>4. CASE ListTags(a)
    <3> DEFINE x == TagsAt(vol, r, InSeq(q.unlink))
    <3>1. Set(a, [q EXCEPT !.pc = "untag", !.todo = x])
      BY <2>4 DEF ListTags
    <3> HIDE DEF x
    <3>2. Moves
      BY <2>2, <3>1
    <3>3. QED  BY <1>3, <1>4, <2>1, <3>2
  <2>5. CASE ResolveTag(a)
    <3>1. End(a) \/ Set(a, [q EXCEPT !.pc = "untag", !.todo = q.tag])
      BY <2>5 DEF ResolveTag
    <3>2. Moves
      BY <1>2, <2>2, <3>1
    <3>3. QED  BY <1>3, <1>4, <2>1, <3>2
  <2>6. CASE Untagged(a)
    <3>1. End(a) \/ Set(a, [q EXCEPT !.pc = "unlink"])
      BY <2>6 DEF Untagged, Goto
    <3>2. Moves
      BY <1>2, <2>2, <3>1
    <3>3. QED  BY <1>3, <1>4, <2>1, <3>2
  <2>7. QED  BY <1>16, <2>3, <2>4, <2>5, <2>6
<1>17. CASE Untag(a)
  <2>1. PICK t \in q.todo : vol' = TagDelete(vol, r, t) /\ Set(a, [q EXCEPT !.todo = @ \ {t}])
    BY <1>17 DEF Untag
  <2> DEFINE p == [q EXCEPT !.todo = @ \ {t}]
  <2>2. Set(a, p) /\ p.pc = "untag" /\ p.op = q.op /\ p.repo = q.repo
    BY <1>1, <1>17, <2>1 DEF Local, Untag, At
  <2>3. Moves
    <3> HIDE DEF p
    <3>1. QED  BY <1>6, <2>2 DEF Storing
  <2> HIDE DEF r, Moves
  <2>4. /\ DOMAIN vol'.tags = DOMAIN vol.tags \ {<<r, t>>}
        /\ \A key \in DOMAIN vol'.tags : vol'.tags[key] = vol.tags[key]
        /\ vol'.links = vol.links /\ vol'.aliases = vol.aliases
    BY <1>1, <2>1, TagDeleteDeletes
  <2>5. Stocks(vol, vol', T)
    BY <2>4, SameStocks
  <2>6. QED  BY <1>4, <2>3, <2>5
<1>18. CASE Unlink(a)
  <2> DEFINE left == q.unlink
             p == [q EXCEPT !.unlink = Tail(left)]
  <2>1. vol' = LinkRemove(vol, r, Head(left)) /\ (End(a) \/ Set(a, p)) /\ q.pc = "unlink"
    BY <1>18 DEF Unlink, At
  <2>2. r \notin T
    BY <1>1, <2>1 DEF Shaped, Minds
  <2>3. p.pc = "unlink" /\ p.op = q.op /\ p.repo = q.repo
    BY <1>1, <2>1 DEF Local
  <2> HIDE DEF p
  <2>4. Moves
    BY <1>2, <1>6, <2>1, <2>3 DEF Storing
  <2> HIDE DEF left, r, Moves
  <2>5. /\ DOMAIN vol'.links = DOMAIN vol.links \ {<<r, Head(left)>>}
        /\ \A key \in DOMAIN vol'.links : vol'.links[key] = vol.links[key]
        /\ vol'.aliases = vol.aliases /\ vol'.tags = vol.tags
    BY <1>1, <2>1, LinkRemoveUnlinks
  <2>6. \A key \in DOMAIN vol.links : key[1] \in T => key \in DOMAIN vol'.links
    <3>1. \A key \in DOMAIN vol.links : key = <<r, Head(left)>> => key[1] = r
      OBVIOUS
    <3>2. QED  BY <2>2, <2>5, <3>1
  <2>7. Stocks(vol, vol', T)
    BY <2>5, <2>6 DEF Stocks, ManifestLinks
  <2>8. QED  BY <1>4, <2>4, <2>7
<1>19. QED
  BY <1>8, <1>9, <1>10, <1>11, <1>12, <1>13, <1>14, <1>15, <1>16, <1>17, <1>18 DEF Serve

(* A PUT arrives with everything still to check. *)
LEMMA ArrivalStocks ==
    ASSUME Serveable, NEW T, Stocked(vol, req, T), Arrival, Tidy(vol'),
           \A a \in Requests : IsDelete(req'[a].op) => req'[a].repo \notin T
    PROVE  Stocked(vol', req', T)
<1>1. Tidy(vol) /\ req \in [Requests -> Local]
  BY OrderlyIs DEF Serveable, Inductive, Neat
<1>2. ASSUME NEW a \in Requests, NEW q, Arrive(a, q),
             \/ q.pc \notin Storing \cup {"tag"}
             \/ q.pc = "store" /\ q.op = "push"
             \/ q.pc = "check" /\ Named(q.digest) \subseteq q.todo
      PROVE  Stocked(vol', req', T)
  <2>1. UNCHANGED vol /\ Set(a, q) /\ req'[a] = q
    BY <1>1, <1>2 DEF Arrive, Set
  <2>2. Minds(q, vol, T)
    BY <1>2, <2>1 DEF Minds, Careful, Storing
  <2>3. Stocks(vol, vol', T)
    BY <2>1, SameStocks
  <2>4. QED  BY <1>1, <2>1, <2>2, <2>3, StockedMovesOn
<1>3. ASSUME NEW m \in Manifests, NEW alg
      PROVE  Named(Digest(alg, m)) \subseteq MustExist[m]
  BY DEF Named, Digest
<1>4. PICK a \in Requests, r \in Repos :
       \/ \E c \in Contents, alg \in Algorithms : Push(a, r, c, alg)
       \/ \E m \in Manifests, t \in Tags : PutByTag(a, r, m, t)
       \/ \E m \in Manifests, alg \in Algorithms : PutByDigest(a, r, m, alg)
       \/ \E from \in Repos, c \in Contents, alg \in Algorithms :
             Mount(a, r, from, Digest(alg, c))
       \/ \E m \in Manifests, alg \in Algorithms : DeleteManifest(a, r, Digest(alg, m))
       \/ \E t \in Tags : DeleteTag(a, r, t)
       \/ \E c \in Contents, alg \in Algorithms : DeleteBlob(a, r, Digest(alg, c))
  BY DEF Arrival
<1> DEFINE Fine == Stocked(vol', req', T)
<1> HIDE DEF Fine
<1>5. ASSUME NEW c, NEW alg, Push(a, r, c, alg) PROVE Fine
  <2> DEFINE q == [Idle EXCEPT !.op = "push", !.pc = "store", !.repo = r, !.digest = Digest(alg, c)]
  <2>1. Arrive(a, q) /\ q.pc = "store" /\ q.op = "push"
    BY <1>5 DEF Push, Idle
  <2> HIDE DEF q
  <2>2. QED  BY <1>2, <2>1 DEF Fine, Storing
<1>6. ASSUME NEW m \in Manifests, NEW t, PutByTag(a, r, m, t) PROVE Fine
  <2> DEFINE d == Digest("sha256", m)
             q == [Idle EXCEPT !.op = "put_tag", !.pc = "check", !.repo = r, !.tag = {t},
                               !.digest = d, !.todo = MustExist[m]]
  <2>1. Arrive(a, q)
    BY <1>6 DEF PutByTag
  <2>2. Named(d) \subseteq MustExist[m]
    BY <1>3
  <2> HIDE DEF d
  <2>3. q.pc = "check" /\ q.digest = d /\ q.todo = MustExist[m]
    BY DEF Idle
  <2> HIDE DEF q
  <2>4. QED  BY <1>2, <2>1, <2>2, <2>3 DEF Fine
<1>7. ASSUME NEW m \in Manifests, NEW alg, PutByDigest(a, r, m, alg) PROVE Fine
  <2> DEFINE d == Digest(alg, m)
             q == [Idle EXCEPT !.op = "put_digest", !.pc = "check", !.repo = r,
                               !.digest = d, !.todo = MustExist[m]]
  <2>1. Arrive(a, q)
    BY <1>7 DEF PutByDigest
  <2>2. Named(d) \subseteq MustExist[m]
    BY <1>3
  <2> HIDE DEF d
  <2>3. q.pc = "check" /\ q.digest = d /\ q.todo = MustExist[m]
    BY DEF Idle
  <2> HIDE DEF q
  <2>4. QED  BY <1>2, <2>1, <2>2, <2>3 DEF Fine
<1>8. ASSUME NEW from, NEW d, Mount(a, r, from, d) PROVE Fine
  <2> DEFINE q == [Idle EXCEPT !.op = "mount", !.pc = "stat", !.repo = r, !.from = from, !.digest = d]
  <2>1. Arrive(a, q) /\ q.pc = "stat"
    BY <1>8 DEF Mount, Idle
  <2> HIDE DEF q
  <2>2. QED  BY <1>2, <2>1 DEF Fine, Storing
<1>9. ASSUME NEW d, DeleteManifest(a, r, d) PROVE Fine
  <2> DEFINE q == [Idle EXCEPT !.op = "delete_manifest", !.pc = "lookup", !.repo = r, !.digest = d]
  <2>1. Arrive(a, q) /\ q.pc = "lookup"
    BY <1>9 DEF DeleteManifest, Idle
  <2> HIDE DEF q
  <2>2. QED  BY <1>2, <2>1 DEF Fine, Storing
<1>10. ASSUME NEW t, DeleteTag(a, r, t) PROVE Fine
  <2> DEFINE q == [Idle EXCEPT !.op = "delete_tag", !.pc = "resolve", !.repo = r, !.tag = {t}]
  <2>1. Arrive(a, q) /\ q.pc = "resolve"
    BY <1>10 DEF DeleteTag, Idle
  <2> HIDE DEF q
  <2>2. QED  BY <1>2, <2>1 DEF Fine, Storing
<1>11. ASSUME NEW d, DeleteBlob(a, r, d) PROVE Fine
  <2> DEFINE q == [Idle EXCEPT !.op = "delete_blob", !.pc = "stat", !.repo = r, !.from = r,
                               !.digest = d]
  <2>1. Arrive(a, q) /\ q.pc = "stat"
    BY <1>11 DEF DeleteBlob, Idle
  <2> HIDE DEF q
  <2>2. QED  BY <1>2, <2>1 DEF Fine, Storing
<1>12. Fine
  BY <1>4, <1>5, <1>6, <1>7, <1>8, <1>9, <1>10, <1>11
<1>13. QED  BY <1>12 DEF Fine

(* A collection removes no blob that a manifest still linked names, and      *)
(* nothing that a tagged one does.                                           *)
LEMMA CollectedStocks ==
    ASSUME NEW v, Sound(v), NEW T, LayersKept(v, T), TagsWhole(v, T), NEW w, NEW all,
           Spares(v, w, Marked(v, all)), UntaggedLinks(v, all) = {} \/ BlobsStay(v, w)
    PROVE  LayersKept(w, T) /\ TagsWhole(w, T)
<1> DEFINE M == Marked(v, all)
<1>1. \A x \in M : Names(v, x) \subseteq M
  BY MarkFacts
<1>2. ASSUME NEW x \in M, NEW r, RequireLink(v, r, x) PROVE RequireLink(w, r, x)
  <2> HIDE DEF M
  <2>1. Spares(v, w, M)
    BY DEF M
  <2>2. LinkOf(w, r, x) = LinkOf(v, r, x)
    BY <1>1, <2>1, SparedReads
  <2>3. QED  BY <1>2, <2>2 DEF RequireLink
<1>3. TagsWhole(w, T)
  <2>1. ASSUME NEW key \in DOMAIN w.tags, key[1] \in T, NEW x \in Named(w.tags[key])
        PROVE  RequireLink(w, key[1], x)
    <3> DEFINE at == <<key[1], v.tags[key]>>
    <3>1. key \in DOMAIN v.tags /\ w.tags[key] = v.tags[key]
      BY DEF Spares
    <3>2. at \in Walked(v, all)
      BY <3>1, TagsAreMarked
    <3>3. Found(v, at) \subseteq M
      BY <3>2, MarkFacts
    <3>4. x \in Found(v, at)
      BY <2>1, <3>1 DEF Found
    <3>5. RequireLink(v, key[1], x)
      BY <2>1, <3>1 DEF TagsWhole
    <3>6. QED  BY <1>2, <3>3, <3>4, <3>5
  <2>2. QED  BY <2>1 DEF TagsWhole
<1>4. LayersKept(w, T)
  <2>1. ASSUME NEW key \in ManifestLinks(w), key[1] \in T, NEW x \in Named(key[2]),
               x.of \notin Manifests
        PROVE  RequireLink(w, key[1], x)
    <3>1. key \in ManifestLinks(v)
      <4> HIDE DEF M
      <4>1. Spares(v, w, M)
        BY DEF M
      <4>2. QED  BY <4>1, SparesNames
    <3>2. RequireLink(v, key[1], x)
      BY <2>1, <3>1 DEF LayersKept
    <3>3. CASE UntaggedLinks(v, all) = {}
      <4>1. IsMarked(v, all, key[2])
        BY <3>1, <3>3 DEF UntaggedLinks
      <4>2. Found(v, key) \subseteq M
        BY <3>1, <4>1, MarkFacts
      <4>3. x \in Found(v, key)
        BY DEF Found
      <4>4. QED  BY <1>2, <3>2, <4>2, <4>3
    <3>4. CASE BlobsStay(v, w)
      <4>1. PICK y \in Names(v, x) : <<key[1], y>> \in DOMAIN v.links
        BY <3>2, LinkOfNames DEF RequireLink
      <4>2. y.of \notin Manifests
        BY <2>1 DEF Sound, TagsServed, Names, AliasOf
      <4>3. <<key[1], y>> \in DOMAIN w.links
        BY <3>4, <4>1, <4>2 DEF BlobsStay
      <4>4. y \in Names(w, x)
        BY <3>4 DEF BlobsStay, Names, AliasOf
      <4>5. QED  BY <4>3, <4>4, LinkOfNames
    <3>5. QED  BY <3>3, <3>4
  <2>2. QED  BY <2>1 DEF LayersKept
<1>5. QED  BY <1>3, <1>4

LEMMA GcStartsStocked ==
    ASSUME GcInit, \A v \in InitialVolumes : LayersKept(v, Repos) /\ TagsWhole(v, Repos)
    PROVE  Stocked(vol, req, Repos)
<1>1. LayersKept(vol, Repos) /\ TagsWhole(vol, Repos) /\ \A a \in Requests : req[a] = Idle
  BY DEF GcInit, Fresh
<1>2. QED  BY <1>1, IdleMinds DEF Stocked

LEMMA StepStocks ==
    ASSUME Collectable, Collectable', NEW T, Stocked(vol, req, T), [GcNext]_allVars,
           Serving => \A a \in Requests : IsDelete(req'[a].op) => req'[a].repo \notin T
    PROVE  Stocked(vol', req', T)
<1>1. Sound(vol) /\ Tidy(vol')
  BY DEF Collectable, Sound
<1>2. ASSUME UNCHANGED <<vol, req>> PROVE Stocked(vol', req', T)
  BY <1>2
<1>3. CASE Serving
  <2>1. Serveable
    BY <1>3, ServingIsUp DEF Collectable
  <2>2. CASE Arrival
    BY <1>1, <1>3, <2>1, <2>2, ArrivalStocks
  <2>3. CASE \E a \in Requests : Serve(a)
    BY <1>1, <2>1, <2>3, ServeStocks
  <2>4. CASE Kill
    <3>1. vol' = vol /\ \A a \in Requests : req'[a] = Idle
      BY <2>4 DEF Kill
    <3>2. QED  BY <3>1, IdleMinds DEF Stocked
  <2>5. QED  BY <1>3, <2>2, <2>3, <2>4 DEF Serving
<1>4. CASE Start \/ Stop \/ UNCHANGED allVars
  <2>1. UNCHANGED <<vol, req>>
    BY <1>4 DEF Start, Restart, Stop, allVars, vars
  <2>2. QED  BY <1>2, <2>1
<1>5. CASE Collecting
  <2>1. PICK all : /\ Spares(vol, vol', Marked(vol, all))
                   /\ UntaggedLinks(vol, all) = {} \/ BlobsStay(vol, vol')
    BY <1>5, CollectingSpares
  <2>2. LayersKept(vol', T) /\ TagsWhole(vol', T)
    BY <1>1, <2>1, CollectedStocks DEF Stocked
  <2>3. ~up /\ UNCHANGED req
    BY <1>5 DEF Collecting, Collect, GcDelete, GcDeleteAlias, GcDeleted, GcSweep, GcForget, GcSwept,
                GcUnlink, GcDone, GcExit, GcKill, GcAt, GcKeep, vars
  <2>4. \A a \in Requests : req[a].pc = "idle" /\ (req[a].repo \in T => ~IsDelete(req[a].op))
    BY <2>3 DEF Collectable, Quiet, Stocked, Minds
  <2>5. \A a \in Requests : Careful(req[a], vol')
    BY <2>4, CarefulElsewhere DEF Storing
  <2>6. QED  BY <2>2, <2>3, <2>4, <2>5 DEF Stocked, Minds
<1>6. QED  BY <1>3, <1>4, <1>5 DEF GcNext

(* What a linked manifest leads to is readable wherever it is linked. *)
LEMMA FoundIsReadable ==
    ASSUME NEW v, Sound(v), Loosened(v), Intact(v), NEW key \in ManifestLinks(v),
           NEW x \in Found(v, key), NEW r, RequireLink(v, r, x)
    PROVE  /\ Readable(v, r, x)
           /\ x.of \in Manifests => Served(v, r, x)
<1>1. PICK y \in Names(v, x) : <<r, y>> \in DOMAIN v.links
  BY LinkOfNames DEF RequireLink
<1> DEFINE at == <<r, y>>
<1>2. at \in DOMAIN v.links /\ at[2] = y
  BY <1>1
<1>3. x \in Names(v, y)
  BY NamesFacts
<1>4. ~Loose(v, y)
  BY <1>3 DEF Loose
<1>5. y \in DOMAIN v.files
  BY <1>2, <1>4 DEF Loosened, Broken
<1>6. \A z \in Names(v, x) : z.of = x.of
  BY DEF Sound, TagsServed, Names, AliasOf
<1>7. \E stored \in ResolveStored(v, x) : stored \in DOMAIN v.files /\ stored \in Names(v, x)
  BY <1>5 DEF ResolveStored, Names
<1>8. \A d \in DOMAIN v.files : v.files[d] = d.of
  BY DEF Intact
<1>9. Readable(v, r, x)
  BY <1>6, <1>7, <1>8 DEF Readable
<1>10. ASSUME x.of \in Manifests PROVE LinkedAsManifest(v, r, x)
  <2>1. PICK kind \in LinkOf(v, r, x) : TRUE
    BY DEF RequireLink
  <2>2. PICK z \in Names(v, x) : <<r, z>> \in DOMAIN v.links /\ v.links[<<r, z>>] = kind
    BY LinkOfNames
  <2>3. kind # "blob"
    <3>1. <<r, z>>[1] = r /\ <<r, z>>[2] = z /\ z.of \in Manifests
      BY <1>6, <1>10
    <3>2. r \in Repos
      BY <2>2 DEF Sound, TypedVolume
    <3>3. QED  BY <2>2, <3>1, <3>2 DEF Sound, TagsServed
  <2>4. QED  BY <2>3 DEF LinkedAsManifest
<1>11. QED  BY <1>9, <1>10 DEF Served

LEMMA StockedPulls ==
    ASSUME TwoDeep, NEW v, Sound(v), Loosened(v), Intact(v), NEW T, LayersKept(v, T),
           TagsWhole(v, T), NEW k \in DOMAIN v.tags, k[1] \in T
    PROVE  PullsCompletely(v, k[1], v.tags[k])
<1> DEFINE r == k[1]
           d == v.tags[k]
           key == <<r, d>>
           P == {d} \cup Named(d) \cup UNION {Named(y) : y \in Named(d)}
           Reads(x) == IF x.of \in Manifests THEN Served(v, r, x) ELSE Readable(v, r, x)
<1>0. r \in Repos /\ r \in T
  BY DEF Sound, TypedVolume
<1>1. d.of \in Manifests /\ key \in DOMAIN v.links /\ v.links[key] # "blob"
  BY <1>0 DEF Sound, TagsServed
<1>2. key \in ManifestLinks(v) /\ key[1] = r /\ key[2] = d
  BY <1>1 DEF ManifestLinks
<1>3. \A x \in Named(d) : RequireLink(v, r, x)
  BY DEF TagsWhole
<1>4. Named(d) = MustExist[d.of]
  BY <1>1 DEF Named
<1>5. \A y \in Named(d) : \A z \in Named(y) : z.of \notin Manifests
  BY <1>1, <1>4 DEF TwoDeep
<1> HIDE DEF r, d, key
<1>6. Reads(d)
  <2>1. RequireLink(v, r, d)
    <3>1. d \in Names(v, d) /\ key = <<r, d>>
      BY DEF Names, key
    <3>2. QED  BY <1>1, <3>1, LinkOfNames
  <2>2. d \in Found(v, key)
    BY <1>2 DEF Found
  <2>3. QED  BY <1>2, <2>1, <2>2, FoundIsReadable
<1>7. ASSUME NEW x \in Named(d) PROVE Reads(x)
  <2>1. x \in Found(v, key)
    BY <1>2 DEF Found
  <2>2. QED  BY <1>2, <1>3, <2>1, FoundIsReadable
<1>8. ASSUME NEW y \in Named(d), NEW x \in Named(y) PROVE Reads(x)
  <2>1. y.of \in Manifests /\ x.of \notin Manifests
    BY <1>5 DEF Named
  <2>2. PICK z \in Names(v, y) : <<r, z>> \in DOMAIN v.links
    BY <1>3, LinkOfNames DEF RequireLink
  <2> DEFINE at == <<r, z>>
  <2>3. z.of = y.of
    BY DEF Sound, TagsServed, Names, AliasOf
  <2>4. at \in ManifestLinks(v) /\ at[1] = r /\ at[2] = z
    BY <1>0, <2>1, <2>2, <2>3 DEF Sound, TagsServed, ManifestLinks
  <2> HIDE DEF at
  <2>5. x \in Named(z)
    BY <2>1, <2>3 DEF Named
  <2>6. RequireLink(v, r, x)
    BY <1>0, <2>1, <2>4, <2>5 DEF LayersKept
  <2>7. x \in Found(v, at)
    BY <2>4, <2>5 DEF Found
  <2>8. QED  BY <2>1, <2>4, <2>6, <2>7, FoundIsReadable
<1>9. Reached(d) \subseteq P
  <2>1. d \in P
    OBVIOUS
  <2>2. ASSUME NEW y \in P PROVE Named(y) \subseteq P
    <3>1. CASE y = d \/ y \in Named(d)
      BY <3>1
    <3>2. CASE \E u \in Named(d) : y \in Named(u)
      <4>1. y.of \notin Manifests
        BY <1>5, <3>2
      <4>2. QED  BY <4>1 DEF Named
    <3>3. QED  BY <3>1, <3>2
  <2> HIDE DEF P
  <2>3. QED  BY <2>1, <2>2, ReachedFacts
<1>10. \A x \in P : Reads(x)
  BY <1>6, <1>7, <1>8
<1>11. PullsCompletely(v, r, d)
  <2> HIDE DEF P
  <2>1. QED  BY <1>9, <1>10 DEF PullsCompletely
<1>12. QED  BY <1>11 DEF r, d

(* "After every collect, every tag in every repository must pull completely" *)
(* (data-model.md), at every moment and not only after it: pushes, PUTs,     *)
(* mounts and deletes interleave, the server and the collector are killed    *)
(* between any two durable steps, and every tag pulls through to its layers  *)
(* in every repository where nothing was deleted by digest; until something  *)
(* happens that Calm excludes.                                               *)
THEOREM CollectorTagsPull ==
    ASSUME TwoDeep,
           \A v \in InitialVolumes : /\ Orderly(v) /\ Intact(v)
                                      /\ LayersKept(v, Repos) /\ TagsWhole(v, Repos)
    PROVE  GcSpec => []TagsPullWhenCalm
<1> DEFINE Full == Stocked(vol, req, Repos \ past.trimmed)
<1>1. GcSpec => [](PastOK /\ (Calm => InCalm))
  BY AlwaysCalm
<1>2. GcInit => Full
  <2> SUFFICES ASSUME GcInit PROVE Full
    OBVIOUS
  <2>1. past.trimmed = {} /\ Repos \ {} = Repos
    BY DEF GcInit, NoPast
  <2>2. QED  BY <2>1, GcStartsStocked
<1>3. ASSUME PastOK, Calm => InCalm, (Calm => InCalm)', Calm => Full, [GcNext]_allVars, Calm'
      PROVE  Full'
  <2>1. /\ Calm /\ past.trimmed \subseteq past'.trimmed
        /\ Serving => \A a \in Requests : IsDelete(req'[a].op) => req'[a].repo \in past'.trimmed
    BY <1>3, PastStays
  <2>2. PICK T : T = Repos \ past'.trimmed
    OBVIOUS
  <2>3. PICK S : S = Repos \ past.trimmed
    OBVIOUS
  <2>4. T \subseteq S /\ Stocked(vol, req, S)
    BY <1>3, <2>1, <2>2, <2>3
  <2>5. Stocked(vol, req, T)
    BY <2>4, StockedFewer
  <2>6. Collectable /\ Collectable'
    BY <1>3, <2>1 DEF InCalm
  <2>7. Serving => \A a \in Requests : IsDelete(req'[a].op) => req'[a].repo \notin T
    BY <2>1, <2>2
  <2>8. Stocked(vol', req', T)
    BY <1>3, <2>5, <2>6, <2>7, StepStocks
  <2>9. QED  BY <2>2, <2>8
<1>4. ASSUME Calm => InCalm, Calm => Full PROVE TagsPullWhenCalm
  <2> SUFFICES ASSUME Calm, \A a \in Requests : open[a].at = {}, NEW key \in DOMAIN vol.tags,
                      key[1] \notin past.trimmed
               PROVE  PullsCompletely(vol, key[1], vol.tags[key])
    BY DEF TagsPullWhenCalm
  <2>1. Sound(vol) /\ Loosened(vol) /\ FilesOK
    BY <1>4 DEF InCalm, Collectable
  <2>2. Intact(vol)
    BY <2>1 DEF FilesOK, WholeFiles, Mending, Calm, Intact
  <2>3. PICK T : T = Repos \ past.trimmed
    OBVIOUS
  <2>4. LayersKept(vol, T) /\ TagsWhole(vol, T)
    BY <1>4, <2>3 DEF Stocked
  <2>5. key[1] \in T
    BY <2>1, <2>3 DEF Sound, TypedVolume
  <2>6. QED  BY <2>1, <2>2, <2>4, <2>5, StockedPulls
<1> HIDE DEF Full
<1>5. QED  BY <1>1, <1>2, <1>3, <1>4, PTL DEF GcSpec
=============================================================================
