-------------------------- MODULE OciVolumeProofs --------------------------
(***************************************************************************)
(* What the durable steps of OciVolume do to each table, stated once and   *)
(* cited by the proofs about the modules that string the steps together.   *)
(***************************************************************************)
EXTENDS OciVolume, TLAPS

(* A record with exactly the tables of a volume. *)
IsVolume(v) ==
    v = [files |-> v.files, objects |-> v.objects, links |-> v.links,
         aliases |-> v.aliases, referrers |-> v.referrers, repos |-> v.repos,
         tags |-> v.tags, recorded |-> v.recorded]

(* A fresh volume has every table, all empty. *)
LEMMA EmptyIsVolume ==
    /\ IsVolume(EmptyVolume)
    /\ DOMAIN EmptyVolume.files = {} /\ DOMAIN EmptyVolume.links = {}
    /\ DOMAIN EmptyVolume.aliases = {} /\ DOMAIN EmptyVolume.tags = {}
    /\ EmptyVolume.objects = {} /\ EmptyVolume.referrers = {} /\ EmptyVolume.repos = {}
BY DEF IsVolume, EmptyVolume, NoRows

(* Storing bytes under an address: the address is there afterwards, files   *)
(* that were there are untouched, the new one holds the bytes, and no other *)
(* table changes.                                                           *)
LEMMA StoreFileStores ==
    ASSUME NEW v, IsVolume(v), NEW d, NEW bytes,
           NEW w, w = StoreFile(v, d, bytes)
    PROVE  /\ IsVolume(w)
           /\ DOMAIN w.files = DOMAIN v.files \cup {d}
           /\ \A x \in DOMAIN v.files : w.files[x] = v.files[x]
           /\ d \notin DOMAIN v.files => w.files[d] = bytes
           /\ w.objects = v.objects /\ w.links = v.links /\ w.aliases = v.aliases
           /\ w.referrers = v.referrers /\ w.repos = v.repos /\ w.tags = v.tags
BY DEF Put, IsVolume, StoreFile, PutFile

(* A rename puts bytes over whatever is at the address. *)
LEMMA PutFilePuts ==
    ASSUME NEW v, IsVolume(v), NEW d, NEW bytes,
           NEW w, w = PutFile(v, d, bytes)
    PROVE  /\ IsVolume(w)
           /\ DOMAIN w.files = DOMAIN v.files \cup {d}
           /\ \A x \in DOMAIN v.files : x # d => w.files[x] = v.files[x]
           /\ w.files[d] = bytes
           /\ w.objects = v.objects /\ w.links = v.links /\ w.aliases = v.aliases
           /\ w.referrers = v.referrers /\ w.repos = v.repos /\ w.tags = v.tags
BY DEF Put, PutFile, IsVolume

(* Writing changes the files that are named and adds none. *)
LEMMA WriteFileWrites ==
    ASSUME NEW v, IsVolume(v), NEW names, NEW bytes,
           NEW w, w = WriteFile(v, names, bytes)
    PROVE  /\ IsVolume(w)
           /\ DOMAIN w.files = DOMAIN v.files
           /\ \A x \in DOMAIN v.files : w.files[x] = IF x \in names THEN bytes ELSE v.files[x]
           /\ w.objects = v.objects /\ w.links = v.links /\ w.aliases = v.aliases
           /\ w.referrers = v.referrers /\ w.repos = v.repos /\ w.tags = v.tags
BY DEF WriteFile, IsVolume

(* Linking a digest in a repository lists the repository. *)
LEMMA LinkAddLinks ==
    ASSUME NEW v, IsVolume(v), NEW r, NEW d, NEW kind,
           NEW w, w = LinkAdd(v, r, d, kind)
    PROVE  /\ IsVolume(w)
           /\ DOMAIN w.links = DOMAIN v.links \cup {<<r, d>>}
           /\ w.links[<<r, d>>] = kind
           /\ \A key \in DOMAIN v.links : key # <<r, d>> => w.links[key] = v.links[key]
           /\ w.repos = v.repos \cup {r}
           /\ w.files = v.files /\ w.objects = v.objects /\ w.aliases = v.aliases
           /\ w.referrers = v.referrers /\ w.tags = v.tags
BY DEF Put, IsVolume, LinkAdd

(* Unlinking takes the referrers rows of the unlinked manifest along. *)
LEMMA LinkRemoveUnlinks ==
    ASSUME NEW v, IsVolume(v), NEW r, NEW d,
           NEW w, w = LinkRemove(v, r, d)
    PROVE  /\ IsVolume(w)
           /\ DOMAIN w.links = DOMAIN v.links \ {<<r, d>>}
           /\ \A key \in DOMAIN w.links : w.links[key] = v.links[key]
           /\ w.referrers = {row \in v.referrers : ~(row[1] = r /\ row[3] = d)}
           /\ w.files = v.files /\ w.objects = v.objects /\ w.aliases = v.aliases
           /\ w.repos = v.repos /\ w.tags = v.tags
BY DEF Drop, IsVolume, LinkRemove

(* An alias pair is written in both directions. *)
LEMMA AliasPutPairs ==
    ASSUME NEW v, IsVolume(v), NEW a, NEW b, a # b,
           NEW w, w = AliasPut(v, a, b)
    PROVE  /\ IsVolume(w)
           /\ DOMAIN w.aliases = DOMAIN v.aliases \cup {a, b}
           /\ w.aliases[a] = b /\ w.aliases[b] = a
           /\ \A x \in DOMAIN v.aliases : x \notin {a, b} => w.aliases[x] = v.aliases[x]
           /\ w.files = v.files /\ w.objects = v.objects /\ w.links = v.links
           /\ w.referrers = v.referrers /\ w.repos = v.repos /\ w.tags = v.tags
<1> DEFINE inner == Put(v.aliases, a, b)
<1>1. /\ DOMAIN inner = DOMAIN v.aliases \cup {a}
      /\ inner[a] = b
      /\ \A k \in DOMAIN v.aliases : k # a => inner[k] = v.aliases[k]
  BY DEF Put
<1>2. /\ DOMAIN Put(inner, b, a) = DOMAIN inner \cup {b}
      /\ Put(inner, b, a)[b] = a
      /\ \A k \in DOMAIN inner : k # b => Put(inner, b, a)[k] = inner[k]
  BY DEF Put
<1>3. w.aliases = Put(inner, b, a)
  BY DEF IsVolume, AliasPut
<1>4. /\ IsVolume(w)
      /\ w.files = v.files /\ w.objects = v.objects /\ w.links = v.links
      /\ w.referrers = v.referrers /\ w.repos = v.repos /\ w.tags = v.tags
  BY DEF IsVolume, AliasPut
<1> HIDE DEF inner
<1> QED  BY <1>1, <1>2, <1>3, <1>4

(* The transaction that ends an upload links the blob, pairs its names and  *)
(* records the object; it touches no file.                                  *)
LEMMA CommitFinishedUploadCommits ==
    ASSUME NEW v, IsVolume(v), NEW r, NEW stored, NEW alias, NEW newly, stored # alias,
           NEW w, w = CommitFinishedUpload(v, r, stored, alias, newly)
    PROVE  /\ IsVolume(w)
           /\ w.files = v.files
           /\ DOMAIN w.links = DOMAIN v.links \cup {<<r, stored>>}
           /\ w.links[<<r, stored>>] = "blob"
           /\ \A key \in DOMAIN v.links : key # <<r, stored>> => w.links[key] = v.links[key]
           /\ DOMAIN w.aliases = DOMAIN v.aliases \cup {stored, alias}
           /\ w.aliases[stored] = alias /\ w.aliases[alias] = stored
           /\ \A x \in DOMAIN v.aliases :
                 x \notin {stored, alias} => w.aliases[x] = v.aliases[x]
           /\ w.objects \subseteq v.objects \cup {stored}
           /\ w.repos = v.repos \cup {r}
           /\ w.referrers = v.referrers /\ w.tags = v.tags
<1> DEFINE linked == LinkAdd(v, r, stored, "blob")
           paired == AliasPut(linked, stored, alias)
<1>1. /\ IsVolume(linked)
      /\ DOMAIN linked.links = DOMAIN v.links \cup {<<r, stored>>}
      /\ linked.links[<<r, stored>>] = "blob"
      /\ \A key \in DOMAIN v.links : key # <<r, stored>> => linked.links[key] = v.links[key]
      /\ linked.repos = v.repos \cup {r}
      /\ linked.files = v.files /\ linked.objects = v.objects /\ linked.aliases = v.aliases
      /\ linked.referrers = v.referrers /\ linked.tags = v.tags
  BY LinkAddLinks
<1> HIDE DEF linked
<1>2. /\ IsVolume(paired)
      /\ DOMAIN paired.aliases = DOMAIN linked.aliases \cup {stored, alias}
      /\ paired.aliases[stored] = alias /\ paired.aliases[alias] = stored
      /\ \A x \in DOMAIN linked.aliases :
            x \notin {stored, alias} => paired.aliases[x] = linked.aliases[x]
      /\ paired.files = linked.files /\ paired.objects = linked.objects
      /\ paired.links = linked.links /\ paired.referrers = linked.referrers
      /\ paired.repos = linked.repos /\ paired.tags = linked.tags
  BY <1>1, AliasPutPairs
<1>3. w = [paired EXCEPT !.objects = IF newly THEN @ \cup {stored} ELSE @]
  BY DEF CommitFinishedUpload, linked
<1> HIDE DEF paired
<1>4. /\ IsVolume(w)
      /\ w.objects \subseteq paired.objects \cup {stored}
      /\ w.files = paired.files /\ w.links = paired.links /\ w.aliases = paired.aliases
      /\ w.referrers = paired.referrers /\ w.repos = paired.repos /\ w.tags = paired.tags
  BY <1>2, <1>3 DEF IsVolume
<1>5. QED  BY <1>1, <1>2, <1>4

(* The transaction of a manifest PUT links the manifest and writes the      *)
(* referrers row of its subject together.                                   *)
LEMMA ManifestCommitCommits ==
    ASSUME NEW v, IsVolume(v), NEW r, NEW d, NEW kind, NEW subjects, NEW newly,
           NEW w, w = ManifestCommit(v, r, d, kind, subjects, newly)
    PROVE  /\ IsVolume(w)
           /\ w.files = v.files
           /\ DOMAIN w.links = DOMAIN v.links \cup {<<r, d>>}
           /\ w.links[<<r, d>>] = kind
           /\ \A key \in DOMAIN v.links : key # <<r, d>> => w.links[key] = v.links[key]
           /\ w.objects \subseteq v.objects \cup {d}
           /\ w.referrers = v.referrers \cup {<<r, s, d>> : s \in subjects}
           /\ w.repos = v.repos \cup {r}
           /\ w.aliases = v.aliases /\ w.tags = v.tags
<1> DEFINE linked == LinkAdd(v, r, d, kind)
<1>1. /\ IsVolume(linked)
      /\ DOMAIN linked.links = DOMAIN v.links \cup {<<r, d>>}
      /\ linked.links[<<r, d>>] = kind
      /\ \A key \in DOMAIN v.links : key # <<r, d>> => linked.links[key] = v.links[key]
      /\ linked.repos = v.repos \cup {r}
      /\ linked.files = v.files /\ linked.objects = v.objects /\ linked.aliases = v.aliases
      /\ linked.referrers = v.referrers /\ linked.tags = v.tags
  BY LinkAddLinks
<1>2. w = [linked EXCEPT !.objects = IF newly THEN @ \cup {d} ELSE @,
                         !.referrers = @ \cup {<<r, s, d>> : s \in subjects}]
  BY DEF ManifestCommit
<1> HIDE DEF linked
<1>3. /\ IsVolume(w)
      /\ w.objects \subseteq linked.objects \cup {d}
      /\ w.referrers = linked.referrers \cup {<<r, s, d>> : s \in subjects}
      /\ w.files = linked.files /\ w.links = linked.links /\ w.aliases = linked.aliases
      /\ w.repos = linked.repos /\ w.tags = linked.tags
  BY <1>1, <1>2 DEF IsVolume
<1>4. QED  BY <1>1, <1>3

(* Moving a tag and deleting a tag change the tags only. *)
LEMMA TagSetSets ==
    ASSUME NEW v, IsVolume(v), NEW r, NEW t, NEW d,
           NEW w, w = TagSet(v, r, t, d)
    PROVE  /\ IsVolume(w)
           /\ DOMAIN w.tags = DOMAIN v.tags \cup {<<r, t>>}
           /\ w.tags[<<r, t>>] = d
           /\ \A key \in DOMAIN v.tags : key # <<r, t>> => w.tags[key] = v.tags[key]
           /\ w.files = v.files /\ w.objects = v.objects /\ w.links = v.links
           /\ w.aliases = v.aliases /\ w.referrers = v.referrers /\ w.repos = v.repos
BY DEF Put, IsVolume, TagSet

LEMMA TagDeleteDeletes ==
    ASSUME NEW v, IsVolume(v), NEW r, NEW t,
           NEW w, w = TagDelete(v, r, t)
    PROVE  /\ IsVolume(w)
           /\ DOMAIN w.tags = DOMAIN v.tags \ {<<r, t>>}
           /\ \A key \in DOMAIN w.tags : w.tags[key] = v.tags[key]
           /\ w.files = v.files /\ w.objects = v.objects /\ w.links = v.links
           /\ w.aliases = v.aliases /\ w.referrers = v.referrers /\ w.repos = v.repos
BY DEF Drop, IsVolume, TagDelete
=============================================================================
