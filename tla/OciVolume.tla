----------------------------- MODULE OciVolume -----------------------------
(***************************************************************************)
(* The durable state of one registry volume and the store calls that read  *)
(* and write it (src/oci_store, over the vendored Kappa store).  Every     *)
(* writing operator below is ONE durable step of the program: a redb       *)
(* transaction, or a file rename, link or removal.  The modules that model *)
(* operations string these steps together and let other operations, and    *)
(* kills, come between them.                                               *)
(*                                                                         *)
(* A digest is an algorithm and the content it addresses: hashing is taken *)
(* to be collision free, so two digests are equal exactly when algorithm   *)
(* and content are.  What a blob file HOLDS is kept beside its address, so *)
(* that "the file holds what its name says" is a property, not a           *)
(* definition.                                                             *)
(***************************************************************************)

Digest(alg, content) == [alg |-> alg, of |-> content]

(* Tables are finite functions from keys to rows. *)
Put(table, key, row) ==
    [k \in DOMAIN table \cup {key} |-> IF k = key THEN row ELSE table[k]]
Drop(table, keys) == [k \in DOMAIN table \ keys |-> table[k]]
NoRows == [k \in {} |-> k]

(***************************************************************************)
(* One volume.                                                             *)
(*   files     the blob files: address -> the bytes in the file            *)
(*   objects   OBJECTS: the addresses the registry itself stored           *)
(*   links     LINKS: <<repository, digest>> -> "blob"|"manifest"|"index"  *)
(*   aliases   ALIASES: a digest -> the other name of the same bytes       *)
(*   referrers REFERRERS: <<repository, subject, referrer>>                *)
(*   repos     REPOS: the repositories that are listed                     *)
(*   tags      Kappa's tags: <<repository, tag>> -> digest                 *)
(*   recorded  META "objects": OBJECTS is complete, nothing to backfill    *)
(***************************************************************************)
EmptyVolume ==
    [files |-> NoRows, objects |-> {}, links |-> NoRows, aliases |-> NoRows,
     referrers |-> {}, repos |-> {}, tags |-> NoRows, recorded |-> TRUE]

-----------------------------------------------------------------------------
(* Reads. *)

(* alias_of, as a set of at most one digest. *)
AliasOf(v, d) == {v.aliases[a] : a \in {d} \cap DOMAIN v.aliases}

(* A digest and its alias: one hop, never further. *)
Names(v, d) == {d} \cup AliasOf(v, d)

(* The link answered for d in r: under d itself or else under its alias;  *)
(* a set of at most one kind.                                              *)
LinkOf(v, r, d) ==
    IF <<r, d>> \in DOMAIN v.links
    THEN {v.links[<<r, d>>]}
    ELSE {v.links[<<r, a>>] : a \in {b \in AliasOf(v, d) : <<r, b>> \in DOMAIN v.links}}

RequireLink(v, r, d) == LinkOf(v, r, d) # {}

LinkedAsManifest(v, r, d) == \E kind \in LinkOf(v, r, d) : kind # "blob"

(* The address the bytes of d are read from: d, or its alias when there is *)
(* no file at d.  Empty when the bytes are gone ("damage").                *)
ResolveStored(v, d) ==
    IF d \in DOMAIN v.files THEN {d} ELSE AliasOf(v, d) \cap DOMAIN v.files

-----------------------------------------------------------------------------
(* Durable steps. *)

(* A rename puts bytes at d, over whatever is there. *)
PutFile(v, d, bytes) == [v EXCEPT !.files = Put(@, d, bytes)]

(* Bytes written into files that have names already. *)
WriteFile(v, names, bytes) ==
    [v EXCEPT !.files = [x \in DOMAIN @ |-> IF x \in names THEN bytes ELSE @[x]]]

(* Check and rename in one step: a file already there is kept, and the     *)
(* caller is told that nothing was newly stored.  This is how link(2)      *)
(* works.  For a rename it is right only where what could come in between  *)
(* is the same bytes, whole: an upload's own staging file.                 *)
StoreFile(v, d, bytes) == IF d \in DOMAIN v.files THEN v ELSE PutFile(v, d, bytes)
NewlyStored(v, d) == d \notin DOMAIN v.files

(* Kappa's mandatory second address: a sha256 hard link to the file at d,  *)
(* unless something is already there.                                      *)
HardLinkSha256(v, d) == StoreFile(v, Digest("sha256", d.of), v.files[d])

(* Only a blob pushed under another algorithm needs the second address. *)
NeedsHardLink(d) == d.alg # "sha256"

BlobDelete(v, d) == [v EXCEPT !.files = Drop(@, {d})]

LinkAdd(v, r, d, kind) ==
    [v EXCEPT !.links = Put(@, <<r, d>>, kind), !.repos = @ \cup {r}]

(* Variant for mutation: the referrers rows stay. *)
LinkRemoveOnly(v, r, d) == [v EXCEPT !.links = Drop(@, {<<r, d>>})]

(* The link, and every referrers row of r in which d is the referrer. *)
LinkRemove(v, r, d) ==
    [v EXCEPT !.links = Drop(@, {<<r, d>>}),
              !.referrers = {row \in @ : ~(row[1] = r /\ row[3] = d)}]

RepoTouch(v, r) == [v EXCEPT !.repos = @ \cup {r}]

(* Both directions; a row that was there is overwritten. *)
AliasPut(v, a, b) == [v EXCEPT !.aliases = Put(Put(@, a, b), b, a)]

(* The one transaction at the end of an upload (the session row, which the *)
(* same transaction deletes, is the upload module's own variable).         *)
CommitFinishedUpload(v, r, stored, alias, newly) ==
    [AliasPut(LinkAdd(v, r, stored, "blob"), stored, alias)
        EXCEPT !.objects = IF newly THEN @ \cup {stored} ELSE @]

(* The one transaction of a manifest PUT; subjects is the set of at most   *)
(* one digest the manifest names as its subject.                           *)
ManifestCommit(v, r, d, kind, subjects, newly) ==
    [LinkAdd(v, r, d, kind)
        EXCEPT !.objects = IF newly THEN @ \cup {d} ELSE @,
               !.referrers = @ \cup {<<r, s, d>> : s \in subjects}]

TagSet(v, r, t, d) == [v EXCEPT !.tags = Put(@, <<r, t>>, d)]
TagDelete(v, r, t) == [v EXCEPT !.tags = Drop(@, {<<r, t>>})]

(* Once, on a volume written before OBJECTS existed. *)
ObjectsBackfill(v) ==
    IF v.recorded THEN v
    ELSE [v EXCEPT !.objects = @ \cup {key[2] : key \in DOMAIN v.links},
                   !.recorded = TRUE]

(* A swept object: its OBJECTS row, every link to it, every referrers row  *)
(* that names it or its alias, and its alias pair, except the half that    *)
(* points at a third name.                                                 *)
ObjectForget(v, d) ==
    LET names == Names(v, d)
        pointsBack == {a \in AliasOf(v, d) : AliasOf(v, a) = {d}}
    IN [v EXCEPT
          !.objects = @ \ {d},
          !.links = Drop(@, {key \in DOMAIN @ : key[2] = d}),
          !.referrers = {row \in @ : row[2] \notin names /\ row[3] \notin names},
          !.aliases = Drop(@, {d} \cup pointsBack)]
=============================================================================
