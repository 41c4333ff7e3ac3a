----------------------------- MODULE OciRegistry -----------------------------
(***************************************************************************)
(* The registry's requests over one volume: the end of a blob push, a      *)
(* manifest PUT, a cross-repository mount, and the deletes                 *)
(* (src/oci_store/manifests.rs, blobs.rs, links.rs and the routes of       *)
(* src/modules/oci).  OciStore takes no lock across a call, every call     *)
(* runs on its own blocking thread, and its durable steps are separate     *)
(* transactions in two databases and a file tree; so each step here is an  *)
(* action, other requests interleave between steps, and a kill may come    *)
(* after any of them.                                                      *)
(*                                                                         *)
(* What a manifest says (the ManifestPlan of media.rs) is given by         *)
(* constants over manifest contents.                                       *)
(***************************************************************************)
EXTENDS Naturals, Sequences, FiniteSets, OciVolume

CONSTANTS
    Requests,      \* request processes that can be in flight at once
    Repos, Tags,
    Blobs,         \* contents that are layers and configs
    Manifests,     \* contents that are manifests
    Kind,          \* manifest content -> "manifest" | "index"
    MustExist,     \* manifest content -> digests it needs in its repository
    Subject,       \* manifest content -> its subject, a set of at most one digest
    Algorithms,    \* digest algorithms clients use
    Ops,           \* the operations clients call
    MaxRequests,   \* bound: requests that ever arrive
    MaxKills,      \* bound: kills of the server
    None           \* no repository, no digest; the bytes of a file cut short

Contents == Blobs \cup Manifests
AllOps == {"push", "put_tag", "put_digest", "mount",
           "delete_manifest", "delete_tag", "delete_blob"}
Digests == [alg : {"sha256"} \cup Algorithms \cup {"blake3"}, of : Contents]

ASSUME RegistryAssumption ==
    /\ None \notin Repos \cup Digests \cup Contents
    /\ Algorithms \subseteq {"sha256", "sha512", "blake3"}
    /\ IsFiniteSet(Manifests)
    /\ Kind \in [Manifests -> {"manifest", "index"}]
    /\ MustExist \in [Manifests -> SUBSET Digests]
    /\ Subject \in [Manifests -> SUBSET Digests]
    /\ Ops \subseteq AllOps
    /\ MaxRequests \in Nat
    /\ MaxKills \in Nat

VARIABLES
    vol,      \* the volume
    tmp,      \* the `.tmp` files beside it: address -> the bytes in the file
    open,     \* process -> the names that the file it is writing has by now
    up,       \* whether the server runs
    req,      \* the requests in flight: process -> local state
    arrived,  \* requests that have arrived
    kills,    \* kills so far
    wild,     \* history: repositories in which requests disturbed each other
    torn      \* history: contents of files that a kill left cut short

vars == <<vol, tmp, open, up, req, arrived, kills, wild, torn>>

-----------------------------------------------------------------------------
(* Local state of a request: `todo` is what a loop has left (references to *)
(* check, tags to delete), `unlink` the links still to remove, in order,   *)
(* `tag` the set of at most one tag the reference names.                   *)
Idle == [op |-> "none", pc |-> "idle", repo |-> None, tag |-> {}, digest |-> None,
         from |-> None, todo |-> {}, unlink |-> <<>>, newly |-> FALSE]

At(a, pc) == up /\ req[a].pc = pc
Set(a, r) == req' = [req EXCEPT ![a] = r]
Goto(a, pc) == Set(a, [req[a] EXCEPT !.pc = pc])
End(a) == Set(a, Idle)
KeepOpen == UNCHANGED <<tmp, open>>
Still == UNCHANGED <<up, arrived, kills, wild, torn>>
Keep == KeepOpen /\ Still

(* No file is open for writing. *)
Closed == [tmp |-> FALSE, at |-> {}]

Fresh ==
    /\ tmp = NoRows
    /\ open = [a \in Requests |-> Closed]
    /\ up = TRUE
    /\ req = [a \in Requests |-> Idle]
    /\ arrived = 0 /\ kills = 0
    /\ wild = {} /\ torn = {}

Init == vol = EmptyVolume /\ Fresh

-----------------------------------------------------------------------------
(* Requests arrive.  Nothing in the program keeps two of them apart.       *)

IsDelete(op) == op \in {"delete_manifest", "delete_blob"}
IsPut(op) == op \in {"put_tag", "put_digest"}

(* The two ways in which requests can spoil a repository, for the history  *)
(* variable `wild`: a delete by digest while a PUT of the same content, or *)
(* of a manifest that names it, is under way; and a manifest's bytes sent  *)
(* through a route for blobs, which does not look at the kind of a link.   *)
Interferes(p, q) ==
    /\ IsDelete(p.op) /\ IsPut(q.op) /\ p.repo = q.repo
    /\ p.digest.of \in {q.digest.of} \cup {d.of : d \in MustExist[q.digest.of]}
Crosses(p) == p.op \in {"push", "mount", "delete_blob"} /\ p.digest.of \in Manifests
Disturbed(q) ==
    {q[a].repo : a \in {b \in Requests :
                         Crosses(q[b]) \/ \E c \in Requests : Interferes(q[b], q[c])}}

Arrive(a, r) ==
    /\ At(a, "idle") /\ arrived < MaxRequests
    /\ r.op \in Ops
    /\ arrived' = arrived + 1
    /\ Set(a, r)
    /\ wild' = wild \cup Disturbed(req')
    /\ UNCHANGED <<vol, up, kills, torn>> /\ KeepOpen

(* A finished upload of content c, claimed by algorithm alg: what is left  *)
(* of upload_finish once the staged bytes match (OciUploads has the rest). *)
Push(a, r, c, alg) ==
    Arrive(a, [Idle EXCEPT !.op = "push", !.pc = "store", !.repo = r,
                           !.digest = Digest(alg, c)])

(* By tag the address is sha256, by digest what the client named. *)
PutByTag(a, r, m, t) ==
    Arrive(a, [Idle EXCEPT !.op = "put_tag", !.pc = "check", !.repo = r, !.tag = {t},
                           !.digest = Digest("sha256", m), !.todo = MustExist[m]])
PutByDigest(a, r, m, alg) ==
    Arrive(a, [Idle EXCEPT !.op = "put_digest", !.pc = "check", !.repo = r,
                           !.digest = Digest(alg, m), !.todo = MustExist[m]])
Mount(a, r, from, d) ==
    Arrive(a, [Idle EXCEPT !.op = "mount", !.pc = "stat", !.repo = r, !.from = from,
                           !.digest = d])
DeleteManifest(a, r, d) ==
    Arrive(a, [Idle EXCEPT !.op = "delete_manifest", !.pc = "lookup", !.repo = r,
                           !.digest = d])
DeleteTag(a, r, t) ==
    Arrive(a, [Idle EXCEPT !.op = "delete_tag", !.pc = "resolve", !.repo = r, !.tag = {t}])
DeleteBlob(a, r, d) ==
    Arrive(a, [Idle EXCEPT !.op = "delete_blob", !.pc = "stat", !.repo = r, !.from = r,
                           !.digest = d])

Arrival ==
    \E a \in Requests, r \in Repos :
       \/ \E c \in Contents, alg \in Algorithms : Push(a, r, c, alg)
       \/ \E m \in Manifests, t \in Tags : PutByTag(a, r, m, t)
       \/ \E m \in Manifests, alg \in Algorithms : PutByDigest(a, r, m, alg)
       \/ \E from \in Repos, c \in Contents, alg \in Algorithms :
             Mount(a, r, from, Digest(alg, c))
       \/ \E m \in Manifests, alg \in Algorithms : DeleteManifest(a, r, Digest(alg, m))
       \/ \E t \in Tags : DeleteTag(a, r, t)
       \/ \E c \in Contents, alg \in Algorithms : DeleteBlob(a, r, Digest(alg, c))

-----------------------------------------------------------------------------
(* Push and PUT. *)

(* Variants for mutation: nothing has to exist; the bytes are not stored. *)
CheckNothing(a) ==
    /\ At(a, "check")
    /\ Set(a, [req[a] EXCEPT !.pc = "store", !.todo = {}])
    /\ UNCHANGED vol /\ Keep
CheckThenCommit(a) ==
    /\ At(a, "check")
    /\ IF \A d \in req[a].todo : RequireLink(vol, req[a].repo, d)
       THEN Goto(a, "commit") ELSE End(a)
    /\ UNCHANGED vol /\ Keep

(* manifest_put's loop over must_exist; the first that is not linked       *)
(* refuses the whole (the others are only listed in the error).            *)
Check(a) ==
    /\ At(a, "check")
    /\ IF req[a].todo = {} THEN Goto(a, "store")
       ELSE \E d \in req[a].todo :
              IF RequireLink(vol, req[a].repo, d)
              THEN Set(a, [req[a] EXCEPT !.todo = @ \ {d}])
              ELSE End(a)
    /\ UNCHANGED vol /\ Keep

(* What follows the bytes. *)
Stored(q) == IF NeedsHardLink(q.digest) THEN "hard_link"
             ELSE IF q.op = "push" THEN "commit" ELSE "alias"

(* The bytes are wanted only when there is no file at the address yet; an  *)
(* upload renames its own staging file, a PUT writes a `.tmp` first.       *)
Store(a) ==
    LET new == NewlyStored(vol, req[a].digest) IN
    /\ At(a, "store")
    /\ Set(a, [req[a] EXCEPT !.newly = new,
                             !.pc = IF ~new THEN Stored(req[a])
                                    ELSE IF req[a].op = "push" THEN "place" ELSE "create"])
    /\ UNCHANGED vol /\ Keep

(* A file that is renamed over loses its name, also while it is written. *)
LosesName(b, d) == [open[b] EXCEPT !.at = @ \ {d}]

Place(a) ==
    LET d == req[a].digest IN
    /\ At(a, "place")
    /\ vol' = PutFile(vol, d, d.of)
    /\ open' = [b \in Requests |-> LosesName(b, d)]
    /\ Goto(a, Stored(req[a]))
    /\ UNCHANGED tmp /\ Still

(* File::create on the one `.tmp` path of the address: two PUTs of the     *)
(* same bytes share the file, and the second cuts what the first wrote.    *)
Create(a) ==
    /\ At(a, "create")
    /\ tmp' = Put(tmp, req[a].digest, None)
    /\ open' = [open EXCEPT ![a] = [tmp |-> TRUE, at |-> {}]]
    /\ Goto(a, "write")
    /\ UNCHANGED vol /\ Still

(* The bytes, into the file that was opened, whatever its names are now. *)
Write(a) ==
    LET d == req[a].digest IN
    /\ At(a, "write")
    /\ tmp' = IF open[a].tmp THEN Put(tmp, d, d.of) ELSE tmp
    /\ vol' = WriteFile(vol, open[a].at, d.of)
    /\ open' = [open EXCEPT ![a] = Closed]
    /\ Goto(a, "rename")
    /\ Still

(* A `.tmp` that another PUT has renamed already is an error.  A request   *)
(* that is still writing it goes on writing the file in its new place.     *)
Rename(a) ==
    LET d == req[a].digest IN
    /\ At(a, "rename")
    /\ IF d \in DOMAIN tmp
       THEN /\ vol' = PutFile(vol, d, tmp[d])
            /\ tmp' = Drop(tmp, {d})
            /\ open' = [b \in Requests |->
                          IF open[b].tmp /\ req[b].digest = d
                          THEN [tmp |-> FALSE, at |-> {d}] ELSE LosesName(b, d)]
            /\ Goto(a, Stored(req[a]))
       ELSE /\ End(a)
            /\ UNCHANGED vol /\ KeepOpen
    /\ Still

HardLink(a) ==
    LET d == req[a].digest
        second == Digest("sha256", d.of)
    IN
    /\ At(a, "hard_link")
    /\ vol' = HardLinkSha256(vol, d)
    /\ open' = [b \in Requests |->
                  IF NewlyStored(vol, second) /\ d \in open[b].at
                  THEN [open[b] EXCEPT !.at = @ \cup {second}] ELSE open[b]]
    /\ Goto(a, IF req[a].op = "push" THEN "commit" ELSE "alias")
    /\ UNCHANGED tmp /\ Still

OtherName(d) == Digest(IF d.alg = "blake3" THEN "sha256" ELSE "blake3", d.of)

(* A manifest's alias is a transaction of its own. *)
Alias(a) ==
    /\ At(a, "alias")
    /\ vol' = AliasPut(vol, req[a].digest, OtherName(req[a].digest))
    /\ Goto(a, "commit")
    /\ Keep

Commit(a) ==
    LET d == req[a].digest
        r == req[a].repo
    IN
    /\ At(a, "commit")
    /\ vol' = IF req[a].op = "push"
              THEN CommitFinishedUpload(vol, r, d, OtherName(d), req[a].newly)
              ELSE ManifestCommit(vol, r, d, Kind[d.of], Subject[d.of], req[a].newly)
    /\ IF req[a].tag = {} THEN End(a) ELSE Goto(a, "tag")
    /\ Keep

(* The tag moves last. *)
SetTag(a) ==
    /\ At(a, "tag")
    /\ \E t \in req[a].tag : vol' = TagSet(vol, req[a].repo, t, req[a].digest)
    /\ End(a)
    /\ Keep

-----------------------------------------------------------------------------
(* Mount and delete. *)

(* blob_stat in the source repository; bytes that are gone are an error. *)
Stat(a) ==
    LET d == req[a].digest IN
    /\ At(a, "stat")
    /\ IF ~RequireLink(vol, req[a].from, d) \/ ResolveStored(vol, d) = {}
       THEN End(a)
       ELSE \E stored \in ResolveStored(vol, d) :
              IF req[a].op = "mount"
              THEN Set(a, [req[a] EXCEPT !.pc = "link", !.digest = stored])
              ELSE Set(a, [req[a] EXCEPT !.pc = "unlink",
                             !.unlink = IF stored = d THEN <<d>> ELSE <<stored, d>>])
    /\ UNCHANGED vol /\ Keep

(* Variant for mutation: a kind no reader knows. *)
LinkAsLayer(a) ==
    /\ At(a, "link")
    /\ vol' = LinkAdd(vol, req[a].repo, req[a].digest, "layer")
    /\ End(a)
    /\ Keep

(* A mount links as a blob, whatever is linked there already. *)
Link(a) ==
    /\ At(a, "link")
    /\ vol' = LinkAdd(vol, req[a].repo, req[a].digest, "blob")
    /\ End(a)
    /\ Keep

(* manifest_delete: the names are fixed here. *)
Lookup(a) ==
    LET d == req[a].digest
        r == req[a].repo
    IN
    /\ At(a, "lookup")
    /\ IF LinkedAsManifest(vol, r, d)
       THEN Set(a, [req[a] EXCEPT !.pc = "list",
                      !.unlink = IF AliasOf(vol, d) = {} THEN <<d>>
                                 ELSE <<d, vol.aliases[d]>>])
       ELSE End(a)
    /\ UNCHANGED vol /\ Keep

TagsAt(v, r, names) == {t \in Tags : <<r, t>> \in DOMAIN v.tags /\ v.tags[<<r, t>>] \in names}
InSeq(s) == {s[i] : i \in 1 .. Len(s)}

(* Variant for mutation: only the tags at the name asked for. *)
ListTagsByOneName(a) ==
    /\ At(a, "list")
    /\ Set(a, [req[a] EXCEPT !.pc = "untag",
                 !.todo = TagsAt(vol, req[a].repo, {Head(req[a].unlink)})])
    /\ UNCHANGED vol /\ Keep

(* tag_list, once. *)
ListTags(a) ==
    /\ At(a, "list")
    /\ Set(a, [req[a] EXCEPT !.pc = "untag",
                 !.todo = TagsAt(vol, req[a].repo, InSeq(req[a].unlink))])
    /\ UNCHANGED vol /\ Keep

(* tag_delete by name, one transaction each. *)
Untag(a) ==
    /\ At(a, "untag") /\ req[a].todo # {}
    /\ \E t \in req[a].todo :
         /\ vol' = TagDelete(vol, req[a].repo, t)
         /\ Set(a, [req[a] EXCEPT !.todo = @ \ {t}])
    /\ Keep

Untagged(a) ==
    /\ At(a, "untag") /\ req[a].todo = {}
    /\ IF req[a].op = "delete_tag" THEN End(a) ELSE Goto(a, "unlink")
    /\ UNCHANGED vol /\ Keep

Unlink(a) ==
    LET left == req[a].unlink IN
    /\ At(a, "unlink")
    /\ vol' = LinkRemove(vol, req[a].repo, Head(left))
    /\ IF Len(left) = 1 THEN End(a) ELSE Set(a, [req[a] EXCEPT !.unlink = Tail(left)])
    /\ Keep

(* tag_delete: the tag must resolve. *)
ResolveTag(a) ==
    /\ At(a, "resolve")
    /\ IF \E t \in req[a].tag : <<req[a].repo, t>> \in DOMAIN vol.tags
       THEN Set(a, [req[a] EXCEPT !.pc = "untag", !.todo = req[a].tag])
       ELSE End(a)
    /\ UNCHANGED vol /\ Keep

-----------------------------------------------------------------------------
Kill ==
    /\ up /\ kills < MaxKills
    /\ kills' = kills + 1
    /\ up' = FALSE
    /\ req' = [a \in Requests |-> Idle]
    /\ open' = [a \in Requests |-> Closed]
    /\ torn' = torn \cup {d.of : d \in {x \in DOMAIN vol.files : vol.files[x] # x.of}}
    /\ UNCHANGED <<vol, tmp, arrived, wild>>

Restart == ~up /\ up' = TRUE /\ UNCHANGED <<vol, req, arrived, kills, wild, torn>> /\ KeepOpen

Serve(a) ==
    \/ Check(a) \/ Store(a) \/ Place(a) \/ Create(a) \/ Write(a) \/ Rename(a)
    \/ HardLink(a) \/ Alias(a) \/ Commit(a) \/ SetTag(a)
    \/ Stat(a) \/ Link(a) \/ Lookup(a) \/ ListTags(a) \/ Untag(a) \/ Untagged(a)
    \/ Unlink(a) \/ ResolveTag(a)

Next ==
    \/ Arrival
    \/ \E a \in Requests : Serve(a)
    \/ Kill
    \/ Restart

Spec == Init /\ [][Next]_vars

-----------------------------------------------------------------------------
(* What a pull sees. *)

(* The digests a pull of d goes through: what it names, what that names,   *)
(* as deep as indexes can nest.                                            *)
Named(d) == IF d.of \in Manifests THEN MustExist[d.of] ELSE {}
Reached(d) ==
    LET within[n \in 0 .. Cardinality(Manifests)] ==
          IF n = 0 THEN {d} ELSE within[n - 1] \cup UNION {Named(x) : x \in within[n - 1]}
    IN within[Cardinality(Manifests)]

Readable(v, r, d) ==
    /\ RequireLink(v, r, d)
    /\ \E stored \in ResolveStored(v, d) : v.files[stored] = d.of

(* manifest_get answers with the manifest's bytes. *)
Served(v, r, d) == LinkedAsManifest(v, r, d) /\ Readable(v, r, d)

PullsCompletely(v, r, d) ==
    \A x \in Reached(d) : IF x.of \in Manifests THEN Served(v, r, x) ELSE Readable(v, r, x)

-----------------------------------------------------------------------------
(* Properties. *)

Local == [op : AllOps \cup {"none"},
          pc : {"idle", "check", "store", "place", "create", "write", "rename", "hard_link",
                "alias", "commit", "tag", "stat", "link", "lookup", "list", "untag",
                "unlink", "resolve"},
          repo : Repos \cup {None}, tag : SUBSET Tags, digest : Digests \cup {None},
          from : Repos \cup {None}, todo : SUBSET (Tags \cup Digests),
          unlink : Seq(Digests), newly : BOOLEAN]

TypedVolume(v) ==
    /\ \A d \in DOMAIN v.files : d \in Digests /\ v.files[d] \in Contents \cup {None}
    /\ v.objects \subseteq Digests
    /\ \A key \in DOMAIN v.links :
          key \in Repos \X Digests /\ v.links[key] \in {"blob", "manifest", "index"}
    /\ \A d \in DOMAIN v.aliases : d \in Digests /\ v.aliases[d] \in Digests
    /\ v.referrers \subseteq Repos \X Digests \X Digests
    /\ v.repos \subseteq Repos
    /\ \A key \in DOMAIN v.tags : key \in Repos \X Tags /\ v.tags[key] \in Digests

(* The types of the volume's tables and of the requests in flight. *)
TypeOK ==
    /\ TypedVolume(vol)
    /\ \A d \in DOMAIN tmp : d \in Digests /\ tmp[d] \in Contents \cup {None}
    /\ open \in [Requests -> [tmp : BOOLEAN, at : SUBSET Digests]]
    /\ up \in BOOLEAN
    /\ req \in [Requests -> Local]
    /\ wild \subseteq Repos /\ torn \subseteq Contents

(* "No order of kills leaves ... a link pointing at bytes that are not      *)
(* stored" (manifests.rs, data-model.md): every step that links has seen    *)
(* its bytes in place, in its own call or in another repository's.          *)
LinkedIsStored == \A key \in DOMAIN vol.links : key[2] \in DOMAIN vol.files

(* A PUT has cut the file at d short and is writing it again. *)
Mending(d) == \E a \in Requests : d \in open[a].at

(* "No order of kills leaves a tag pointing at a manifest that is not       *)
(* linked": manifest_put tags last, manifest_delete untags first.  So a tag *)
(* points at a linked manifest at every moment, until a PUT and a delete of *)
(* related content meet in its repository or the routes for blobs are used  *)
(* on a manifest there; and the manifest is served, unless a second PUT of  *)
(* its bytes is just writing them or was killed while it did.               *)
TagIsServed ==
    \A key \in DOMAIN vol.tags :
       LET d == vol.tags[key] IN
       key[1] \notin wild =>
          /\ LinkedAsManifest(vol, key[1], d)
          /\ d.of \in torn \/ Mending(d) \/ Served(vol, key[1], d)

(* Every tag pulls completely, through indexes, configs and layers.         *)
TagsPullCompletely ==
    \A key \in DOMAIN vol.tags : PullsCompletely(vol, key[1], vol.tags[key])

(* A referrers row outlives its manifest's link in no interleaving and no   *)
(* kill: a deleted signature stops being listed (link_remove).              *)
ReferrerIsLinked == \A row \in vol.referrers : <<row[1], row[3]>> \in DOMAIN vol.links

(* The refinement: a link of either name puts its content on offer in its   *)
(* repository, and a tag points at the content of its digest.               *)
Promise == INSTANCE RegistryPromise WITH
    Needs <- [c \in Contents |-> {d.of : d \in Named(Digest("sha256", c))}],
    offered <- {<<key[1], key[2].of>> : key \in DOMAIN vol.links},
    tags <- [key \in DOMAIN vol.tags |-> vol.tags[key].of]

(* The requests, each in its several durable steps, interleaved and killed  *)
(* anywhere, do nothing a registry of whole, atomic operations would not:   *)
(* in particular the references a PUT checked are still there when it       *)
(* commits, and what a delete unlinks is no longer tagged.  Where requests  *)
(* do disturb each other, only their own repository shows it.               *)
ImplementsPromise == Promise!Spec
=============================================================================
