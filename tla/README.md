# Verification of the Hologram registry and model hub

TLA+ models of two parts of this repository, model-checked with TLC and partly
proved with TLAPS:

- the OCI registry inside `hologram` (`src/src/oci_store`,
  `src/src/modules/oci`) with the vendored Kappa store as the registry uses it
  (`src/third_party/kappa/crates/kappa-store-redb`);
- the parts of the model hub that move and keep bytes and people's records
  (`src/apps/model-hub/deploy/*.mjs`, `src/apps/model-hub/web/src/zip*.{mjs,js}`).

`PROJECT.json` maps every definition to its lines.

The registry was taken first because it is where this repository keeps data
for others: two embedded databases and a tree of files that no transaction
spans, written by concurrent requests, killed at any moment, and swept by an
offline collector that must never take what a tag needs. The model hub came
second because its promise, that no client ever completes a wrong file though
nobody who holds the bytes is trusted, is kept by concurrent JavaScript that
releases bytes before it knows the whole.

## 1. Inventory

### The registry

| Component | State | Operations | What is hard |
|---|---|---|---|
| Volume (`oci_store/links.rs`, `blobs.rs`, `mod.rs`) | blob files by digest; `links.redb`: LINKS, ALIASES, REFERRERS, REPOS, OBJECTS, UPLOADS, META; Kappa's tags | one transaction or one file operation each | no transaction spans two of them; a digest has several names |
| Uploads (`oci_store/uploads.rs`, `modules/oci/uploads.rs`, `body.rs`) | staging files, UPLOADS rows, `sessions` map, Kappa's session map, running blake3 | POST, PATCH, PUT, DELETE, status, purge, resume at start | concurrent requests on one session; offsets read before an await; torn frames; expiry by a row that is written rarely |
| Manifests and tags (`oci_store/manifests.rs`, `modules/oci/manifests.rs`, `delete.rs`, `media.rs`) | none of its own | PUT by tag or digest, GET, DELETE by tag or digest, mount, blob DELETE | several durable steps per request; checks made before the write they justify; two names |
| Garbage collection (`oci_store/gc.rs`) | none of its own | `collect`, with and without `--delete-untagged`, `--dry-run` | mark through aliases, repositories and referrers; kills inside the sweep |
| Kappa store (vendored) | blob tree, redb tables, upload sessions | `upload_*`, `ingest_verified`, `blob_delete`, `tag_*` | second address by hard link; a failed write moves no offset but may move bytes |
| Import, verify, usage, layout | a source volume and the same tables | copy, check, count | resumable copy; not modelled yet |
| Front (`modules/oci/mod.rs`, `auth.rs`, `token.rs`, `listing.rs`, ...) | none durable | routing, authentication, rendering, paging | not modelled; its dispatch is the `Arrival` action |

How they interact: the front dispatches a request; the handler calls
`OciStore` on a blocking thread, several calls per request for uploads, one
for the others; `OciStore` takes no lock across a call, so two requests
interleave between any two durable steps. `app.rs` runs a timer that purges
uploads. `hologram oci garbage-collect` opens the same volume when the server
does not hold it.

### The model hub

| Component | State | Operations | What is hard |
|---|---|---|---|
| Verifying edge (`verified-bytes.mjs`, `serveVerified` and `holders` of `hub-resolve.mjs`) | cache directory; `inflight`, `checked`, `liars` | GET, HEAD, Range of one file | bytes go out before the hash is known; every map is read again, or not, after an await; restart with a rotten copy |
| Piece reads (`kappa-get.mjs`) | `standing` (strikes of holders), the generator's window | `get` of a byte range | runs come back in any order; partial answers; blame shared by all gets |
| Tensor assembly (`tensor-assemble.mjs`, blob route of `tensor-mirror.mjs`) | `standing`, the window of reads, the response | `assemble` of a range of a file | grouped reads, fallbacks, segments streamed unchecked, promises nobody awaits yet |
| Account service (`hub-account.mjs`) | a file per App, a file per person, two line logs, `queues` | react, comment, delete, save, unsave, request, wallet, publisher request | read-modify-write around awaits; failing jobs in a queue; kills between two files |
| Zip download (`zip-sw.js`, `zip.mjs`) | `running`, streams begun ahead, the paced body | request, cancel from page or browser, resume after a break | abort against a waiting writer; old download against new; length told beforehand |
| Resolver, mirrors, scripts, pages (`hub-resolve.mjs`, `kappa-mirror.mjs`, `snapshot.mjs`, `web/`) | caches of the catalogue | read and translate | not modelled |

How they interact: `hub-resolve` names a file by its sha256 and lists the
holders, best first; with `HUB_VERIFY` set the edge fetches and passes it on.
`assemble` reads small segments itself and large ones with pieces through
`get`, and both share `standing`. `TensorAssemble` takes `get` at its word,
which is `KappaGet`'s `ReleasedRight`. The account service and the zip worker
stand alone; the worker checks the bytes of the same sources once more, in the
browser.

### The rest of the repository

The cluster (`src/src/cluster`): membership, admission tokens, proofs,
replication of artifacts between nodes over iroh. The `.holo` runtime
(`holo*.rs`, `application_plan.rs`, `compile.rs`): providers, components,
channels, capabilities. Inference and chat. The kernel (`module.rs`, `app.rs`,
`server.rs`, `process.rs`, `plugin.rs`, `ownership.rs`, ...). Artifact stores
and push/pull clients. Protocol and command line. `crates/` (application
watch, clients, views). `apps/desktop`, `apps/docs`. They are listed in
`PROJECT.json` with the reason each is not modelled, and in the plan below
when it is to be.

## 2. Modules

| Module | Stands for |
|---|---|
| `OciVolume` | the tables of a volume and its durable steps, as operators from volume to volume; no variables |
| `OciUploads` | uploads: requests, purge timer, kill, resume, clock |
| `OciRegistry` | push commit, manifest PUT, mount, deletes; extends `OciVolume` |
| `RegistryPromise` | the abstract registry: what each repository offers, where tags point, whole operations |
| `OciGc` | `collect` composed with `OciRegistry` (server up or collector running, never both) |
| `OciVolumeProofs` | lemmas on the durable steps |
| `OciRegistryProofs`, `OciUploadsProofs` | the inductive invariants and the theorems, of `OciRegistry` and `OciGc` and of `OciUploads` |
| `Filtering` | an array's `filter`, for `VerifiedBytes`, `KappaGet` and `HubAccount`; no variables |
| `VerifiedBytes` | the verifying edge: one file, its holders, its clients, restarts |
| `KappaGet` | `get` and `standing` |
| `TensorAssemble` | `assemble` and the range reading of the blob route |
| `HubAccount` | the writing routes of the account service |
| `ZipWriter` | the lengths of `sizeOf`, `add` and `finish`; no variables |
| `ZipDownload` | the zip worker; extends `ZipWriter` |
| `VerifiedBytesProofs`, `ZipDownloadProofs`, `KappaGetProofs`, `TensorAssembleProofs`, `HubAccountProofs` | their inductive invariants and theorems |
| `MC*` | small instances |

### The registry's modules

**State.** A volume is one record: `files` (address -> bytes held), `objects`
(OBJECTS), `links` (LINKS: repository and digest -> kind), `aliases`,
`referrers`, `repos`, `tags`, `recorded` (META "objects"). A digest is the pair
of an algorithm and the content it addresses; hashing is assumed collision
free. What a file *holds* is kept apart from what its name says, so hash on
write is a property and not a definition. In `OciUploads` the volatile state is
the code's: `live` is the `sessions` map, `sess` the session objects, `kappa`
Kappa's own session map; `hash` is the running blake3 as the set of the one
byte string hashed so far, empty when a restart lost it. Time is kept as ages
that saturate, because the code only ever compares `now - touched_ms`.

**Actions.** One per store call, or per durable step within one: that is where
another thread may run and where a kill may come. `upload_append` holds the
session's lock and is one action; a kill inside it is the `Torn` part of
`Kill`, which leaves any part of the frame. A client that goes away is
`ClientGone`: the handler is dropped between two store calls. `Restart` is
`OciStore::open` with `resume_uploads`. In `OciRegistry` the bytes of a push
come in as a finished upload, since `OciUploads` has the part before.

**Abstractions.** Bytes are symbols from a small set and FRAME is 2, so bodies
of one frame, of a frame and a tail, and torn frames all occur. What a manifest
says (references, subject, kind) is a constant function of its content. Media
types, sizes, annotations, log lines and error texts are left out; an error
ends the request.

**Files and the `.tmp` path.** An upload renames its own staging file; a PUT
checks that no file is at the address, creates (and truncates) the one `.tmp`
path of that address, writes and renames it, in four actions (`Store`,
`Create`, `Write`, `Rename`), so that two PUTs of the same bytes share the file
as they do in `blob_put_impl`. `tmp` holds the `.tmp` files, and `open` the
names that the file a request is writing has by now: a rename gives the open
file the address, a hard link the second address, and a write goes where the
names are. `StoreFile`, check and rename in one step, is used where no other
bytes can come between: `link(2)`, and in `OciUploads` the rename of a staging
file that holds the address's own bytes.

**History variables.** The code keeps no two requests apart and looks at no
link's kind in the routes for blobs, so requests can spoil a repository. The
models have all of that, and remember where it happened: `wild` is the
repositories in which a delete by digest met a PUT of the same content or of a
manifest that names it, or in which a push, a mount or a blob DELETE was given
a manifest's digest; `torn` is the contents of files a kill left cut short. In
`OciGc`, `past` adds whether anything was stored by sha512 (`tripled`), the
repositories in which something was deleted by digest (`trimmed`), and whether
the server was started on an interrupted collection (`rushed`). No guard reads
them; the properties do, and section 6 says what the code does in each case.

`Kill` is a process kill, not a power loss: what was written is there
afterwards. In `OciRegistry` requests do not fail for lack of disk; in
`OciUploads` they may (`DiskErrors`).

### The model hub's modules

**Steps.** Node and a service worker run one thread, so an action is what runs
between two awaits; where several awaits in a row touch nothing that others
see, they are one action (the write to a neighbour file and the change of the
record in memory are both in `Load` of `HubAccount`, the `rename` is `Rename`).

**Bytes.** A byte is written as its own offset and `Spoiled` is any other byte,
so that a repeated, lost or shifted byte shows as well as a wrong one. In
`VerifiedBytes`, where bytes are only counted and compared, they are counted:
`n` came from the holder, `good` of them, from the start, are right. Hashing is
assumed free of collisions. A chunk is one unit.

**Sources** may send other bytes, send too little or too much, break off, miss
their deadline, ignore a Range or answer with an error; which of these a source
does is chosen anew at each step. **Clients** may leave at any moment;
consumers may stop reading.

**State.** `VerifiedBytes` keeps the maps `inflight`, `checked` and `liars`
under their names for one sha256 (all state of the code is per sha256) and a
record per request with the holders left, what has landed, and what the client
was promised and has. `KappaGet.lies` is `standing`; a run is its holders left,
its pieces awaited and its pieces accepted. `TensorAssemble` keeps the
generator (`gen`), the window (`pending`), the promises (`fetch`) and the
response (`out`); `kept` is, for the properties only, the response without what
a source gave of a streamed segment before it broke off; `crashed` is set when a promise is rejected that nobody
awaits. In `HubAccount` a comment's id is the number of the request that made
it, and `mixed` remembers, for the property only, who had two account requests
under way at once; `log` is the lines of `requested.jsonl` and
`publisher-requests.jsonl`. In `ZipDownload` a download is its loop, its abort signal,
its body (`queue`, `waiting`) and the bytes written; a stream is what it has
received, its connection and its place in the list of sources.

**Abstractions.** Text, handles, times and headers are left out, and so are
`readRange`'s own retries (a read that fails has failed after them), the host
marks of `down`, token verification and rate limits. What the zip worker
writes in `finish` and for each of its two own files is one write each.

**Variants.** Operators introduced as "variant for mutation" are the mutated
forms that `PROJECT.json` names: they are used by no specification, and each
shows that a property can fail.

## 3. Runs

Passing runs, with their distinct states:

| Run | Bounds | Shows | States |
|---|---|---|---|
| `uploads` | 1 id, 2 requests at once, 3 in all, purge timer, 1 kill | `TypeOK`, `HashOnWrite`, `LinkedIsStored`, `AliasNamesSameBytes`, `AcksInPlace`, `QuietAgree`, `ExpiryNearlyTrue` | 1.7 M |
| `uploads_disk_errors` | the same, writes, rename and hard link may fail | `HashOnWrite` | 1.1 M |
| `uploads_drain` | 2 requests, 1 kill, fairness | `StagingDrains` | 42 k |
| `registry` | 2 repositories, layer, image, signature, every operation on every content by sha256 and blake3, 2 requests at once, 3 in all, 1 kill | `TypeOK`, `LinkedIsStored`, `TagIsServed`, `ReferrerIsLinked`, `ImplementsPromise` | 522 k |
| `gc` | 2 repositories, image, index, signature, every operation, 2 requests, 2 collections, 1 kill of each; 4 starting volumes | `TagsPullWhenCalm`, `DoneIsClean`, `CollectKeepsReferrers` | 2.5 M |
| `verified` | 2 holders, 2 requests at once, 3 in all, 2 units of which 1 is held back, any copy in the cache, 1 restart | `NeverFinishesWrong`, `CheckedIsRight`, `OneFetch`, `LiarsSkipped`, `EveryoneAnswered` | 515 k |
| `kappa_get` | 3 holders (any, listed twice; pieces only; honest), 5 pieces in 3 runs, 2 runs at once, 3 ranges | `ReleasedRight`, `BlameIsFair`, `Delivered` | 21 k |
| `assemble` | 8 segments of every kind, one without a source, window 2, 3 hosts, 5 ranges, one longer than the file, breaks anywhere | `KeptInOrder`, `CompleteIsRight`, `TransferEnds` | 184 k |
| `account` | 2 persons, a thread with a reply, 2 models of which 1 may be saved, 3 requests, 1 failed write or kill | `TypeOK`, `AckedStays`, `AllShown`, `SavedKept`, `EveryoneAnswered` | 672 k |
| `zip` | 2 downloads, a large, a small and an empty file, 2 tries of a source, 2 troubles | `TypeOK`, `ResumesInPlace`, `DoneIsRight`, `LengthKept`, `OnePerModel`, `WaitsOnlyWhenFull`, `Ends` | 129 k |

Two `ASSUME`s are checks of pure arithmetic that TLC evaluates with the runs:
`RangeAssumption` (`MCVerifiedBytes`) compares the range `sendFile` sends with
the meaning of a Range header for every small header, and `SizeAssumption`
(`MCZipDownload`) compares `sizeOf` with what `add` and `finish` write for all
lists of up to three entries around the 32-bit limit and for lists around the
16-bit limit of the entry count (both limits are scaled down by constants).

*Why the bounds are enough to be interesting.* A race on a session needs two
requests and the purge; the stale offset, the lost finish and the torn frame
followed by a resume each need at most three requests and one kill. In the
registry, an image needs its layer pushed and its PUT, and a third request
races with it; two PUTs of one artifact by tag, and a kill while the second
writes, show the shared `.tmp` file. A collection starts from volumes that a
push has already filled (also one written before OBJECTS existed), so that two
further requests and two collections, the first of them killed, are reached. At
the edge, one request that fetches, one that joins it or removes a rotten copy
under it, and a third that comes after a cut show every use of the three maps;
with two units and one held back, bytes go out both before and after the hash
is known. Five pieces in runs of two make a short last run and a short last
piece. A thread and a list of saved models are one away from their limits. In
`zip` the two tries of the first source are used up by two troubles, so the
next source is reached, and the directory record of the second file needs its
zip64 field. `kappa_get` has one get; the strikes of `standing` that other gets
of the process add are not part of the instance. Requests, repositories and
upload ids of the registry are symmetric; symmetry is not used in runs with
liveness.

*Deadlock.* `OciUploads` never stops, since time passes. The other systems stop
when the bounded number of requests is used up or the transfer is over, so
their configurations do not check for deadlock; that nothing stops too early is
what the liveness properties say.

*What the runs leave to the history variables.* No run keeps requests apart,
forces a collection to be rerun or forbids a break. `TagIsServed` and
`ImplementsPromise` say nothing more of a repository once it is `wild`, and
everything still of the other one; the properties of `gc` speak while the
volume is `Calm` (not `wild`, `torn`, `tripled` or `rushed`). The run `gc` uses
sha256 and blake3, `gc_three_names` sha512 as well. `assemble` and
`assemble_repeats` have the same instance.

*Fairness.* `uploads_drain`: weak fairness of the server's own steps (tokio
runs a ready task, a blocking thread ends its call), of the purge timer
(`purge_uploads_periodically` loops over an interval), of the restart (a
supervisor) and of the clock; nothing is assumed of clients. In the model hub:
weak fairness of the steps of each request, get, transfer or download. The
event loop runs what is ready; a read ends because it has a deadline
(`AbortSignal.timeout` in `verified-bytes`, `within` in `kappa-get` and
`tensor-assemble`). Two things are assumed that the code does not enforce, and
the properties say so: in `verified` a client that is connected drains its
socket (`EveryoneAnswered` excludes behaviours with `Abandoned`), and in `zip`
a source answers or its connection breaks, because that `fetch` has no
deadline. Arrivals, cancels and departures are never fair.

Runs that show the code departing from what the repository says of it:

| Run | Property | What happens |
|---|---|---|
| `gc_three_names` | `CollectedTagsPull` | aliases are pairs; a third name breaks the chain to the name the image uses |
| `assemble_repeats` | `InOrder` | a source breaks off inside a streamed segment; the next one starts at the segment's first byte and bytes are released twice |

## 4. Proofs

All proofs are checked by TLAPS for every value of the constants that meets the
`ASSUME` of the module (`UploadsAssumption`, `RegistryAssumption`,
`VerifiedAssumption`, `ZipAssumption`, `DownloadAssumption`, `GetAssumption`,
`AssembleAssumption`, `AccountAssumption`, `ThreadAssumption`): any number of
upload ids, requests, repositories, contents, holders, files, sources, comments,
kills and troubles, any sizes and limits. A theorem that needs more says so in
its `ASSUME`, and there are three such hypotheses: `~DiskErrors` for some of
the theorems on uploads, what the volumes a collector starts from satisfy, and
`TwoDeep` for `CollectorTagsPull`; without them the property is false, and
section 6 says where. Nothing is assumed of how requests meet: where the code
does not keep a promise, the property itself names the state in which it does
not (`wild`, `torn`, `Calm`, `kept`).

*`OciVolumeProofs`* says once what each durable step does to each table of a
volume (`StoreFileStores`, `LinkAddLinks`, `CommitFinishedUploadCommits`,
`ManifestCommitCommits`, ...). The next two modules cite these lemmas and never open
the operators.

*`OciRegistryProofs`*: `RegistryTypes` (`TypeOK`), `RegistryLinksStored`
(`LinkedIsStored`), `RegistryReferrersLinked` (`ReferrerIsLinked`).
`LinkedIsStored` is not inductive. The bytes are seen in place one or more
steps before the link is written, so the invariant also says, of each request
at each step, what it has established (`InFlight`): between the store and the
commit, and between a mount's stat and its link, the digest is in the blob
tree. The argument goes through because no request ever removes a blob file;
only the collector does, and the server is down while it runs. These hold in
every repository, `wild` or not.

What the files hold is an invariant of its own, `FilesOK`: a file at an address
holds its bytes unless a PUT has it open under that name or a kill left it so
(`WholeFiles`); a `.tmp` that somebody is about to rename is whole or is being
written (`WholeTmp`); and a file that is open has only names of the content
being written (`Opened`). Two PUTs can share a `.tmp`, and the first may rename
what the second has just truncated; the second then writes the file where it
has gone, so the damage mends itself when no kill comes between.

`RegistryTagsServed` (`TagIsServed`) has the invariant `TagsSettled`, said of
the repositories that are not `wild`: a tag points at a linked manifest unless
the one request that is deleting it is between its steps, and a PUT that is
about to write its tag still has its link. It rests on `TameIsQuiet`: where no
two requests have disturbed each other, none under way does, so a delete is
alone with the contents it unlinks and nothing turns a manifest's link into a
blob's. `RegistryKeepsPromise` (`ImplementsPromise`) is the refinement: the
abstract registry of `RegistryPromise` is read off the tables (what a repository
offers is what it links, a tag is its row, `wild` is itself), initial states map
to initial states, and of each action either nothing offered changes, a stutter,
or exactly one whole operation of the promise happens; for a DELETE the step at
which it takes effect is the removal of the link, and the tags listed are, by
`TagsSettled`, all there are. A step in a wild repository is `Damage`, which may
do anything there and nothing elsewhere.

*The collector* (also in `OciRegistryProofs`): `CollectorLeavesNothing`
(`DoneIsClean`), `CollectorTagsServed` (`Calm => TagIsServed`),
`CollectorKeepsReferrers` (`CollectKeepsReferrers`) and `CollectorTagsPull`
(`TagsPullWhenCalm`), all of `GcSpec`: every request, kills of the server, and
collections of both kinds killed between any two durable steps, from any
starting volume that is `Orderly` (its tables agree with each other and no link
has lost its bytes or its alias) and `Intact` (its files hold what their names
say). They speak while the volume is `Calm`. That is four things that happened
or did not, not assumptions on what may: clients may use any algorithm, and an
operator may start the server on a half-swept volume, after which nothing is
claimed. With something stored by sha512 a digest and its alias are not all the
names there are, and `gc_three_names` shows the collector taking what a tag
needs; the other three are in section 6. The invariant is `Calm => InCalm`: as
long as none of them has happened, the volume can be collected (`Collectable`,
below) and its files are in order. `MCOciGc` states the hypotheses of `CollectorTagsPull` as an `ASSUME`,
which TLC evaluates on the volumes of the `gc` run.

The argument has four parts.

- *Mark is a fixpoint.* `Walked` goes round by round, as many rounds as there
  are manifest links. `WalkedIsClosed` shows that this is enough (a round that
  adds nothing comes by then, by cardinality) and `WalkedIsLeast` that nothing
  superfluous is walked; `MarkFacts` says what follows: roots are walked, what a
  walked manifest leads to is marked under both names, and a marked manifest is
  walked in every repository that links it. `ReachedFacts` does the same for a
  pull.
- *A removal that spares the mark does not move it.* Each durable step of a
  sweep takes away only what is not marked (`Spares`), and then the mark of what
  is left is the mark there was (`MarkStays`). So the lists made at mark time
  are still right at every later step (`Listing`), and a second collection finds
  what the first had found.
- *What is broken is loose.* A kill between the deletion of a file and of the
  rows that name it leaves a link without bytes. Such a link is reached from no
  linked manifest (`Loosened`), because manifests go before objects; so a later
  mark, of either kind, does not find it and removes it. This is the part that
  makes the invariant (`Collectable`) inductive.
- *The server starts on an orderly volume.* An uninterrupted collection ends
  `Clean`, one started on an interrupted one is no longer calm, and while the
  server is up the invariants of the registry's own proofs hold, from any orderly volume and not
  only from the empty one (`Serveable`, `ServingKeeps`).

`TagIsServed` and `CollectKeepsReferrers` follow: what a tag, or a referrer of a
tagged manifest, needs is marked (`TagsAreMarked`, `PullIsMarked`) and reads as
before (`SparedReads`). `TagsPullWhenCalm` needs one invariant more, `Stocked`,
of the repositories in which nothing was deleted by digest (a client may delete
a layer that a manifest names, and then the tag does not pull): what a tagged
manifest names, and the blobs that any linked manifest names, are linked beside
it, and a PUT in flight has seen linked what it no longer has to check. It
assumes `TwoDeep`, that an index names images and not indexes of images (section
6), and that the starting volume is so stocked (`LayersKept`, `TagsWhole`).

*`OciUploadsProofs`*: `UploadsTypes` (`TypeOK`), `UploadsHashOnWrite`
(`HashOnWrite`), `UploadsLinksStored` (`LinkedIsStored`) and `UploadsAliases`
(`AliasNamesSameBytes`, when `DiskErrors` is false). The invariant has four
parts:

- `VolumeOK`: the properties themselves, of the volume;
- `TablesOK`: a session in the map has its object, an object has its staging
  file and, on a disk that does not fail, what it has hashed is that file;
- `Ready`: what a request relies on at its step. A request that begins an
  upload is alone with an empty file (`Began`); one that finishes or cancels
  holds a session that has left the map (`Holds`); between the rename and the
  commit the claim is stored and the hash is of its bytes (`Committing`); an
  append that finds Kappa's session finds the session object (`Appending`);
- `Apart`: two requests never hold the same session, and nobody acts on an
  upload that another is still beginning.

`Apart` is what the removal from the `sessions` map gives: an id is in the map
or held, never both, so of a finish, a cancel and a purge that race, one goes
on. Without it a finish could drop the file a second one is hashing, and the
hash of an object would no longer be the hash of its file. With `DiskErrors` a
write that fails leaves bytes the hash has not seen, and the hash clause says
nothing then; `HashOnWrite` and `LinkedIsStored` need none of it, because
Kappa hashes the staged file again at the end.

Three more say what a client and an operator see. `UploadsExpiry`
(`ExpiryNearlyTrue`): a session that is purged was past the age when it was
listed (`Timely` ties each listed id to its age then). `UploadsQuietAgree`
(`QuietAgree`, disk without errors): when no request is under way the map, the
session objects, Kappa's sessions and the staging files agree; the invariant says
of each that is without its counterpart which request is about to settle it
(`Settling`, `Owned`). `UploadsAcksInPlace` (`AcksInPlace`, disk without errors):
an acknowledged range is in the staging file, and an acknowledged commit in the
blob tree; it rests on the fact that a file only grows or goes as a whole
(`Grows`) and on what the request was told at each step (`Answered`).

*`VerifiedBytesProofs`*: `EdgeNeverFinishesWrong` (`NeverFinishesWrong`),
`EdgeCheckedIsRight` (`CheckedIsRight`), `EdgeOneFetch` (`OneFetch`) and
`EdgeSkipsLiars` (`LiarsSkipped`). What a
client has is safe only because of facts about other requests, so the
invariant has two parts. `Own`, of each request: before the headers the client
has nothing; while the edge streams it has less than it was promised, because
`Hold` is at least 1; at the end, what it has in full is right. `Shared`: the
three properties of the maps, and that the request named by `inflight` is one
that is fetching, and that a request about to send the file follows a check of
it. The last is why a file served from the cache is right: a request reaches
`send` only when `checked` is set, and from then until the process ends the
file is right or gone, although another request that hashed an older, rotten
copy may still remove it by name.

`EdgeSkipsLiars` adds `Lists`: a list of holders names a kind once, the list of
the fetch that runs names no liar, and while a holder is read it is the first
of it. The liars are looked up once, when a fetch begins, and the set may grow
until the fetch opens its next holder; `OneFetch` is why only that fetch can
have added one, and the holder it added has left its list. That a kind stands in
a list once is assumed of `Order` (`VerifiedAssumption`): `ORDER` of
`hub-resolve.mjs` names each kind once, and the sources of a model are sorted by
it. If a model named two sources of one kind, the second would be read after
the first had lied.

*`ZipDownloadProofs`*: `ZipDoneIsRight` (`DoneIsRight`), `ZipOnePerModel`
(`OnePerModel`), `ZipWaitsOnlyWhenFull` (`WaitsOnlyWhenFull`). The invariant
says of each download that the files before the current one are right (`Past`;
each was checked when its last byte was written and is never written again),
that a download that was aborted is at its end, and that one that waits has a
full body and was not aborted (`Paced`); `OnePerModel` ties the downloads to
`running`. `OnePerModel` is preserved by `Cleared` because a download clears
the map only of itself, and by `Arrive` because it aborts the one it replaces
in the same step.

`ZipTypes` (`TypeOK`) and `ZipResumesInPlace` (`ResumesInPlace`) have an
invariant of their own, `Flow`: of each stream, how its position, what it was
asked for and what the connection has left fit together through a break, a
resume at the next source and a source that ignores the Range.

`ZipLengthKept` (`LengthKept`) compares the Content-Length `sizeOf` told before
the first byte with what the writer sent. Its invariant is `Tallied`: the bytes
sent so far are the offset `sizeOf` told for the entries written (with the
header and the data of the entry under way), and the starts kept for the central
directory are those offsets. One entry of `sizeOf` is the header, the data and
the descriptor, plus a directory record, whichever of the two forms (zip64 or
not) its size and its start choose. The two running sums are the recursive
functions `Told` and `Directory`, whose equations are proved by the induction
over sets described below (`NatSetInduction`).

*`KappaGetProofs`*: `GetReleasesRight` (`ReleasedRight`), `GetBlameIsFair`
(`BlameIsFair`) and `GetNeverBlamesHonest` (`HonestUnblamed`). The invariant says of
each get (`Good`) that a run has kept only right pieces (`Kept`), that one that
ended well has all its pieces (`Complete`), that the runs in flight are the last
ones begun, in their order (`InLine`), and that what was given is the range's
start and ends exactly where the generator has come to (`Given`, `Place`).
Which holder a piece came from, and in what order the runs came in, falls out.
`HonestUnblamed`, the first conjunct of `BlameIsFair`, needs of that invariant
only that a run's pieces lie in the object; the argument is `HonestPart`: the
span from the first missing piece to the last, sent as asked for, holds every
missing piece at the place where the code looks for it, the short last piece of
the object included.

The second conjunct bounds the strikes a liar can collect: once demoted it is
asked before somebody honest only by runs whose line was made earlier. `Flying` says that only the
last `AHEAD` runs begun of a get are being fetched, and that a holder of pieces
is asked for everything still missing. `Debt` says that from its first strike on,
a holder's strikes and those still due to it (`Dues`) are together at most
`Most`, the bound. A strike due is a get, a run in flight, a missing piece
and a place of the holder in that run's line with nobody honest before it. An
answer turns due strikes into given ones (`AnswerDebt`, `CallDebt`); a new run
makes none due, because `Rank` puts a struck holder behind an honest one
(`RankFacts`); and at the first strike the dues are counted by an injection into
gets x `AHEAD` x pieces of a run x places in the list (`DuesFit`). The bound
counts places and not holders because one host may be in the list more than
once (`viaPieces` of `tensor-assemble.mjs` lists one holder per candidate
source and names it by its host, `holderOf`), and it is claimed when
somebody honest is listed (`HonestListed`): without that, nothing ever stands
before the liar. A bound that counts a holder once is false, as TLC
shows when the run lists one twice.

*`TensorAssembleProofs`*: `AssembleInOrder` (`KeptInOrder`) and
`AssembleCompleteIsRight` (`CompleteIsRight`), without hypotheses: sources break
off anywhere, and a suffix may be longer than the file. `InOrder` is false then
(run `assemble_repeats`); what holds is that a broken source's part of a streamed
segment is all that is out of order. `kept` is the response without those parts.
The response is `kept` or longer (`Spare`), so one of the right length that ends
well is right, and a repeat always shows in the length. The invariant is a chain
of places: what is kept ends where what the generator is giving begins, that ends
where the window begins, and each promise of the window ends where the next
one begins. Where a row begins is the recursive function `Base`; that it
satisfies its equation, and that it never decreases, is proved by an induction
written with sets (`LeastNat`, `NatSetInduction`: a set of naturals that is not
empty has a least one), because the library's induction theorem cannot be used.

*`HubAccountProofs`*: `AccountTypes` (`TypeOK`), `AccountAckedStays`
(`AckedStays`), `AccountAllShown` (`AllShown`) and `AccountSavedKept`
(`SavedKept`). An acknowledgement speaks of what the file said when the queue's
head read it, several awaits ago, so the invariant says who may have written
since:

- `Queued`: a file's queue holds exactly the requests of that file that are
  under way, once each, and only its head has read the file;
- `Written`: what the head is about to write is made from the file as it is now;
- `Alone`: a person who never had two account requests at once has at most
  one now, and it is the last that came (account files have no queue);
- `Threads`: ids are unique and not 0, a reply hangs on a comment of the same
  thread one level up, and each entry is accounted for by the request that made
  it or by the thread the run started from;
- `Placed`, `Effect`, `Words`: a request that was acknowledged left its mark in
  the file, and nothing but a delete by its author takes it away;
- `Lines`: a model in a person's record has its line in `requested.jsonl`, or
  some request for it is about to append it or was cut off before it did. This
  is why a 200 that found the model in the record may have no line, and the only
  reason.

`Delete`, `Unsave` and the queue drop elements with `Filter`, a recursive
function, in place of `SelectSeq`, which the prover cannot expand. That it keeps
exactly the elements asked for is `FilterFacts`, by the same induction over a
set; `VerifiedBytesProofs` proves by it that a filtered list names nobody twice,
and `KappaGetProofs` that `Rank` uses no place of the list twice.

Each invariant was checked with TLC on the configurations of section 3 before
it was proved.

Only model-checked: liveness (`StagingDrains`, the two `EveryoneAnswered`,
`Delivered`, `TransferEnds`, `Ends`), which is out of the prover's reach, as is
`ENABLED`. Every invariant and action property of the passing runs, and the
refinement `ImplementsPromise`, is stated by a theorem.

## 5. Plan

Done: the registry's write path, its abstract specification, garbage
collection, the byte-moving parts of the model hub and its account service, and
the theorems above. In order of what it would protect:

1. *Cluster.* `ClusterMembership` (admission tokens used once, join and leave,
   a node restarting with its identity) and `ClusterReplication` (artifact
   records and blobs arriving in any order, late, twice or never; a record is
   served only with its blob), composed as `Cluster`; abstract specification:
   a set of artifacts that only grows and converges.
2. *Import and verify.* `OciImport` over `OciVolume`: a copy killed and rerun
   is the copy run once; `verify` reports exactly the damage there is.
3. *`.holo` runtime.* The provider lifecycle (start, health, stop, crash), the
   channel broker (bounded queues, late consumers, closing), capability
   attenuation as a pure operator checked against subset of rights.
4. *Kernel.* Module resolution and start order, ownership of the data
   directory, stop signals.
5. *Reads.* `AsyncBlob`'s poll state machine: bytes in order, each once, also
   when a read is cancelled.
6. *Application watch* (`crates/hologram-application-watch`): a change during a
   build is never lost.
7. *Model hub.* The check of same-origin fetches in the zip worker
   (`kappaCheck`), the loading of manifests in `tensor-mirror.mjs`, `readRange`
   with its host marks composed with `TensorAssemble`.

## 6. Where the code departs from what is said of it

Besides the two runs above, reading and modelling showed these. The models
have them unless a line says that they assume otherwise, and no property claims
more than the code does.

Registry:

- `uploads.rs:345`: the purge lists the expired sessions and aborts them
  without looking at `touched_ms` again, so one that was resumed in between is
  aborted (`uploads.rs:337`: "untouched for longer than the purge age").
- `manifests.rs:168`: a PUT by tag beside a DELETE of the same manifest can
  leave a tag whose manifest is not linked (`manifests.rs:246`: "never a tag
  that points at nothing"), and a PUT beside a delete of something it names
  commits without it. The repository is `wild` then.
- `manifests.rs:267`: a DELETE removes by name the tags it listed, also one
  that a PUT has moved to another manifest since. The promise allows it: a tag
  goes (`Unpoint`).
- `delete.rs:58`: the blob route does not look at the link's kind, so `DELETE
  /blobs/<digest>` of a manifest unlinks it and leaves its tags at nothing, also
  when nothing else runs. A mount (`uploads.rs:138`) or a push of a manifest's
  bytes (`links.rs:547`) in the same way turns its link into a blob link, which
  serves no manifest and is no root for the collector. The repository is `wild`
  then.
- `blob.rs:169` (Kappa): two PUTs of the same bytes share one `.tmp` path, with
  no lock between the exists check and the rename. The first can rename what the
  second has just truncated; until the second has written, the address holds cut
  bytes, and a kill in between leaves them there, linked and tagged, where later
  PUTs find a file in place and keep it (`blob.rs:3`: "Invariant:
  hash(bytes_on_disk) == storage_address (kappa). Always."). The other of the two
  PUTs may be answered with an error, its `.tmp` being gone. `torn` has the
  contents of which this is so.
- `delete.rs:65`: a blob pushed by blake3 and deleted by its sha256 name is
  answered 202 and stays linked.
- `gc.rs:201`: an untagged manifest linked under both names is deleted twice,
  and the second delete ends the run before the sweep.
- `gc.rs:201`: a `--delete-untagged` that is killed after it deleted an image and
  before it deleted the untagged index that names it, followed by a collection
  without the option, leaves that index without its image; an outer index that
  names it is then accepted, since `manifest_put` checks one level, and its tag
  does not pull. Excluded by `TwoDeep`. A server started on an interrupted sweep
  accepts a PUT whose layer is linked and has lost its file; the volume is
  `rushed` then, and no longer calm.
- `links.rs:542`: bytes that a kill leaves between the rename and the link are
  found in place by the retry, never recorded in OBJECTS and never swept; the
  comment concedes it (errata E15), against `data-model.md:81`.

Model hub:

- `verified-bytes.mjs:113`: a client that leaves while the server waits for
  "drain" leaves the fetch unsettled, and later requests for the file wait for
  it. `EveryoneAnswered` excludes it (`Abandoned`).
- `verified-bytes.mjs:51`: a holder that sends too much is not noted among the
  liars and is asked again on a retry.
- `tensor-assemble.mjs:187`: a read of the window that fails before its turn
  rejects a promise nobody has caught, which ends a Node process;
  `TransferEnds` counts that as an end.
- `tensor-assemble.mjs:178`: a grouped read that lies is not noted in
  `standing`, against `tensor-assemble.mjs:69` ("one lie demotes every read").
- `tensor-mirror.mjs:256`: a suffix range longer than the file gives a negative
  start: the whole file is sent, under a Content-Length larger than the file.
- `tensor-assemble.mjs:92`: with `prefer` and no candidate at all the list gets
  an `undefined`, and the read of it throws; the transfer fails (`Undefined`).
- `verified-bytes.mjs:42`: the write stream of the cache has no error listener,
  so a refused disk write ends the process; the model fails the fetch only, and
  a restart may come at any moment anyway.
- `tensor-mirror.mjs:264`: the same wait for "drain" as above.
- `hub-account.mjs:317`: two account requests of one person under way at once
  overwrite each other's changes; `SavedKept` is claimed for persons whose
  requests come one after the other.
- `hub-account.mjs:357`: when the append to `requested.jsonl` fails, the retry
  finds the model already in the record and writes no line, though it is answered
  200. `AckedStays` excepts it (`Unlogged`).
- `hub-account.mjs:163` and `:85`: any read error counts as an empty record.
  The model assumes that a file that is there can be read.
- `zip-sw.js:162`: `fetch` has no deadline; `Ends` assumes that a source answers
  or breaks off.
- `zip-sw.js:95`: a chunk is added whenever there is any room below the mark, so
  in bytes a body may exceed it by less than one chunk. The model counts chunks.
- `zip-sw.js:133`: an abort that comes after the last write still reports
  "done".
- `zip-sw.js:53`: a failed fetch of a file list is kept as an empty list, so
  files of that revision pass unchecked, against the comment at line 33.

## 7. Not modelled

Power loss (fsync order), encryption and compression in Kappa, JSON limits of
manifests, authentication, listings and metrics, and the components of the
third part of the inventory. Of the model hub: the resolver's catalogue caches
and search, the mirrors' routes, build and publishing scripts, and page code,
which read, translate or render and keep no state of their own that two actors
write. Encodings (`PieceHasher`, `cidOf`, `gather`, CRC and field layout of a
zip) are taken as given; only their lengths and offsets are modelled. Numerical
backends, user interfaces, generated and vendored code are not meant to be
modelled; the bundles under `apps/model-hub/web/public/spaces` are minified
third-party code and most of the JavaScript in the repository by lines.
