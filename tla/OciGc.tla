-------------------------------- MODULE OciGc --------------------------------
(***************************************************************************)
(* Garbage collection (src/oci_store/gc.rs, `hologram oci                  *)
(* garbage-collect`) composed with the registry's requests.  It runs only  *)
(* while the server is stopped (both databases are locked), so mark reads  *)
(* a volume nobody writes; the sweep is many durable steps, and a kill     *)
(* between any two leaves a half-swept volume for the next start.          *)
(***************************************************************************)
EXTENDS OciRegistry

CONSTANTS
    InitialVolumes,  \* volumes the run may start from
    MaxCollects,     \* bound: collections that ever start
    MaxGcKills       \* bound: kills of a collection

VARIABLES
    gc,         \* the collection: its step and what is left of its lists
    collects, gcKills,
    past        \* history: what happened on this volume that a collection minds

gcVars == <<gc, collects, gcKills, past>>
allVars == <<vars, gcVars>>

NoGc == [pc |-> "idle", untagged |-> {}, doomed |-> {}, stale |-> {}, names |-> {},
         all |-> FALSE, interrupted |-> FALSE]

(*   tripled   something was stored by sha512, a third algorithm           *)
(*   trimmed   repositories in which something was deleted by digest       *)
(*   rushed    the server was started on a collection that was cut short   *)
NoPast == [tripled |-> FALSE, trimmed |-> {}, rushed |-> FALSE]

GcInit ==
    /\ vol \in InitialVolumes
    /\ Fresh
    /\ gc = NoGc /\ collects = 0 /\ gcKills = 0 /\ past = NoPast

-----------------------------------------------------------------------------
(* Mark.  `all` is the absence of --delete-untagged: every manifest link   *)
(* is a root, not only those a tag points at by either name.               *)

ManifestLinks(v) == {key \in DOMAIN v.links : v.links[key] # "blob"}
TagTargets(v, r) == {v.tags[key] : key \in {k \in DOMAIN v.tags : k[1] = r}}

Roots(v, all) ==
    {key \in ManifestLinks(v) : all \/ Names(v, key[2]) \cap TagTargets(v, key[1]) # {}}

(* Variant for mutation: referrers are not followed. *)
FoundByBytes(v, key) == {key[2]} \cup Named(key[2])

(* What walking a manifest in a repository finds: itself, what its bytes   *)
(* name, and its referrers in that repository.                             *)
Found(v, key) ==
    {key[2]} \cup Named(key[2])
    \cup {row[3] : row \in {w \in v.referrers : w[1] = key[1] /\ w[2] \in Names(v, key[2])}}

(* What the walked manifests lead to: a manifest found anywhere is walked   *)
(* in every repository that links it, under either name.                   *)
FoundFrom(v, walked) ==
    {key \in ManifestLinks(v) :
        \E w \in walked : \E x \in Found(v, w) : Names(v, key[2]) \cap Names(v, x) # {}}

(* The worklist, round by round until nothing can be new. *)
Walked(v, all) ==
    LET within[n \in 0 .. Cardinality(ManifestLinks(v))] ==
          IF n = 0 THEN Roots(v, all)
          ELSE within[n - 1] \cup FoundFrom(v, within[n - 1])
    IN within[Cardinality(ManifestLinks(v))]

(* Variant for mutation: a digest is marked, its alias is not. *)
MarkedByOneName(v, all) == UNION {Found(v, key) : key \in Walked(v, all)}

Marked(v, all) == UNION {Names(v, x) : x \in UNION {Found(v, key) : key \in Walked(v, all)}}

IsMarked(v, all, d) == Names(v, d) \cap Marked(v, all) # {}

UntaggedLinks(v, all) == {key \in ManifestLinks(v) : ~IsMarked(v, all, key[2])}
StaleLinks(v, all) ==
    {key \in DOMAIN v.links \ ManifestLinks(v) : ~IsMarked(v, all, key[2])}
Doomed(v, all) == v.objects \ Marked(v, all)

(* A manifest that cannot be read stops the run before the sweep. *)
MarkSucceeds(v, all) == \A key \in Walked(v, all) : Served(v, key[1], key[2])

-----------------------------------------------------------------------------
(* The steps. *)

GcAt(pc) == ~up /\ gc.pc = pc
GcKeep == UNCHANGED <<collects, gcKills, past, req>> /\ Keep

(* The backfill is durable before mark. *)
Collect(all) ==
    LET v == ObjectsBackfill(vol) IN
    /\ GcAt("idle") /\ collects < MaxCollects
    /\ collects' = collects + 1
    /\ vol' = v
    /\ gc' = IF MarkSucceeds(v, all)
             THEN [gc EXCEPT !.pc = "delete", !.all = all,
                             !.untagged = UntaggedLinks(v, all),
                             !.doomed = Doomed(v, all),
                             !.stale = StaleLinks(v, all)]
             ELSE [gc EXCEPT !.pc = "failed"]
    /\ UNCHANGED <<gcKills, past, req>> /\ Keep

(* manifest_delete of each unmarked manifest: its tags, its link, then its *)
(* alias's link.  One that is no longer linked is an error.                *)
GcDelete ==
    /\ GcAt("delete") /\ gc.untagged # {}
    /\ \E key \in gc.untagged :
         LET names == Names(vol, key[2])
             untagged == [vol EXCEPT !.tags =
                            Drop(@, {k \in DOMAIN @ : k[1] = key[1] /\ @[k] \in names})]
         IN IF LinkedAsManifest(vol, key[1], key[2])
            THEN /\ vol' = LinkRemove(untagged, key[1], key[2])
                 /\ gc' = [gc EXCEPT !.untagged = @ \ {key}, !.pc = "delete_alias",
                             !.names = {<<key[1], d>> : d \in names \ {key[2]}}]
            ELSE /\ gc' = [gc EXCEPT !.pc = "failed"]
                 /\ UNCHANGED vol
    /\ GcKeep

GcDeleteAlias ==
    /\ GcAt("delete_alias")
    /\ IF gc.names = {} THEN UNCHANGED vol
       ELSE \E key \in gc.names : vol' = LinkRemove(vol, key[1], key[2])
    /\ gc' = [gc EXCEPT !.names = {}, !.pc = "delete"]
    /\ GcKeep

GcDeleted ==
    /\ GcAt("delete") /\ gc.untagged = {}
    /\ gc' = [gc EXCEPT !.pc = "sweep"]
    /\ UNCHANGED vol /\ GcKeep

(* Each doomed object: the file first, then everything that names it. *)
GcSweep ==
    /\ GcAt("sweep") /\ gc.doomed # {}
    /\ \E d \in gc.doomed :
         /\ vol' = BlobDelete(vol, d)
         /\ gc' = [gc EXCEPT !.pc = "forget", !.names = {d}, !.doomed = @ \ {d}]
    /\ GcKeep

GcForget ==
    /\ GcAt("forget")
    /\ \E d \in gc.names : vol' = ObjectForget(vol, d)
    /\ gc' = [gc EXCEPT !.pc = "sweep", !.names = {}]
    /\ GcKeep

(* Variant for mutation: the layer links are left. *)
GcSweptOnly ==
    /\ GcAt("sweep") /\ gc.doomed = {}
    /\ gc' = [gc EXCEPT !.pc = "links", !.stale = {}]
    /\ UNCHANGED vol /\ GcKeep

GcSwept ==
    /\ GcAt("sweep") /\ gc.doomed = {}
    /\ gc' = [gc EXCEPT !.pc = "links"]
    /\ UNCHANGED vol /\ GcKeep

GcUnlink ==
    /\ GcAt("links") /\ gc.stale # {}
    /\ \E key \in gc.stale :
         /\ vol' = LinkRemove(vol, key[1], key[2])
         /\ gc' = [gc EXCEPT !.stale = @ \ {key}]
    /\ GcKeep

GcDone ==
    /\ GcAt("links") /\ gc.stale = {}
    /\ gc' = [NoGc EXCEPT !.pc = "done", !.all = gc.all]
    /\ UNCHANGED vol /\ GcKeep

(* The command has exited: done, or failed part-way. *)
GcExit ==
    /\ ~up /\ gc.pc \in {"done", "failed"}
    /\ gc' = [NoGc EXCEPT !.interrupted = gc.pc = "failed" /\ gc.interrupted]
    /\ UNCHANGED vol /\ GcKeep

GcRunning == gc.pc \notin {"idle", "done", "failed"}

GcKill ==
    /\ ~up /\ GcRunning /\ gcKills < MaxGcKills
    /\ gcKills' = gcKills + 1
    /\ gc' = [NoGc EXCEPT !.interrupted = TRUE]
    /\ UNCHANGED <<vars, collects, past>>

-----------------------------------------------------------------------------
(* The server is stopped between requests, and started again. *)
Stop ==
    /\ up /\ \A a \in Requests : req[a].pc = "idle"
    /\ up' = FALSE
    /\ UNCHANGED <<vol, req, arrived, kills, wild, torn, gcVars>> /\ KeepOpen

(* Nothing makes an operator finish a collection before the server starts. *)
Start ==
    /\ gc.pc = "idle"
    /\ Restart
    /\ past' = [past EXCEPT !.rushed = @ \/ gc.interrupted]
    /\ UNCHANGED <<gc, collects, gcKills>>

StoresBySha512(q) == (q.op = "push" \/ IsPut(q.op)) /\ q.digest.alg = "sha512"

Serving ==
    /\ \/ Arrival
       \/ \E a \in Requests : Serve(a)
       \/ Kill
    /\ past' = [past EXCEPT
                  !.tripled = @ \/ \E a \in Requests : StoresBySha512(req'[a]),
                  !.trimmed = @ \cup {req'[a].repo :
                                        a \in {b \in Requests : IsDelete(req'[b].op)}}]
    /\ UNCHANGED <<gc, collects, gcKills>>

Collecting ==
    \/ \E all \in BOOLEAN : Collect(all)
    \/ GcDelete \/ GcDeleteAlias \/ GcDeleted
    \/ GcSweep \/ GcForget \/ GcSwept
    \/ GcUnlink \/ GcDone \/ GcExit \/ GcKill

GcNext == Serving \/ Stop \/ Start \/ Collecting

GcSpec == GcInit /\ [][GcNext]_allVars

-----------------------------------------------------------------------------
(* Properties.  Nothing below is promised of a volume on which requests    *)
(* disturbed each other, a kill left a manifest cut short, sha512 gave     *)
(* something a third name, or the server ran before a collection that was  *)
(* cut short had been rerun.                                               *)
Calm == wild = {} /\ torn = {} /\ ~past.tripled /\ ~past.rushed

(* At every moment, also inside a sweep, after a killed one and between the *)
(* steps of requests, every tag pulls completely, through indexes, configs  *)
(* and layers, in every repository where nothing was deleted by digest.     *)
TagsPullWhenCalm ==
    Calm /\ (\A a \in Requests : open[a].at = {}) =>
        \A key \in DOMAIN vol.tags :
           key[1] \notin past.trimmed => PullsCompletely(vol, key[1], vol.tags[key])

(* "Every referrer of a tagged manifest must be listed and pull": a step    *)
(* taken by the collection keeps the referrers row of a subject a tag       *)
(* points at, and what that referrer needs.                                 *)
CollectKeepsReferrers ==
    [][Calm /\ ~up /\ ~up' =>
        \A row \in vol.referrers :
           (/\ Names(vol, row[2]) \cap TagTargets(vol, row[1]) # {}
            /\ PullsCompletely(vol, row[1], row[3]))
           => row \in vol'.referrers /\ PullsCompletely(vol', row[1], row[3])]_allVars

(* A collection that ran to the end leaves nothing for another one to do,   *)
(* also when an earlier one was killed half-way: no unmarked manifest, no   *)
(* unmarked object, no unmarked layer link, and no link without bytes.      *)
DoneIsClean ==
    Calm /\ gc.pc = "done" =>
        /\ UntaggedLinks(vol, gc.all) = {}
        /\ Doomed(vol, gc.all) = {}
        /\ StaleLinks(vol, gc.all) = {}
        /\ LinkedIsStored

(* "After every `collect`, every tag in every repository must pull          *)
(* completely" (data-model.md, the property test of garbage collection).    *)
CollectedTagsPull == gc.pc = "done" => TagsPullCompletely
=============================================================================
