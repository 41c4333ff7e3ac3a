------------------------------- MODULE MCOciGc -------------------------------
(* Small instances of OciGc. *)
EXTENDS OciRegistryProofs

CONSTANTS q1, r1, r2, t1, layer, spare, image, list, sig

MCKind == [m \in Manifests |-> IF m = list THEN "index" ELSE "manifest"]
(* The image names its layer by blake3, as descriptors may. *)
MCMustExist ==
    [m \in Manifests |->
        CASE m = image -> {Digest("blake3", layer)}
          [] m = list -> {Digest("sha256", image)}
          [] OTHER -> {}]
MCSubject ==
    [m \in Manifests |-> IF m = sig THEN {Digest("sha256", image)} ELSE {}]

(* An image and its layer pushed to a repository and tagged, as three      *)
(* requests leave them.                                                    *)
Pushed(v, r, c, alg) ==
    LET d == Digest(alg, c)
        stored == StoreFile(v, d, c)
        linked == IF NeedsHardLink(d) THEN HardLinkSha256(stored, d) ELSE stored
    IN CommitFinishedUpload(linked, r, d, OtherName(d), NewlyStored(v, d))
PutBy(v, r, m, alg) ==
    LET d == Digest(alg, m)
        stored == StoreFile(v, d, m)
        linked == IF NeedsHardLink(d) THEN HardLinkSha256(stored, d) ELSE stored
    IN ManifestCommit(AliasPut(linked, d, OtherName(d)), r, d, Kind[m], Subject[m],
                      NewlyStored(v, d))
Image(alg) ==
    TagSet(PutBy(Pushed(EmptyVolume, r1, layer, alg), r1, image, "sha256"),
           r1, t1, Digest("sha256", image))

(* The same, as a binary from before OBJECTS left it, with a layer that    *)
(* nothing uses.                                                           *)
Old == [Pushed(Image("sha256"), r1, spare, "sha256") EXCEPT !.objects = {}, !.recorded = FALSE]

MCVolumes == {EmptyVolume, Image("sha256"), Image("blake3"), Old}
MCImages == {Image("sha256"), Image("blake3")}

(* The volumes are ones the theorems about the collector speak of. *)
ASSUME AsProved ==
    /\ TwoDeep
    /\ \A v \in InitialVolumes : /\ Orderly(v) /\ Intact(v)
                               /\ LayersKept(v, Repos) /\ TagsWhole(v, Repos)
=============================================================================
