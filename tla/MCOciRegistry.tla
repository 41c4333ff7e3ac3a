---------------------------- MODULE MCOciRegistry ----------------------------
(* Small instances of OciRegistry. *)
EXTENDS OciRegistry, TLC

CONSTANTS q1, q2, r1, r2, t1,
          layer,   \* a layer
          image,   \* an image manifest with that layer
          sig      \* an artifact manifest whose subject is the image

MCKind == [m \in Manifests |-> "manifest"]
MCMustExist == [m \in Manifests |-> IF m = image THEN {Digest("sha256", layer)} ELSE {}]
MCSubject == [m \in Manifests |-> IF m = sig THEN {Digest("sha256", image)} ELSE {}]

MCSymmetry == Permutations({q1, q2}) \cup Permutations({r1, r2})
=============================================================================
