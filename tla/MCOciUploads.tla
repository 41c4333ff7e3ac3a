---------------------------- MODULE MCOciUploads ----------------------------
(* Small instances of OciUploads. *)
EXTENDS OciUploads, TLC

CONSTANTS a, b, u1, u2, q1, q2

(* One body of a full frame and a tail, one of a single short frame. *)
MCBodies == {<<a, a, b>>, <<b>>}
MCShortBodies == {<<a, b>>, <<b>>}

(* Digests clients claim: of a whole body by each algorithm in use, and of *)
(* two chunks in either order.                                             *)
MCClaims == {Digest("sha256", <<a, a, b>>), Digest("blake3", <<b>>),
             Digest("sha256", <<b, b>>)}
MCOneClaim == {Digest("sha256", <<b>>)}

MCSymmetry == Permutations({u1, u2}) \cup Permutations({q1, q2})
=============================================================================
