----------------------------- MODULE Filtering ------------------------------
(***************************************************************************)
(* An array's filter, which SelectSeq is too, but as a function by          *)
(* recursion on the length, so that its result can be reasoned about.       *)
(***************************************************************************)
EXTENDS Integers, Sequences

(* The entries of s that are in kept, in their order. *)
Filter(s, kept) ==
    LET upTo[k \in 0 .. Len(s)] ==
            IF k = 0 THEN <<>>
            ELSE IF s[k] \in kept THEN Append(upTo[k - 1], s[k]) ELSE upTo[k - 1]
    IN  upTo[Len(s)]
=============================================================================
