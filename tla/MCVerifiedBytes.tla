-------------------------- MODULE MCVerifiedBytes --------------------------
(* Small instances of VerifiedBytes. *)
EXTENDS VerifiedBytes

CONSTANTS hf, ms

MCOrder == <<hf, ms>>
MCOneRange == {[type |-> "span", a |-> 1, b |-> 5]}

(* sendFile's arithmetic over every small Range: the part it sends is the    *)
(* part asked for, and it refuses exactly when nothing was.                  *)
MCAsks == [type : {"span", "from", "last"}, a : 0 .. 4, b : 0 .. 4]
ASSUME RangeAssumption ==
    \A ask \in MCAsks :
        IF FirstOf(ask) > LastOf(ask) \/ FirstOf(ask) >= Size
        THEN Wanted(ask) = {}
        ELSE FirstOf(ask) .. LastOf(ask) = Wanted(ask)
=============================================================================
