-------------------------- MODULE MCTensorAssemble --------------------------
(* A small layout: a literal, two tensors that lie behind each other in one *)
(* file, a view, a large tensor without pieces, a small and a large one     *)
(* with pieces, and one that only a gateway may hold.                       *)
EXTENDS TensorAssemble

CONSTANTS hf, pin, gw

At(off) == [url |-> FALSE, host |-> hf, file |-> "model", off |-> off]
Copy(off) == [url |-> FALSE, host |-> hf, file |-> "other", off |-> off]
Pinned == [url |-> TRUE, host |-> pin, file |-> "", off |-> 0]
Seg(kind, len, pieced, own, alts) ==
    [kind |-> kind, len |-> len, pieced |-> pieced, own |-> own, alts |-> alts]
Range(type, a, b) == [type |-> type, a |-> a, b |-> b]

MCSegments == <<
    Seg("l", 1, FALSE, <<>>, <<>>),
    Seg("t", 1, FALSE, <<At(1)>>, <<Copy(0)>>),
    Seg("t", 2, FALSE, <<At(2)>>, <<Pinned>>),
    Seg("v", 1, FALSE, <<>>, <<>>),
    Seg("t", 4, FALSE, <<At(5)>>, <<Pinned>>),
    Seg("t", 2, TRUE, <<At(9)>>, <<>>),
    Seg("t", 4, TRUE, <<At(11)>>, <<>>),
    Seg("t", 1, FALSE, <<>>, <<>>)>>
MCRanges == {Range("whole", 0, 0), Range("span", 3, 9), Range("last", 7, 0), Range("last", 40, 0), Range("from", 20, 0)}
MCGateways == <<gw>>
=============================================================================
