---------------------------- MODULE MCZipDownload ---------------------------
(* A large file from two sources, a small and an empty one from the gateway, *)
(* asked for twice; a limit for zip64 that the second file's offset passes.  *)
EXTENDS ZipDownload, SequencesExt

MCFiles == <<[size |-> 2, name |-> 1, small |-> FALSE, urls |-> <<"huggingface.co", "ipfs">>],
             [size |-> 1, name |-> 2, small |-> TRUE, urls |-> <<"ipfs">>],
             [size |-> 0, name |-> 1, small |-> TRUE, urls |-> <<"ipfs">>]>>
MCTails == <<[size |-> 3, name |-> 2]>>

(* sizeOf tells the length that add and finish write, for every list of up to *)
(* three entries whose sizes lie around the limit, and for long lists of      *)
(* empty files around the limit of the entry count.                           *)
AddAll(entries) ==
    FoldLeft(LAMBDA acc, e : [offset |-> acc.offset + HeaderLen(e) + e.size + DescriptorLen(e),
                              starts |-> Append(acc.starts, acc.offset)],
             [offset |-> 0, starts |-> <<>>], entries)
Written(entries) ==
    LET a == AddAll(entries) IN a.offset + FinishLen(entries, a.starts, a.offset)

Around == [size : {0, LIMIT32 - 1, LIMIT32}, name : {1, 3}]
ASSUME SizeAssumption ==
    /\ \A n \in 0 .. 3 : \A entries \in [1 .. n -> Around] : SizeOf(entries) = Written(entries)
    /\ \A n \in LIMIT16 - 1 .. LIMIT16 + 1 :
          LET entries == [k \in 1 .. n |-> [size |-> 0, name |-> 1]] IN SizeOf(entries) = Written(entries)
=============================================================================
