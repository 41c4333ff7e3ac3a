----------------------------- MODULE ZipWriter ------------------------------
(***************************************************************************)
(* web/src/zip.mjs: the lengths of what ZipWriter puts out.  Entries are    *)
(* stored, so every part is a function of names and sizes, and the length   *)
(* of the archive is declared before its first byte (sizeOf) and then       *)
(* written part by part (add, finish).  An entry is its size and the length *)
(* of its name.                                                             *)
(***************************************************************************)
EXTENDS Integers, Sequences

CONSTANTS
    LIMIT32,      \* the largest value of a 32-bit field, which also means "see the zip64 field"
    LIMIT16       \* the largest value of a 16-bit field

ASSUME ZipAssumption == LIMIT32 \in Nat /\ LIMIT16 \in Nat

EntryType == [size : Nat, name : Nat]

Zip64(e) == e.size >= LIMIT32
If(c, n) == IF c THEN n ELSE 0

-----------------------------------------------------------------------------
(* sizeOf: the archive's length, told beforehand. *)
SizeStep(acc, e) ==
    LET big == acc.offset >= LIMIT32
    IN  [offset |-> acc.offset + 30 + e.name + If(Zip64(e), 20) + e.size + (IF Zip64(e) THEN 24 ELSE 16),
         directory |-> acc.directory + 46 + e.name
                         + If(Zip64(e) \/ big, 4 + If(Zip64(e), 16) + If(big, 8)),
         any64 |-> acc.any64 \/ Zip64(e)]

(* What is counted for the first k entries. *)
Told(entries) ==
    LET upTo[k \in 0 .. Len(entries)] ==
            IF k = 0 THEN [offset |-> 0, directory |-> 0, any64 |-> FALSE]
            ELSE SizeStep(upTo[k - 1], entries[k])
    IN  upTo

SizeOf(entries) ==
    LET t == Told(entries)[Len(entries)]
        needs64 == Len(entries) >= LIMIT16 \/ t.offset >= LIMIT32 \/ t.directory >= LIMIT32 \/ t.any64
    IN  t.offset + t.directory + If(needs64, 56 + 20) + 22

-----------------------------------------------------------------------------
(* add: a local header, the data, a descriptor, field by field. *)
HeaderLen(e) == (4 + 2 + 2 + 2 + 2 + 2 + 4 + 4 + 4 + 2 + 2) + e.name + If(Zip64(e), 2 + 2 + 8 + 8)
DescriptorLen(e) == 4 + 4 + (IF Zip64(e) THEN 8 + 8 ELSE 4 + 4)

(* finish: one directory record for each entry, which began at `start`, then *)
(* the ends.                                                                 *)
RecordLen(e, start) ==
    (4 + 2 + 2 + 2 + 2 + 2 + 2 + 4 + 4 + 4 + 2 + 2 + 2 + 2 + 2 + 4 + 4) + e.name
      + If(Zip64(e) \/ start >= LIMIT32, 2 + 2 + If(Zip64(e), 8 + 8) + If(start >= LIMIT32, 8))

(* The records of the first k entries; starts[k] is where entry k began. *)
Directory(entries, starts) ==
    LET upTo[k \in 0 .. Len(entries)] ==
            IF k = 0 THEN 0 ELSE upTo[k - 1] + RecordLen(entries[k], starts[k])
    IN  upTo

(* What finish puts after `offset` bytes. *)
FinishLen(entries, starts, offset) ==
    LET directory == Directory(entries, starts)[Len(entries)]
        needs64 == \/ Len(entries) >= LIMIT16 \/ offset >= LIMIT32 \/ directory >= LIMIT32
                   \/ \E k \in DOMAIN entries : Zip64(entries[k])
    IN  directory
        + If(needs64, (4 + 8 + 2 + 2 + 4 + 4 + 8 + 8 + 8 + 8) + (4 + 4 + 8 + 4))
        + (4 + 2 + 2 + 2 + 2 + 4 + 4 + 2)
=============================================================================
