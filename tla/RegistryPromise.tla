--------------------------- MODULE RegistryPromise ---------------------------
(***************************************************************************)
(* What a registry promises, without digests, aliases, files, tables,      *)
(* requests or kills: which contents each repository offers and where its  *)
(* tags point.  A manifest is published only when all it names is on offer *)
(* in the same repository (contracts/registry-api.md, manifest validation, *)
(* rule 5); a tag points only at what is on offer; what a tag points at is *)
(* withdrawn only after the tag.  A repository may run wild: then nothing  *)
(* is promised of it any more, and of the others everything still.         *)
(***************************************************************************)
CONSTANTS Repos, Tags, Contents, Needs  \* content -> contents it names

VARIABLES
    offered,  \* the pairs <<repository, content>> a client can read
    tags,     \* <<repository, tag>> -> content
    wild      \* the repositories that ran wild

vars == <<offered, tags, wild>>

Tagged == {<<key[1], tags[key]>> : key \in DOMAIN tags}
Tame == Repos \ wild

Init == offered = {} /\ tags = [key \in {} |-> key] /\ wild = {}

Offer(r, c) ==
    /\ \A needed \in Needs[c] : <<r, needed>> \in offered
    /\ offered' = offered \cup {<<r, c>>}
    /\ UNCHANGED <<tags, wild>>

Point(r, t, c) ==
    /\ <<r, c>> \in offered
    /\ tags' = [key \in DOMAIN tags \cup {<<r, t>>} |-> IF key = <<r, t>> THEN c ELSE tags[key]]
    /\ UNCHANGED <<offered, wild>>

Unpoint(r, t) ==
    /\ tags' = [key \in DOMAIN tags \ {<<r, t>>} |-> tags[key]]
    /\ UNCHANGED <<offered, wild>>

Withdraw(r) ==
    /\ offered' \subseteq offered
    /\ offered \ offered' \subseteq ({r} \X Contents) \ Tagged
    /\ UNCHANGED <<tags, wild>>

RunWild ==
    /\ wild \subseteq wild' /\ wild' \subseteq Repos
    /\ UNCHANGED <<offered, tags>>

(* Anything, in the repositories that ran wild. *)
Damage ==
    /\ \A pair \in (offered \ offered') \cup (offered' \ offered) : pair[1] \in wild
    /\ \A key \in DOMAIN tags \cup DOMAIN tags' :
          key[1] \notin wild =>
             key \in DOMAIN tags /\ key \in DOMAIN tags' /\ tags'[key] = tags[key]
    /\ UNCHANGED wild

Next ==
    \/ \E r \in Tame, c \in Contents : Offer(r, c)
    \/ \E r \in Tame, t \in Tags, c \in Contents : Point(r, t, c)
    \/ \E r \in Tame, t \in Tags : Unpoint(r, t)
    \/ \E r \in Tame : Withdraw(r)
    \/ RunWild
    \/ Damage

Spec == Init /\ [][Next]_vars
=============================================================================
