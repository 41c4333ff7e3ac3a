---------------------------- MODULE MCHubAccount ----------------------------
(* One App whose thread has a comment with a reply, two persons, and the    *)
(* requests that meet each other there and in one person's record.          *)
EXTENDS HubAccount

CONSTANTS ann, bob

Ask(op, who, at, value, cid, model) ==
    [op |-> op, who |-> who, at |-> at, value |-> value, cid |-> cid, model |-> model]

MCThread == [a \in Apps |-> <<
    [id |-> 11, parent |-> 0, author |-> ann, reactions |-> NoReactions],
    [id |-> 12, parent |-> 11, author |-> bob, reactions |-> NoReactions]>>]

MCAsks ==
    {Ask("react", ann, "app", 1, 0, "")}
    \cup {Ask("comment", bob, "app", 0, c, "") : c \in {0, 12}}
    \cup {Ask("commentReact", ann, "app", 1, 12, "")}
    \cup {Ask("delete", ann, "app", 0, c, "") : c \in {1, 11}} \cup {Ask("delete", bob, "app", 0, 1, "")}
    \cup {Ask(op, ann, "", 0, 0, "m1") : op \in {"save", "unsave", "request"}}
    \cup {Ask("save", ann, "", 0, 0, "m2")}
    \cup {Ask("wallet", ann, "", 1, 0, ""), Ask("publisher", ann, "", 0, 0, "")}
=============================================================================
