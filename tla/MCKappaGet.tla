----------------------------- MODULE MCKappaGet -----------------------------
(* Small instances of KappaGet: an origin that may do anything and is listed *)
(* twice, a gateway that serves pieces by hash, and one honest holder behind *)
(* them.                                                                     *)
EXTENDS KappaGet

CONSTANTS origin, gateway, mirror

MCListed == <<origin, gateway, origin, mirror>>
MCSpans == {<<0, 8>>, <<1, 7>>, <<3, 4>>}
=============================================================================
