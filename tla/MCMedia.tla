------------------------------- MODULE MCMedia -------------------------------
(* A small instance of Media: two watchers on one channel. *)
EXTENDS Media

CONSTANTS h1, h2, ch

OneChannel == [h \in {h1, h2} |-> ch]
=============================================================================
