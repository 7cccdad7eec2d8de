------------------------------ MODULE MCPeople ------------------------------
(* A small instance of People: readers of users and groups that meet writers. *)
EXTENDS People, TLC

CONSTANTS u1, u2, c1, c2, c3

\* Two readers that share batches and GETs, and whoever else comes by.
AllKinds ==
    [c \in {c1, c2, c3} |-> IF c = c3 THEN Ops \ {"user", "group"} ELSE {"user", "group"}]

\* Users are alike, and so are the two readers.
Alike == Permutations({u1, u2}) \cup Permutations({c1, c2})
=============================================================================
