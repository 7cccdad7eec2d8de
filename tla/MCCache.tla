------------------------------- MODULE MCCache -------------------------------
(* Small instances of Cache: what each of two concurrent calls may be. *)
EXTENDS Cache

CONSTANTS a, b, k1, k2

TwoTabOf == [k \in {k1, k2} |-> IF k = k1 THEN a ELSE b]
\* Every call in one tab, pages in the other.
AnyKinds == [k \in {k1, k2} |-> IF k = k1 THEN TaskKinds ELSE {"first"}]
=============================================================================
