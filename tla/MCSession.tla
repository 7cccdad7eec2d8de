------------------------------ MODULE MCSession ------------------------------
(* Small instances of Session: which calls run where, and who signs in. *)
EXTENDS Session, TLC

CONSTANTS a, b, p1, p2, q1, s1, s2, u1, u2

\* One instance with two concurrent calls.
OneTabOf == [p \in {p1, p2} |-> a]
OneStoreOf == [t \in {a} |-> s1]
OneThread == [t \in {a} |-> 1]
OneAccount == [t \in {a} |-> {u1}]
AnyAccount == [t \in {a} |-> {u1, u2}]

Sym == Permutations({p1, p2})

\* Two instances; two calls in the first, one in the second.
TwoTabOf == [p \in {p1, p2, q1} |-> IF p = q1 THEN b ELSE a]
SharedStoreOf == [t \in {a, b} |-> s1]
OwnStoreOf == [t \in {a, b} |-> IF t = a THEN s1 ELSE s2]
OnePage == [t \in {a, b} |-> 1]
TwoPages == [t \in {a, b} |-> IF t = a THEN 1 ELSE 2]
SameUser == [t \in {a, b} |-> {u1}]

\* What the host calls in each slot.
Anything == [p \in {p1, p2} |-> IF p = p1 THEN OpKinds \ {"login"} ELSE {"refresh", "login"}]
SignsIn == [p \in {p1, p2} |-> {"refresh", "login"}]
SignsOut == [p \in {p1, p2} |-> {"restore", "login", "logout"}]
StaysIn == [p \in {p1, p2, q1} |-> {"refresh", "restore", "login"}]
EitherSignsOut == [p \in {p1, p2, q1} |-> IF p = p1 THEN {"login", "logout"}
                                         ELSE IF p = p2 THEN {"refresh", "restore"}
                                         ELSE {"logout"}]
=============================================================================
