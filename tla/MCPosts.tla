------------------------------- MODULE MCPosts -------------------------------
(* Small instances of Posts: what each of two concurrent calls may be. *)
EXTENDS Posts

CONSTANTS c1, c2

\* A reader of a post and one that writes it, meeting in the requests.
EitherKinds == [c \in {c1, c2} |-> IF c = c1 THEN {"get", "force", "engage"} ELSE {"delete", "react"}]

\* Callers of the same batches and of the same engagement requests.
EngageKinds == [c \in {c1, c2} |-> {"batch", "engage"}]

\* The first change of the engagement is a count, the second one's own reaction:
\* the hash moves with the second only.
SeesReactions == [e \in 0..MaxEng |-> IF e < 2 THEN 0 ELSE e]

\* Every change is a reaction of one's own.
SeesAll == [e \in 0..MaxEng |-> e]
=============================================================================
