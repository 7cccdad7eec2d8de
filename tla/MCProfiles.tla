----------------------------- MODULE MCProfiles -----------------------------
(* Small instances of Profiles: the tab of each call and what it may be. *)
EXTENDS Profiles, TLC

CONSTANTS m1, m2, c1, c2, c3

TwoTabs == [c \in {c1, c2, c3} |-> IF c = c3 THEN m2 ELSE m1]
\* Two calls that may overlap in one tab; the other follows, its sessions expire
\* and it switches back.
TabKinds ==
    [c \in {c1, c2, c3} |->
        CASE c = c1 -> CallKinds \ {"expired"}
          [] c = c2 -> {"remove", "expired"}
          [] c = c3 -> {"switch", "sync", "expired"}]

AnyUser == Permutations(Users)
=============================================================================
