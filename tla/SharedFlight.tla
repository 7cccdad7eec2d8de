---------------------------- MODULE SharedFlight ----------------------------
(***************************************************************************)
(* What the SDK's de-duplicated asynchronous calls promise, and nothing of *)
(* how they keep it: at most one caller runs the work, a caller that finds *)
(* it running joins it, and whoever joined comes back when it lands.       *)
(* HttpClient.refreshTokens and RefreshCoordinator.run make this promise.  *)
(***************************************************************************)
CONSTANT Callers

VARIABLE caller    \* what each caller is doing: "idle", "leading" or "joined"

InFlight == \E c \in Callers : caller[c] = "leading"

Init == caller = [c \in Callers |-> "idle"]

Lead(c) == /\ caller[c] = "idle" /\ ~InFlight
           /\ caller' = [caller EXCEPT ![c] = "leading"]

Join(c) == /\ caller[c] = "idle" /\ InFlight
           /\ caller' = [caller EXCEPT ![c] = "joined"]

\* The flight lands, well or badly, for all who are on it.
Land == /\ InFlight
        /\ caller' = [c \in Callers |-> "idle"]

Next == (\E c \in Callers : Lead(c) \/ Join(c)) \/ Land

Safety == Init /\ [][Next]_caller

Spec == Safety /\ WF_caller(Land)
=============================================================================
