------------------------------ MODULE MCClient ------------------------------
(* A small instance of Client: two tabs on one store, every paged list. *)
EXTENDS Client, MCSession

CONSTANTS c1, c2, r1

EveryPart == {"session", "payload", "paging", "writing", "identity"}
EveryList == {"feed", "likes", "trending", "unrated", "all", "comments", "chat",
              "hashtag", "group", "station", "businesses", "events", "category",
              "reviews", "mine", "collection", "search"}
=============================================================================
