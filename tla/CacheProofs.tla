----------------------------- MODULE CacheProofs -----------------------------
(* The cache keeps its types and stays empty behind the fences of a sign-out, *)
(* whatever the tabs, calls, posts, feeds and capacity.                       *)
EXTENDS Cache, TLAPS

\* What an action does to a row: each write leaves well-formed rows.
RowsOK ==
    /\ held \subseteq Posts /\ old \subseteq held
    /\ feeds \subseteq Routes /\ oldFeeds \subseteq feeds
    /\ list \in [Routes -> SUBSET Posts] /\ \A r \in Routes \ feeds : list[r] = {}

FencesOK ==
    /\ writesFenced \in [Tabs -> BOOLEAN] /\ signing \in [Tabs -> BOOLEAN]
    /\ wipe \in [Tabs -> {"no", "fenced", "recreate"}] /\ mail \subseteq Tabs
    /\ sealed \in BOOLEAN

TasksOK == task \in [Tasks -> Task]

\* A call in progress, a reset slot and the lists that were read keep their types.
LEMMA IdleTask == Idle \in Task
BY DEF Idle, Task, PCs, TaskKinds, NoLists

\* The places a call can be at.
LEMMA Places ==
    /\ {"idle", "fetching", "posts", "reopen", "feed", "append", "lookup", "expire", "hydrate"} \subseteq PCs
    /\ {"touch", "deleting", "drop", "redrop", "feeds", "listed", "unlist"} \subseteq PCs
    /\ {"trim", "evict", "trimFeeds", "evictFeeds"} \subseteq PCs
BY DEF PCs

\* A call that moves on, reads or returns stays a call.
LEMMA CallsMove ==
    ASSUME TasksOK, NEW k \in Tasks, NEW pc \in PCs, NEW ids \in SUBSET Posts,
           NEW seen \in [Routes -> SUBSET Posts], NEW left \in SUBSET Routes
    PROVE  /\ Goto(k, pc) => TasksOK'
           /\ Read(k, pc, ids, seen, left) => TasksOK'
           /\ Return(k) => TasksOK'
<1>1. task[k] \in Task
  BY DEF TasksOK
<1>2. [task[k] EXCEPT !.pc = pc] \in Task
  BY <1>1 DEF Task
<1>3. [task[k] EXCEPT !.pc = pc, !.ids = ids, !.seen = seen, !.left = left] \in Task
  BY <1>1 DEF Task
<1> QED
  BY <1>2, <1>3, IdleTask DEF TasksOK, Goto, Read, Return

LEMMA ListsRead ==
    ASSUME TypeOK, NEW S
    PROVE  ReadLists(S) \in [Routes -> SUBSET Posts]
BY DEF TypeOK, ReadLists

LEMMA TypeParts == TypeOK <=> RowsOK /\ FencesOK /\ TasksOK
BY DEF TypeOK, RowsOK, FencesOK, TasksOK

\* Every step of a call keeps the types.
LEMMA TaskKeepsTypes ==
    ASSUME TypeOK, NEW k \in Tasks, TaskStep(k)
    PROVE  TypeOK'
<1>1. RowsOK /\ FencesOK /\ TasksOK
  BY TypeParts
<1>2. Idle \in Task
  BY IdleTask
<1>3. \A S : ReadLists(S) \in [Routes -> SUBSET Posts]
  BY ListsRead
<1>4. TabOf[k] \in Tabs
  BY TasksAssumption
<1> SUFFICES (RowsOK /\ FencesOK /\ TasksOK)'
  BY DEF TypeOK, RowsOK, FencesOK, TasksOK
<1>5. /\ task[k].ids \in SUBSET Posts /\ task[k].left \in SUBSET Routes
      /\ task[k].seen \in [Routes -> SUBSET Posts] /\ task[k].route \in SUBSET Routes
      /\ NoLists \in [Routes -> SUBSET Posts] /\ {} \in SUBSET Posts /\ {} \in SUBSET Routes
  BY <1>1 DEF TasksOK, Task, NoLists
<1>6. \A pc \in PCs, ids \in SUBSET Posts, left \in SUBSET Routes, seen \in [Routes -> SUBSET Posts] :
        /\ Goto(k, pc) => TasksOK'
        /\ Read(k, pc, ids, seen, left) => TasksOK'
        /\ Return(k) => TasksOK'
  BY <1>1, CallsMove
<1>7. ASSUME NEW r \in Routes, StartFirstPage(k, r) PROVE (RowsOK /\ FencesOK /\ TasksOK)'
  <2>1. RowsOK' /\ FencesOK'
    BY <1>1, <1>5, <1>7 DEF Begin, StartFirstPage, Idle, RowsOK, FencesOK, vars, rows, postRows, feedRows, fences
  <2>2. TasksOK'
    BY <1>1, <1>2, <1>3, <1>5, <1>6, <1>7, Places DEF Begin, StartFirstPage, Idle, TasksOK, Task, TaskKinds, At
  <2> QED
    BY <2>1, <2>2
<1>8. ASSUME NEW r \in Routes, StartNextPage(k, r) PROVE (RowsOK /\ FencesOK /\ TasksOK)'
  <2>1. RowsOK' /\ FencesOK'
    BY <1>1, <1>5, <1>8 DEF Begin, StartNextPage, Idle, RowsOK, FencesOK, vars, rows, postRows, feedRows, fences
  <2>2. TasksOK'
    BY <1>1, <1>2, <1>3, <1>5, <1>6, <1>8, Places DEF Begin, StartNextPage, Idle, TasksOK, Task, TaskKinds, At
  <2> QED
    BY <2>1, <2>2
<1>9. ASSUME NEW r \in Routes, StartReadFeed(k, r) PROVE (RowsOK /\ FencesOK /\ TasksOK)'
  <2>1. RowsOK' /\ FencesOK'
    BY <1>1, <1>5, <1>9 DEF Begin, StartReadFeed, Idle, RowsOK, FencesOK, vars, rows, postRows, feedRows, fences
  <2>2. TasksOK'
    BY <1>1, <1>2, <1>3, <1>5, <1>6, <1>9, Places DEF Begin, StartReadFeed, Idle, TasksOK, Task, TaskKinds, At
  <2> QED
    BY <2>1, <2>2
<1>10. ASSUME NEW p \in Posts, StartDelete(k, p) PROVE (RowsOK /\ FencesOK /\ TasksOK)'
  <2>1. RowsOK' /\ FencesOK'
    BY <1>1, <1>5, <1>10 DEF Begin, StartDelete, Idle, RowsOK, FencesOK, vars, rows, postRows, feedRows, fences
  <2>2. TasksOK'
    BY <1>1, <1>2, <1>3, <1>5, <1>6, <1>10, Places DEF Begin, StartDelete, Idle, TasksOK, Task, TaskKinds, At
  <2> QED
    BY <2>1, <2>2
<1>11. CASE StartTrim(k)
  <2>1. RowsOK' /\ FencesOK'
    BY <1>1, <1>5, <1>11 DEF Begin, StartTrim, Idle, RowsOK, FencesOK, vars, rows, postRows, feedRows, fences
  <2>2. TasksOK'
    BY <1>1, <1>2, <1>3, <1>5, <1>6, <1>11, Places DEF Begin, StartTrim, Idle, TasksOK, Task, TaskKinds, At
  <2> QED
    BY <2>1, <2>2
<1>12. CASE PageAnswered(k)
  <2>1. RowsOK' /\ FencesOK'
    BY <1>1, <1>5, <1>12 DEF PageAnswered, RowsOK, FencesOK, vars, rows, postRows, feedRows, fences
  <2>2. TasksOK'
    BY <1>1, <1>2, <1>3, <1>5, <1>6, <1>12, Places DEF PageAnswered, RowsOK
  <2> QED
    BY <2>1, <2>2
<1>13. CASE SetPosts(k)
  <2>1. RowsOK' /\ FencesOK'
    BY <1>1, <1>5, <1>13 DEF SetPosts, PutPosts, Fenced, RowsOK, FencesOK, vars, rows, postRows, feedRows, fences
  <2>2. TasksOK'
    BY <1>1, <1>2, <1>3, <1>5, <1>6, <1>13, Places DEF SetPosts, PutPosts, Fenced, RowsOK
  <2> QED
    BY <2>1, <2>2
<1>14. CASE RetryPosts(k)
  <2>1. RowsOK' /\ FencesOK'
    BY <1>1, <1>5, <1>14 DEF RetryPosts, PutPosts, RowsOK, FencesOK, vars, rows, postRows, feedRows, fences
  <2>2. TasksOK'
    BY <1>1, <1>2, <1>3, <1>5, <1>6, <1>14, Places DEF RetryPosts, PutPosts, RowsOK
  <2> QED
    BY <2>1, <2>2
<1>15. CASE SetFeed(k)
  <2>1. RowsOK' /\ FencesOK'
    BY <1>1, <1>5, <1>15 DEF SetFeed, PutFeed, Fenced, RowsOK, FencesOK, vars, rows, postRows, feedRows, fences
  <2>2. TasksOK'
    BY <1>1, <1>2, <1>3, <1>5, <1>6, <1>15, Places DEF SetFeed, PutFeed, Fenced, RowsOK
  <2> QED
    BY <2>1, <2>2
<1>16. CASE AppendReads(k)
  <2>1. RowsOK' /\ FencesOK'
    BY <1>1, <1>5, <1>16 DEF AppendReads, ReadLists, Fenced, RowsOK, FencesOK, vars, rows, postRows, feedRows, fences
  <2>2. TasksOK'
    BY <1>1, <1>2, <1>3, <1>5, <1>6, <1>16, Places DEF AppendReads, ReadLists, Fenced, RowsOK
  <2> QED
    BY <2>1, <2>2
<1>17. CASE AppendWrites(k)
  <2>1. RowsOK' /\ FencesOK'
    BY <1>1, <1>5, <1>17 DEF AppendWrites, MayAppend, PutFeed, Fenced, RowsOK, FencesOK, vars, rows, postRows, feedRows, fences
  <2>2. TasksOK'
    BY <1>1, <1>2, <1>3, <1>5, <1>6, <1>17, Places DEF AppendWrites, MayAppend, PutFeed, Fenced, RowsOK
  <2> QED
    BY <2>1, <2>2
<1>18. CASE GetFeed(k)
  <2>1. RowsOK' /\ FencesOK'
    BY <1>1, <1>5, <1>18 DEF GetFeed, RowsOK, FencesOK, vars, rows, postRows, feedRows, fences
  <2>2. TasksOK'
    BY <1>1, <1>2, <1>3, <1>5, <1>6, <1>18, Places DEF GetFeed, RowsOK
  <2> QED
    BY <2>1, <2>2
<1>19. CASE ExpireFeed(k)
  <2>1. RowsOK' /\ FencesOK'
    BY <1>1, <1>5, <1>19 DEF ExpireFeed, DropFeeds, RowsOK, FencesOK, vars, rows, postRows, feedRows, fences
  <2>2. TasksOK'
    BY <1>1, <1>2, <1>3, <1>5, <1>6, <1>19, Places DEF ExpireFeed, DropFeeds, RowsOK
  <2> QED
    BY <2>1, <2>2
<1>20. CASE GetPosts(k)
  <2>1. RowsOK' /\ FencesOK'
    BY <1>1, <1>5, <1>20 DEF GetPosts, RowsOK, FencesOK, vars, rows, postRows, feedRows, fences
  <2>2. TasksOK'
    BY <1>1, <1>2, <1>3, <1>5, <1>6, <1>20, Places DEF GetPosts, RowsOK
  <2> QED
    BY <2>1, <2>2
<1>21. CASE TouchPosts(k)
  <2>1. RowsOK' /\ FencesOK'
    BY <1>1, <1>5, <1>21 DEF TouchPosts, UpdatePosts, RowsOK, FencesOK, vars, rows, postRows, feedRows, fences
  <2>2. TasksOK'
    BY <1>1, <1>2, <1>3, <1>5, <1>6, <1>21, Places DEF TouchPosts, UpdatePosts, RowsOK
  <2> QED
    BY <2>1, <2>2
<1>22. CASE DeleteAnswered(k)
  <2>1. RowsOK' /\ FencesOK'
    BY <1>1, <1>5, <1>22 DEF DeleteAnswered, RowsOK, FencesOK, vars, rows, postRows, feedRows, fences
  <2>2. TasksOK'
    BY <1>1, <1>2, <1>3, <1>5, <1>6, <1>22, Places DEF DeleteAnswered, RowsOK
  <2> QED
    BY <2>1, <2>2
<1>23. CASE InvalidatePost(k)
  <2>1. RowsOK' /\ FencesOK'
    BY <1>1, <1>5, <1>23 DEF InvalidatePost, DropPosts, RowsOK, FencesOK, vars, rows, postRows, feedRows, fences
  <2>2. TasksOK'
    BY <1>1, <1>2, <1>3, <1>5, <1>6, <1>23, Places DEF InvalidatePost, DropPosts, RowsOK
  <2> QED
    BY <2>1, <2>2
<1>24. CASE RetryInvalidate(k)
  <2>1. RowsOK' /\ FencesOK'
    BY <1>1, <1>5, <1>24 DEF RetryInvalidate, DropPosts, RowsOK, FencesOK, vars, rows, postRows, feedRows, fences
  <2>2. TasksOK'
    BY <1>1, <1>2, <1>3, <1>5, <1>6, <1>24, Places DEF RetryInvalidate, DropPosts, RowsOK
  <2> QED
    BY <2>1, <2>2
<1>25. CASE FeedsRead(k)
  <2>1. RowsOK' /\ FencesOK'
    BY <1>1, <1>5, <1>25 DEF FeedsRead, Listing, ReadLists, Fenced, RowsOK, FencesOK, vars, rows, postRows, feedRows, fences
  <2>2. TasksOK'
    BY <1>1, <1>2, <1>3, <1>5, <1>6, <1>25, Places DEF FeedsRead, Listing, ReadLists, Fenced, RowsOK
  <2> QED
    BY <2>1, <2>2
<1>26. CASE RemoveUlid(k)
  <2>1. RowsOK' /\ FencesOK'
    BY <1>1, <1>5, <1>26 DEF RemoveUlid, MayUnlist, UpdateFeed, Fenced, RowsOK, FencesOK, vars, rows, postRows, feedRows, fences
  <2>2. TasksOK'
    BY <1>1, <1>2, <1>3, <1>5, <1>6, <1>26, Places DEF RemoveUlid, MayUnlist, UpdateFeed, Fenced, RowsOK
  <2> QED
    BY <2>1, <2>2
<1>27. CASE RemoveEnds(k)
  <2>1. RowsOK' /\ FencesOK'
    BY <1>1, <1>5, <1>27 DEF RemoveEnds, RowsOK, FencesOK, vars, rows, postRows, feedRows, fences
  <2>2. TasksOK'
    BY <1>1, <1>2, <1>3, <1>5, <1>6, <1>27, Places DEF RemoveEnds, RowsOK
  <2> QED
    BY <2>1, <2>2
<1>28. CASE TrimReads(k)
  <2>1. RowsOK' /\ FencesOK'
    BY <1>1, <1>5, <1>28 DEF TrimReads, Excess, RowsOK, FencesOK, vars, rows, postRows, feedRows, fences
  <2>2. TasksOK'
    BY <1>1, <1>2, <1>3, <1>5, <1>6, <1>28, Places DEF TrimReads, Excess, RowsOK
  <2> QED
    BY <2>1, <2>2
<1>29. CASE TrimDeletes(k)
  <2>1. RowsOK' /\ FencesOK'
    BY <1>1, <1>5, <1>29 DEF TrimDeletes, DropPosts, RowsOK, FencesOK, vars, rows, postRows, feedRows, fences
  <2>2. TasksOK'
    BY <1>1, <1>2, <1>3, <1>5, <1>6, <1>29, Places DEF TrimDeletes, DropPosts, RowsOK
  <2> QED
    BY <2>1, <2>2
<1>30. CASE TrimFeedsRead(k)
  <2>1. RowsOK' /\ FencesOK'
    BY <1>1, <1>5, <1>30 DEF TrimFeedsRead, RowsOK, FencesOK, vars, rows, postRows, feedRows, fences
  <2>2. TasksOK'
    BY <1>1, <1>2, <1>3, <1>5, <1>6, <1>30, Places DEF TrimFeedsRead, RowsOK
  <2> QED
    BY <2>1, <2>2
<1>31. CASE TrimFeeds(k)
  <2>1. RowsOK' /\ FencesOK'
    BY <1>1, <1>5, <1>31 DEF TrimFeeds, DropFeeds, RowsOK, FencesOK, vars, rows, postRows, feedRows, fences
  <2>2. TasksOK'
    BY <1>1, <1>2, <1>3, <1>5, <1>6, <1>31, Places DEF TrimFeeds, DropFeeds, RowsOK
  <2> QED
    BY <2>1, <2>2
<1> QED
  BY <1>7, <1>8, <1>9, <1>10, <1>11, <1>12, <1>13, <1>14, <1>15, <1>16, <1>17, <1>18, <1>19, <1>20, <1>21, <1>22, <1>23, <1>24, <1>25, <1>26, <1>27, <1>28, <1>29, <1>30, <1>31 DEF TaskStep

\* So does every step of a sign-out.
LEMMA SignOutKeepsTypes ==
    ASSUME TypeOK, NEW t \in Tabs, SignOut(t)
    PROVE  TypeOK'
<1>1. RowsOK /\ FencesOK /\ TasksOK
  BY TypeParts
<1> SUFFICES (RowsOK /\ FencesOK /\ TasksOK)'
  BY DEF TypeOK, RowsOK, FencesOK, TasksOK
<1>2. CASE BeginSignOut(t)
  BY <1>1, <1>2 DEF BeginSignOut, RowsOK, FencesOK, TasksOK, vars, rows, postRows, feedRows, fences
<1>3. CASE RemoteSignOut(t)
  BY <1>1, <1>3 DEF RemoteSignOut, RowsOK, FencesOK, TasksOK, vars, rows, postRows, feedRows, fences
<1>4. CASE ClearAll(t)
  BY <1>1, <1>4 DEF ClearAll, Emptied, Wiped, Retrying, NoLists, RowsOK, FencesOK, TasksOK, vars, rows, postRows, feedRows, fences
<1>5. CASE ClearFails(t)
  BY <1>1, <1>5 DEF ClearFails, PartlyCleared, Recovers, NoLists, RowsOK, FencesOK, TasksOK, vars, rows, postRows, feedRows, fences
<1>6. CASE Recreate(t)
  BY <1>1, <1>6 DEF Recreate, Emptied, Wiped, Retrying, NoLists, RowsOK, FencesOK, TasksOK, vars, rows, postRows, feedRows, fences
<1>7. CASE RecreateFails(t)
  BY <1>1, <1>7 DEF RecreateFails, RowsOK, FencesOK, TasksOK, vars, rows, postRows, feedRows, fences
<1>8. CASE WipeCapped(t)
  BY <1>1, <1>8 DEF WipeCapped, RowsOK, FencesOK, TasksOK, vars, rows, postRows, feedRows, fences
<1>9. CASE SetTokens(t)
  BY <1>1, <1>9 DEF SetTokens, RowsOK, FencesOK, TasksOK, vars, rows, postRows, feedRows, fences
<1> QED
  BY <1>2, <1>3, <1>4, <1>5, <1>6, <1>7, <1>8, <1>9 DEF SignOut

LEMMA AgeKeepsTypes ==
    ASSUME TypeOK, (\E p \in Posts : AgePost(p)) \/ (\E r \in Routes : AgeFeed(r))
    PROVE  TypeOK'
BY DEF TypeOK, AgePost, AgeFeed, vars, rows, postRows, feedRows, fences

LEMMA InitTypes == Init => TypeOK
BY IdleTask DEF Init, TypeOK, NoLists

\* The cached rows, fences and calls keep their types, and no list outlives
\* its row (CacheDB).
THEOREM CacheTypeCorrect == Spec => []TypeOK
<1>1. TypeOK /\ [Next]_vars => TypeOK'
  <2> SUFFICES ASSUME TypeOK, [Next]_vars PROVE TypeOK'
    OBVIOUS
  <2>1. CASE UNCHANGED vars
    BY <2>1 DEF TypeOK, vars, rows, postRows, feedRows, fences
  <2>2. CASE Next
    BY <2>2, TaskKeepsTypes, SignOutKeepsTypes, AgeKeepsTypes DEF Next
  <2> QED
    BY <2>1, <2>2
<1> QED
  BY <1>1, InitTypes, PTL DEF Spec

-----------------------------------------------------------------------------
\* What a sealed database stands on: fences up everywhere, no put to come.
Sealed == (\A t \in Tabs : writesFenced[t]) /\ ~Retrying /\ held = {} /\ feeds = {}
SealInv == sealed => Sealed

\* Only the pc "reopen" announces a repeated put.
LEMMA StaysQuiet ==
    ASSUME TypeOK, ~Retrying, NEW k \in Tasks, NEW pc, pc # "reopen", NEW ids, NEW seen, NEW left
    PROVE  (Goto(k, pc) \/ Read(k, pc, ids, seen, left) \/ Return(k)) => ~Retrying'
<1> SUFFICES ASSUME Goto(k, pc) \/ Read(k, pc, ids, seen, left) \/ Return(k), NEW j \in Tasks
             PROVE  task'[j].pc # "reopen"
  BY DEF Retrying, At
<1>1. task \in [Tasks -> Task] /\ task[j].pc # "reopen"
  BY DEF TypeOK, Retrying, At
<1>2. DOMAIN task[k] = {"pc", "kind", "route", "ids", "seen", "left"} /\ "pc" \in DOMAIN task[k]
  BY <1>1 DEF Task
<1>3. CASE Goto(k, pc)
  BY <1>1, <1>2, <1>3 DEF Goto
<1>4. CASE Read(k, pc, ids, seen, left)
  BY <1>1, <1>2, <1>4 DEF Read
<1>5. CASE Return(k)
  BY <1>1, <1>5 DEF Return, Idle
<1> QED
  BY <1>3, <1>4, <1>5

LEMMA TaskKeepsSeal ==
    ASSUME TypeOK, SealInv, NEW k \in Tasks, TaskStep(k)
    PROVE  SealInv'
<1> SUFFICES ASSUME sealed' PROVE Sealed'
  BY DEF SealInv
<1>1. TabOf[k] \in Tabs
  BY TasksAssumption
<1>2. sealed' = sealed /\ writesFenced' = writesFenced
  BY DEF TaskStep, AppendReads, AppendWrites, Begin, DeleteAnswered, DropFeeds, DropPosts, Excess, ExpireFeed, FeedsRead, Fenced, GetFeed, GetPosts, Idle, InvalidatePost, Listing, MayAppend, MayUnlist, PageAnswered, PutFeed, PutPosts, ReadLists, RemoveEnds, RemoveUlid, RetryInvalidate, RetryPosts, SetFeed, SetPosts, StartDelete, StartFirstPage, StartNextPage, StartReadFeed, StartTrim, TouchPosts, TrimDeletes, TrimFeeds, TrimFeedsRead, TrimReads, UpdateFeed, UpdatePosts, fences
<1>3. Sealed
  BY <1>2 DEF SealInv
<1>4. Fenced(k) /\ ~At(k, "reopen")
  BY <1>1, <1>3 DEF Sealed, Retrying, Fenced
<1>5. old = {} /\ oldFeeds = {} /\ \A r \in Routes : list[r] = {}
  BY <1>3 DEF Sealed, TypeOK
<1> SUFFICES held' = {} /\ feeds' = {} /\ ~Retrying'
  BY <1>2, <1>3 DEF Sealed
<1>6. \A pc, ids, seen, left : pc # "reopen" =>
        ((Goto(k, pc) \/ Read(k, pc, ids, seen, left) \/ Return(k)) => ~Retrying')
  BY <1>3, StaysQuiet DEF Sealed
<1>7. ASSUME NEW r \in Routes, StartFirstPage(k, r) PROVE held' = {} /\ feeds' = {} /\ ~Retrying'
  BY <1>3, <1>4, <1>5, <1>6, <1>7 DEF Begin, StartFirstPage, Retrying, Sealed, TypeOK, Task, Idle, At, vars, rows, postRows, feedRows, fences
<1>8. ASSUME NEW r \in Routes, StartNextPage(k, r) PROVE held' = {} /\ feeds' = {} /\ ~Retrying'
  BY <1>3, <1>4, <1>5, <1>6, <1>8 DEF Begin, StartNextPage, Retrying, Sealed, TypeOK, Task, Idle, At, vars, rows, postRows, feedRows, fences
<1>9. ASSUME NEW r \in Routes, StartReadFeed(k, r) PROVE held' = {} /\ feeds' = {} /\ ~Retrying'
  BY <1>3, <1>4, <1>5, <1>6, <1>9 DEF Begin, StartReadFeed, Retrying, Sealed, TypeOK, Task, Idle, At, vars, rows, postRows, feedRows, fences
<1>10. ASSUME NEW p \in Posts, StartDelete(k, p) PROVE held' = {} /\ feeds' = {} /\ ~Retrying'
  BY <1>3, <1>4, <1>5, <1>6, <1>10 DEF Begin, StartDelete, Retrying, Sealed, TypeOK, Task, Idle, At, vars, rows, postRows, feedRows, fences
<1>11. CASE StartTrim(k)
  BY <1>3, <1>4, <1>5, <1>6, <1>11 DEF Begin, StartTrim, Retrying, Sealed, TypeOK, Task, Idle, At, vars, rows, postRows, feedRows, fences
<1>12. CASE PageAnswered(k)
  BY <1>3, <1>4, <1>5, <1>6, <1>12 DEF PageAnswered, Sealed, At, vars, rows, postRows, feedRows, fences
<1>13. CASE SetPosts(k)
  BY <1>3, <1>4, <1>5, <1>6, <1>13 DEF SetPosts, PutPosts, Sealed, At, vars, rows, postRows, feedRows, fences
<1>14. CASE RetryPosts(k)
  BY <1>3, <1>4, <1>5, <1>6, <1>14 DEF RetryPosts, PutPosts, Sealed, At, vars, rows, postRows, feedRows, fences
<1>15. CASE SetFeed(k)
  BY <1>3, <1>4, <1>5, <1>6, <1>15 DEF SetFeed, PutFeed, Sealed, At, vars, rows, postRows, feedRows, fences
<1>16. CASE AppendReads(k)
  BY <1>3, <1>4, <1>5, <1>6, <1>16 DEF AppendReads, Sealed, At, vars, rows, postRows, feedRows, fences
<1>17. CASE AppendWrites(k)
  BY <1>3, <1>4, <1>5, <1>6, <1>17 DEF AppendWrites, MayAppend, PutFeed, Sealed, At, vars, rows, postRows, feedRows, fences
<1>18. CASE GetFeed(k)
  BY <1>3, <1>4, <1>5, <1>6, <1>18 DEF GetFeed, Sealed, At, vars, rows, postRows, feedRows, fences
<1>19. CASE ExpireFeed(k)
  BY <1>3, <1>4, <1>5, <1>6, <1>19 DEF ExpireFeed, DropFeeds, Sealed, At, vars, rows, postRows, feedRows, fences
<1>20. CASE GetPosts(k)
  BY <1>3, <1>4, <1>5, <1>6, <1>20 DEF GetPosts, Sealed, At, vars, rows, postRows, feedRows, fences
<1>21. CASE TouchPosts(k)
  BY <1>3, <1>4, <1>5, <1>6, <1>21 DEF TouchPosts, UpdatePosts, Sealed, At, vars, rows, postRows, feedRows, fences
<1>22. CASE DeleteAnswered(k)
  BY <1>3, <1>4, <1>5, <1>6, <1>22 DEF DeleteAnswered, Sealed, At, vars, rows, postRows, feedRows, fences
<1>23. CASE InvalidatePost(k)
  BY <1>3, <1>4, <1>5, <1>6, <1>23 DEF InvalidatePost, DropPosts, Sealed, At, vars, rows, postRows, feedRows, fences
<1>24. CASE RetryInvalidate(k)
  BY <1>3, <1>4, <1>5, <1>6, <1>24 DEF RetryInvalidate, DropPosts, Sealed, At, vars, rows, postRows, feedRows, fences
<1>25. CASE FeedsRead(k)
  BY <1>3, <1>4, <1>5, <1>6, <1>25 DEF FeedsRead, Sealed, At, vars, rows, postRows, feedRows, fences
<1>26. CASE RemoveUlid(k)
  BY <1>3, <1>4, <1>5, <1>6, <1>26 DEF RemoveUlid, UpdateFeed, Sealed, At, vars, rows, postRows, feedRows, fences
<1>27. CASE RemoveEnds(k)
  BY <1>3, <1>4, <1>5, <1>6, <1>27 DEF RemoveEnds, Sealed, At, vars, rows, postRows, feedRows, fences
<1>28. CASE TrimReads(k)
  BY <1>3, <1>4, <1>5, <1>6, <1>28 DEF TrimReads, Sealed, At, vars, rows, postRows, feedRows, fences
<1>29. CASE TrimDeletes(k)
  BY <1>3, <1>4, <1>5, <1>6, <1>29 DEF TrimDeletes, DropPosts, Sealed, At, vars, rows, postRows, feedRows, fences
<1>30. CASE TrimFeedsRead(k)
  BY <1>3, <1>4, <1>5, <1>6, <1>30 DEF TrimFeedsRead, Sealed, At, vars, rows, postRows, feedRows, fences
<1>31. CASE TrimFeeds(k)
  BY <1>3, <1>4, <1>5, <1>6, <1>31 DEF TrimFeeds, DropFeeds, Sealed, At, vars, rows, postRows, feedRows, fences
<1> QED
  BY <1>7, <1>8, <1>9, <1>10, <1>11, <1>12, <1>13, <1>14, <1>15, <1>16, <1>17, <1>18, <1>19, <1>20, <1>21, <1>22, <1>23, <1>24, <1>25, <1>26, <1>27, <1>28, <1>29, <1>30, <1>31 DEF TaskStep

LEMMA SignOutKeepsSeal ==
    ASSUME TypeOK, SealInv, NEW t \in Tabs, SignOut(t)
    PROVE  SealInv'
<1>1. CASE BeginSignOut(t)
  BY <1>1 DEF BeginSignOut, Retrying, At, SealInv, Sealed, TypeOK, vars, rows, postRows, feedRows, fences
<1>2. CASE RemoteSignOut(t)
  BY <1>2 DEF RemoteSignOut, Retrying, At, SealInv, Sealed, TypeOK, vars, rows, postRows, feedRows, fences
<1>3. CASE ClearAll(t)
  BY <1>3 DEF ClearAll, Emptied, Wiped, Retrying, NoLists, At, SealInv, Sealed, TypeOK, vars, rows, postRows, feedRows, fences
<1>4. CASE ClearFails(t)
  BY <1>4 DEF ClearFails, PartlyCleared, Recovers, NoLists, Retrying, At, SealInv, Sealed, TypeOK, vars, rows, postRows, feedRows, fences
<1>5. CASE Recreate(t)
  BY <1>5 DEF Recreate, Emptied, Wiped, Retrying, NoLists, At, SealInv, Sealed, TypeOK, vars, rows, postRows, feedRows, fences
<1>6. CASE RecreateFails(t)
  BY <1>6 DEF RecreateFails, Retrying, At, SealInv, Sealed, TypeOK, vars, rows, postRows, feedRows, fences
<1>7. CASE WipeCapped(t)
  BY <1>7 DEF WipeCapped, Retrying, At, SealInv, Sealed, TypeOK, vars, rows, postRows, feedRows, fences
<1>8. CASE SetTokens(t)
  BY <1>8 DEF SetTokens, Retrying, At, SealInv, Sealed, TypeOK, vars, rows, postRows, feedRows, fences
<1> QED
  BY <1>1, <1>2, <1>3, <1>4, <1>5, <1>6, <1>7, <1>8 DEF SignOut

LEMMA AgeKeepsSeal ==
    ASSUME TypeOK, SealInv, (\E p \in Posts : AgePost(p)) \/ (\E r \in Routes : AgeFeed(r))
    PROVE  SealInv'
BY DEF SealInv, Sealed, Retrying, At, AgePost, AgeFeed, vars, rows, postRows, feedRows, fences

\* A wiped cache stays empty until a new session lifts a fence: every write is
\* fenced, an update of a missing row does nothing, and a reopened connection
\* repeats no put (fenceWrites, clearAll, deleteAndRecreate).
THEOREM WipeIsFinalAlways == Spec => []WipeIsFinal
<1>1. Init => SealInv
  BY DEF Init, SealInv
<1>2. TypeOK /\ SealInv /\ [Next]_vars => SealInv'
  <2> SUFFICES ASSUME TypeOK, SealInv, [Next]_vars PROVE SealInv'
    OBVIOUS
  <2>1. CASE UNCHANGED vars
    BY <2>1 DEF SealInv, Sealed, Retrying, At, vars, rows, postRows, feedRows, fences
  <2>2. CASE Next
    BY <2>2, TaskKeepsSeal, SignOutKeepsSeal, AgeKeepsSeal DEF Next
  <2> QED
    BY <2>1, <2>2
<1>3. SealInv => WipeIsFinal
  BY DEF SealInv, Sealed, WipeIsFinal
<1> QED
  BY <1>1, <1>2, <1>3, CacheTypeCorrect, PTL DEF Spec
=============================================================================
