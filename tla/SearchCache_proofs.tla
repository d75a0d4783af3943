------------------------ MODULE SearchCache_proofs ------------------------
(***************************************************************************)
(* Proofs about SearchCache for every number of searches, videos and       *)
(* edits: type correctness, one fetch at a time per video, and no waiter   *)
(* without someone who will wake it.                                       *)
(*                                                                         *)
(* The invariant is IInv; each of its conjuncts has a lemma with one step  *)
(* for each action that can disturb it.                                    *)
(***************************************************************************)
EXTENDS SearchCache, TLAPS

-----------------------------------------------------------------------------
(* The initial states satisfy the inductive invariant. *)
LEMMA InitInv == Init => IInv
<1>. SUFFICES ASSUME Init PROVE IInv
  OBVIOUS
<1>1. TypeOK
  BY SearchAssumption
  DEF Init, TypeOK, Version, Metadata, Request, FetchTask, WaitTask, Nothing, Idle, NoFetch, NoWaiter
<1>2. TableInv /\ EventInv /\ StageInv
  BY SearchAssumption
  DEF Init, TableInv, EventInv, StageInv, Fetching, Nothing, Idle, NoFetch, NoWaiter
<1>. QED
  BY <1>1, <1>2 DEF IInv

(* The values that stand for no request and no task. *)
LEMMA Defaults ==
  /\ Idle.pc = "idle" /\ NoFetch.stage = "none"
  /\ NoWaiter.stage = "none" /\ NoWaiter.events = {}
BY DEF Idle, NoFetch, NoWaiter

(* Setting Events changes only what a task waits for, and nothing of a task
   that waits for none. *)
LEMMA Released ==
  ASSUME TypeOK, NEW s \in Searches, Release(s)
  PROVE  \A t \in Searches :
           /\ waiter'[t] \in WaitTask
           /\ waiter'[t].stage = waiter[t].stage
           /\ waiter'[t].events \subseteq waiter[t].events
           /\ waiter[t] = NoWaiter => waiter'[t] = NoWaiter
<1>. TAKE t \in Searches
<1>1. waiter[t] \in WaitTask
  BY DEF TypeOK
<1>2. PICK E : E \subseteq waiter[t].events /\ waiter'[t] = [waiter[t] EXCEPT !.events = E]
  BY DEF Release
<1>3. waiter'[t] = [stage |-> waiter[t].stage, ids |-> waiter[t].ids, events |-> E]
  BY <1>1, <1>2 DEF WaitTask
<1>4. E \subseteq Events
  BY <1>1, <1>2 DEF WaitTask
<1>. QED
  BY <1>1, <1>2, <1>3, <1>4 DEF WaitTask, NoWaiter

(* Every step keeps the types. *)
LEMMA TypeStep == TypeOK /\ [Next]_vars => TypeOK'
<1>. USE SearchAssumption DEF TypeOK, tasks
<1>. SUFFICES ASSUME TypeOK, [Next]_vars PROVE TypeOK'
  OBVIOUS
<1>1. ASSUME NEW s \in Searches, NEW ids \in SUBSET Videos \ {{}}, Start(s, ids)
      PROVE  TypeOK'
  BY <1>1 DEF Start, Request
<1>2. ASSUME NEW s \in Searches, ReadCache(s)
      PROVE  TypeOK'
  BY <1>2 DEF ReadCache, Request, Metadata, Entry, NoEntry
<1>3. ASSUME NEW s \in Searches, Return(s)
      PROVE  TypeOK'
  BY <1>3 DEF Return, Finish, Request, Metadata, Idle, Nothing
<1>4. ASSUME NEW s \in Searches, Split(s)
      PROVE  TypeOK'
  BY <1>4 DEF Split, Request, FetchTask, WaitTask, Metadata, NoFetch, NoWaiter, Nothing
<1>5. ASSUME NEW s \in Searches, Gathered(s)
      PROVE  TypeOK'
  BY <1>5 DEF Gathered, Finish, Request, Metadata, FetchTask, Idle, Nothing, NoFetch
<1>6. ASSUME NEW s \in Searches, FetchAnswered(s)
      PROVE  TypeOK'
  BY <1>6 DEF FetchAnswered, FetchTask, Metadata
<1>7. ASSUME NEW s \in Searches, FetchEnds(s)
      PROVE  TypeOK'
  <2>1. Release(s)
    BY <1>7 DEF FetchEnds
  <2>2. inflight' \in [Videos -> Searches \cup {None}] /\ waiter' \in [Searches -> WaitTask]
    BY <2>1, Released DEF Release
  <2>3. fetch' \in [Searches -> FetchTask]
    BY <1>7 DEF FetchEnds, FetchTask, Metadata, NoFetch, Nothing
  <2>. QED
    BY <1>7, <2>2, <2>3 DEF FetchEnds
<1>8. ASSUME NEW s \in Searches, WaitBegins(s)
      PROVE  TypeOK'
  BY <1>8 DEF WaitBegins, WaitTask, Events
<1>9. ASSUME NEW s \in Searches, WaitMissesEvent(s)
      PROVE  TypeOK'
  BY <1>9 DEF WaitMissesEvent, WaiterRaises, WaitTask, NoWaiter, Request, Idle, Nothing, Metadata, FetchTask, NoFetch
<1>10. ASSUME NEW s \in Searches, WaitReads(s)
      PROVE  TypeOK'
  BY <1>10 DEF WaitReads, WaitTask, NoWaiter
<1>11. ASSUME NEW s \in Searches, Mset(s)
      PROVE  TypeOK'
  BY <1>11 DEF Mset, Metadata, Entry, Nothing
<1>12. ASSUME NEW s \in Searches, ReadFails(s)
      PROVE  TypeOK'
  BY <1>12 DEF ReadFails, Request, Idle, Nothing, Metadata
<1>13. ASSUME NEW s \in Searches, FetchFails(s)
      PROVE  TypeOK'
  <2>1. Release(s)
    BY <1>13 DEF FetchFails
  <2>2. waiter' \in [Searches -> WaitTask] /\ inflight' \in [Videos -> Searches \cup {None}]
    BY <2>1, Released DEF Release
  <2>3. fetch' \in [Searches -> FetchTask]
    BY <1>13 DEF FetchFails, FetchTask, NoFetch, Nothing, Metadata
  <2>4. search' \in [Searches -> Request]
    BY <1>13 DEF FetchFails, Request, Idle, Nothing, Metadata
  <2>. QED
    BY <1>13, <2>2, <2>3, <2>4 DEF FetchFails
<1>14. ASSUME NEW s \in Searches, WaitReadFails(s)
      PROVE  TypeOK'
  BY <1>14 DEF WaitReadFails, WaiterRaises, WaitTask, NoWaiter, Request, Idle, Nothing, Metadata, FetchTask, NoFetch
<1>15. ASSUME NEW s \in Searches, MsetFails(s)
      PROVE  TypeOK'
  BY <1>15 DEF MsetFails, Metadata, Nothing
<1>16. ASSUME NEW v \in Videos, Age(v)
      PROVE  TypeOK'
  BY <1>16 DEF Age, Entry, NoEntry
<1>17. ASSUME NEW v \in Videos, Expire(v)
      PROVE  TypeOK'
  BY <1>17 DEF Expire
<1>18. ASSUME NEW v \in Videos, Edit(v)
      PROVE  TypeOK'
  BY <1>18 DEF Edit, MayChange, Version
<1>19. ASSUME NEW v \in Videos, Withdraw(v)
      PROVE  TypeOK'
  BY <1>19 DEF Withdraw, MayChange
<1>20. CASE UNCHANGED vars
  BY <1>20 DEF vars, tasks
<1>. HIDE DEF TypeOK
<1>. QED
  BY <1>1, <1>2, <1>3, <1>4, <1>5, <1>6, <1>7, <1>8, <1>9, <1>10, <1>11, <1>12, <1>13,
     <1>14, <1>15, <1>16, <1>17, <1>18, <1>19, <1>20
  DEF Next, Step, Fault, Outside

(* The table follows the fetches. *)
LEMMA TableStep == TypeOK /\ TableInv /\ StageInv /\ [Next]_vars => TableInv'
<1>. USE SearchAssumption DEF TypeOK, TableInv, StageInv, FetchTask
<1>. SUFFICES ASSUME TypeOK, TableInv, StageInv, [Next]_vars PROVE TableInv'
  OBVIOUS
<1>1. ASSUME NEW s \in Searches, Split(s)
      PROVE  TableInv'
  BY <1>1 DEF Split, Fetching, NoFetch, NoWaiter
<1>2. ASSUME NEW s \in Searches, Gathered(s)
      PROVE  TableInv'
  BY <1>2 DEF Gathered, Finish, Fetching, NoFetch, NoWaiter
<1>3. ASSUME NEW s \in Searches, FetchAnswered(s)
      PROVE  TableInv'
  BY <1>3 DEF FetchAnswered, Fetching, NoFetch, NoWaiter
<1>4. ASSUME NEW s \in Searches, FetchEnds(s)
      PROVE  TableInv'
  BY <1>4 DEF FetchEnds, Release, Fetching, NoFetch, NoWaiter
<1>5. ASSUME NEW s \in Searches, WaitMissesEvent(s)
      PROVE  TableInv'
  BY <1>5 DEF WaitMissesEvent, WaiterRaises, Fetching, NoFetch, NoWaiter
<1>6. ASSUME NEW s \in Searches, FetchFails(s)
      PROVE  TableInv'
  BY <1>6 DEF FetchFails, Release, Fetching, NoFetch, NoWaiter
<1>7. ASSUME NEW s \in Searches, WaitReadFails(s)
      PROVE  TableInv'
  BY <1>7 DEF WaitReadFails, WaiterRaises, Fetching, NoFetch, NoWaiter
<1>8. CASE UNCHANGED <<inflight, fetch>>
  BY <1>8 DEF Fetching
<1>. HIDE DEF TableInv
<1>. QED
  BY <1>1, <1>2, <1>3, <1>4, <1>5, <1>6, <1>7, <1>8
  DEF Next, Step, Fault, Outside, Start, ReadCache, Return, WaitBegins, WaitReads, Mset, ReadFails, MsetFails, Age, Expire, Edit, Withdraw, vars, tasks

(* An Event that is waited for stays in the table until it is set. *)
LEMMA EventStep == TypeOK /\ EventInv /\ StageInv /\ [Next]_vars => EventInv'
<1>. USE SearchAssumption DEF TypeOK, EventInv, StageInv, WaitTask, Events
<1>. SUFFICES ASSUME TypeOK, EventInv, StageInv, [Next]_vars PROVE EventInv'
  OBVIOUS
<1>1. ASSUME NEW s \in Searches, Split(s)
      PROVE  EventInv'
  BY <1>1 DEF Split, NoWaiter
<1>2. ASSUME NEW s \in Searches, FetchEnds(s)
      PROVE  EventInv'
  BY <1>2 DEF FetchEnds, Release, NoWaiter
<1>3. ASSUME NEW s \in Searches, WaitBegins(s)
      PROVE  EventInv'
  BY <1>3 DEF WaitBegins, NoWaiter
<1>4. ASSUME NEW s \in Searches, WaitMissesEvent(s)
      PROVE  EventInv'
  BY <1>4 DEF WaitMissesEvent, WaiterRaises, NoWaiter
<1>5. ASSUME NEW s \in Searches, WaitReads(s)
      PROVE  EventInv'
  BY <1>5 DEF WaitReads, NoWaiter
<1>6. ASSUME NEW s \in Searches, FetchFails(s)
      PROVE  EventInv'
  BY <1>6 DEF FetchFails, Release, NoWaiter
<1>7. ASSUME NEW s \in Searches, WaitReadFails(s)
      PROVE  EventInv'
  BY <1>7 DEF WaitReadFails, WaiterRaises, NoWaiter
<1>8. CASE UNCHANGED <<inflight, waiter>>
  BY <1>8 DEF Fetching
<1>. HIDE DEF EventInv
<1>. QED
  BY <1>1, <1>2, <1>3, <1>4, <1>5, <1>6, <1>7, <1>8
  DEF Next, Step, Fault, Outside, Start, ReadCache, Return, Gathered, FetchAnswered, Mset, ReadFails, MsetFails, Age, Expire, Edit, Withdraw, vars, tasks

(* The tasks of a request keep within its slot. *)
LEMMA StageStep == TypeOK /\ StageInv /\ [Next]_vars => StageInv'
<1>. USE SearchAssumption DEF TypeOK, StageInv
<1>. SUFFICES ASSUME TypeOK, StageInv, [Next]_vars PROVE StageInv'
  OBVIOUS
<1>1. ASSUME NEW s \in Searches, NEW ids \in SUBSET Videos \ {{}}, Start(s, ids)
      PROVE  StageInv'
  BY <1>1, Defaults DEF Start, tasks
<1>2. ASSUME NEW s \in Searches, ReadCache(s)
      PROVE  StageInv'
  BY <1>2, Defaults DEF ReadCache, tasks
<1>3. ASSUME NEW s \in Searches, Return(s)
      PROVE  StageInv'
  BY <1>3, Defaults DEF Return, Finish, tasks
<1>4. ASSUME NEW s \in Searches, Split(s)
      PROVE  StageInv'
  BY <1>4, Defaults DEF Split, tasks
<1>5. ASSUME NEW s \in Searches, Gathered(s)
      PROVE  StageInv'
  BY <1>5, Defaults DEF Gathered, Finish, tasks
<1>6. ASSUME NEW s \in Searches, FetchAnswered(s)
      PROVE  StageInv'
  BY <1>6, Defaults DEF FetchAnswered, tasks
<1>7. ASSUME NEW s \in Searches, FetchEnds(s)
      PROVE  StageInv'
  <2>1. Release(s)
    BY <1>7 DEF FetchEnds
  <2>. QED
    BY <1>7, <2>1, Released, Defaults DEF FetchEnds
<1>8. ASSUME NEW s \in Searches, WaitBegins(s)
      PROVE  StageInv'
  BY <1>8, Defaults DEF WaitBegins, tasks
<1>9. ASSUME NEW s \in Searches, WaitMissesEvent(s)
      PROVE  StageInv'
  BY <1>9, Defaults DEF WaitMissesEvent, WaiterRaises, tasks
<1>10. ASSUME NEW s \in Searches, WaitReads(s)
      PROVE  StageInv'
  BY <1>10, Defaults DEF WaitReads, tasks
<1>11. ASSUME NEW s \in Searches, ReadFails(s)
      PROVE  StageInv'
  BY <1>11, Defaults DEF ReadFails, tasks
<1>12. ASSUME NEW s \in Searches, FetchFails(s)
      PROVE  StageInv'
  <2>1. Release(s)
    BY <1>12 DEF FetchFails
  <2>. QED
    BY <1>12, <2>1, Released, Defaults DEF FetchFails
<1>13. ASSUME NEW s \in Searches, WaitReadFails(s)
      PROVE  StageInv'
  BY <1>13, Defaults DEF WaitReadFails, WaiterRaises, tasks
<1>14. CASE UNCHANGED <<search, fetch, waiter>>
  BY <1>14 DEF Fetching
<1>. HIDE DEF StageInv
<1>. QED
  BY <1>1, <1>2, <1>3, <1>4, <1>5, <1>6, <1>7, <1>8, <1>9, <1>10, <1>11, <1>12, <1>13,
     <1>14
  DEF Next, Step, Fault, Outside, Mset, MsetFails, Age, Expire, Edit, Withdraw, vars, tasks

-----------------------------------------------------------------------------
(* IInv is an invariant. *)
LEMMA Invariance == Spec => []IInv
<1>1. Init => IInv
  BY InitInv
<1>2. IInv /\ [Next]_vars => IInv'
  BY TypeStep, TableStep, EventStep, StageStep DEF IInv
<1>. QED
  BY <1>1, <1>2, PTL DEF Spec

(* Rows, cache entries, the table and the tasks of every search are well
   typed, whatever fails. *)
THEOREM SearchTypes == Spec => []TypeOK
<1>1. IInv => TypeOK
  BY DEF IInv
<1>. QED
  BY <1>1, Invariance, PTL

(* Two searches never fetch the same video at a time: both would have to be
   the one in the table. *)
THEOREM SingleFetch == Spec => []OneFetchPerVideo
<1>1. IInv => OneFetchPerVideo
  <2>. SUFFICES ASSUME IInv,
                       NEW s \in Searches, NEW t \in Searches, Fetching(s), Fetching(t),
                       NEW v \in fetch[s].ids \cap fetch[t].ids
                PROVE  s = t
    BY DEF OneFetchPerVideo
  <2>1. v \in Videos
    BY DEF IInv, TypeOK, FetchTask
  <2>. QED
    BY <2>1 DEF IInv, TableInv
<1>. QED
  BY <1>1, Invariance, PTL

(* An Event that is waited for is in the table, so its fetch is running and
   sets it when it ends. *)
THEOREM WakeupsAreKept == Spec => []NoLostWakeup
<1>1. IInv => NoLostWakeup
  <2>. SUFFICES ASSUME IInv, NEW s \in Searches, NEW e \in waiter[s].events
                PROVE  Fetching(e[1]) /\ e[2] \in fetch[e[1]].ids
    BY DEF NoLostWakeup
  <2>1. e[1] \in Searches /\ e[2] \in Videos
    BY DEF IInv, TypeOK, WaitTask, Events
  <2>. QED
    BY <2>1 DEF IInv, TableInv, EventInv
<1>. QED
  BY <1>1, Invariance, PTL

-----------------------------------------------------------------------------
(* What a search costs: the work of a slot is a number. *)
LEMMA WorkIsNat ==
  TypeOK => \A s \in Searches :
    /\ RequestWork(s) \in {0, 2, 7, 8} /\ FetchWork(s) \in 0 .. 2
    /\ WaitWork(s) \in 0 .. 2 /\ WriteWork(s) \in 0 .. 1
    /\ SlotWork(s) \in Nat
<1>. SUFFICES ASSUME TypeOK, NEW s \in Searches
              PROVE  /\ RequestWork(s) \in {0, 2, 7, 8} /\ FetchWork(s) \in 0 .. 2
                     /\ WaitWork(s) \in 0 .. 2 /\ WriteWork(s) \in 0 .. 1
                     /\ SlotWork(s) \in Nat
  OBVIOUS
<1>1. search[s] \in Request /\ fetch[s] \in FetchTask /\ waiter[s] \in WaitTask
  BY DEF TypeOK
<1>2. RequestWork(s) \in {0, 2, 7, 8}
  BY <1>1 DEF RequestWork, Request
<1>3. FetchWork(s) \in 0 .. 2
  BY <1>1 DEF FetchWork, FetchTask
<1>4. WaitWork(s) \in 0 .. 2
  BY <1>1 DEF WaitWork, WaitTask
<1>5. WriteWork(s) \in 0 .. 1
  BY DEF WriteWork
<1>. QED
  BY <1>2, <1>3, <1>4, <1>5 DEF SlotWork

(* The same of the next state. *)
LEMMA WorkIsNatNext ==
  TypeOK' => \A s \in Searches :
    /\ RequestWork(s)' \in {0, 2, 7, 8} /\ FetchWork(s)' \in 0 .. 2
    /\ WaitWork(s)' \in 0 .. 2 /\ WriteWork(s)' \in 0 .. 1
<1>1. (TypeOK => \A s \in Searches :
         /\ RequestWork(s) \in {0, 2, 7, 8} /\ FetchWork(s) \in 0 .. 2
         /\ WaitWork(s) \in 0 .. 2 /\ WriteWork(s) \in 0 .. 1
         /\ SlotWork(s) \in Nat)'
  BY WorkIsNat, PTL
<1>. QED
  BY <1>1

(* Setting Events takes no work from anybody. *)
LEMMA ReleaseLeaves ==
  ASSUME TypeOK, NEW s \in Searches, Release(s), NEW t \in Searches
  PROVE  WaitWork(t)' = WaitWork(t)
BY Released DEF WaitWork

(* What the request, its tasks and its write are at gives their work. *)
LEMMA WorkAt ==
  ASSUME NEW s \in Searches
  PROVE  /\ search[s].pc = "reading" => RequestWork(s) = 8
         /\ search[s].pc = "read" => RequestWork(s) = 7
         /\ search[s].pc = "gather" => RequestWork(s) = 2
         /\ search[s].pc = "idle" => RequestWork(s) = 0
         /\ fetch[s].stage = "ready" => FetchWork(s) = 2
         /\ fetch[s].stage = "answered" => FetchWork(s) = 1
         /\ fetch[s].stage \in {"none", "ended"} => FetchWork(s) = 0
         /\ waiter[s].stage = "ready" => WaitWork(s) = 2
         /\ waiter[s].stage = "waiting" => WaitWork(s) = 1
         /\ waiter[s].stage = "none" => WaitWork(s) = 0
         /\ write[s] = Nothing => WriteWork(s) = 0
         /\ write[s] # Nothing => WriteWork(s) = 1
<1>1. /\ search[s].pc = "reading" => RequestWork(s) = 8
      /\ search[s].pc = "read" => RequestWork(s) = 7
      /\ search[s].pc = "gather" => RequestWork(s) = 2
      /\ search[s].pc = "idle" => RequestWork(s) = 0
  BY DEF RequestWork
<1>2. /\ fetch[s].stage = "ready" => FetchWork(s) = 2
      /\ fetch[s].stage = "answered" => FetchWork(s) = 1
      /\ fetch[s].stage \in {"none", "ended"} => FetchWork(s) = 0
  BY DEF FetchWork
<1>3. /\ waiter[s].stage = "ready" => WaitWork(s) = 2
      /\ waiter[s].stage = "waiting" => WaitWork(s) = 1
      /\ waiter[s].stage = "none" => WaitWork(s) = 0
  BY DEF WaitWork
<1>4. /\ write[s] = Nothing => WriteWork(s) = 0
      /\ write[s] # Nothing => WriteWork(s) = 1
  BY DEF WriteWork
<1>. QED
  BY <1>1, <1>2, <1>3, <1>4

(* And after a step. *)
LEMMA WorkThen ==
  ASSUME NEW s \in Searches
  PROVE  /\ search'[s].pc = "reading" => RequestWork(s)' = 8
         /\ search'[s].pc = "read" => RequestWork(s)' = 7
         /\ search'[s].pc = "gather" => RequestWork(s)' = 2
         /\ search'[s].pc = "idle" => RequestWork(s)' = 0
         /\ fetch'[s].stage = "ready" => FetchWork(s)' = 2
         /\ fetch'[s].stage = "answered" => FetchWork(s)' = 1
         /\ fetch'[s].stage \in {"none", "ended"} => FetchWork(s)' = 0
         /\ waiter'[s].stage = "ready" => WaitWork(s)' = 2
         /\ waiter'[s].stage = "waiting" => WaitWork(s)' = 1
         /\ waiter'[s].stage = "none" => WaitWork(s)' = 0
<1>1. /\ search'[s].pc = "reading" => RequestWork(s)' = 8
      /\ search'[s].pc = "read" => RequestWork(s)' = 7
      /\ search'[s].pc = "gather" => RequestWork(s)' = 2
      /\ search'[s].pc = "idle" => RequestWork(s)' = 0
  BY DEF RequestWork
<1>2. /\ fetch'[s].stage = "ready" => FetchWork(s)' = 2
      /\ fetch'[s].stage = "answered" => FetchWork(s)' = 1
      /\ fetch'[s].stage \in {"none", "ended"} => FetchWork(s)' = 0
  BY DEF FetchWork
<1>3. /\ waiter'[s].stage = "ready" => WaitWork(s)' = 2
      /\ waiter'[s].stage = "waiting" => WaitWork(s)' = 1
      /\ waiter'[s].stage = "none" => WaitWork(s)' = 0
  BY DEF WaitWork
<1>. QED
  BY <1>1, <1>2, <1>3

(* A slot whose request, tasks and write stay where they are keeps its work. *)
LEMMA WorkStays ==
  ASSUME NEW t \in Searches, search'[t] = search[t], fetch'[t] = fetch[t],
         waiter'[t].stage = waiter[t].stage, write'[t] = write[t]
  PROVE  SlotWork(t)' = SlotWork(t)
<1>1. RequestWork(t)' = RequestWork(t)
  BY DEF RequestWork
<1>2. FetchWork(t)' = FetchWork(t)
  BY DEF FetchWork
<1>3. WaitWork(t)' = WaitWork(t)
  BY DEF WaitWork
<1>4. WriteWork(t)' = WriteWork(t)
  BY DEF WriteWork, Nothing
<1>. QED
  BY <1>1, <1>2, <1>3, <1>4 DEF SlotWork

(* A step of a slot leaves the others where they are. *)
LEMMA OthersStay ==
  ASSUME TypeOK, NEW s \in Searches, Step(s) \/ Fault(s), NEW t \in Searches \ {s}
  PROVE  /\ search'[t] = search[t] /\ fetch'[t] = fetch[t]
         /\ waiter'[t].stage = waiter[t].stage /\ write'[t] = write[t]
<1>. USE DEF TypeOK, tasks
<1>1. CASE ReadCache(s) \/ ReadFails(s) \/ Split(s)
  BY <1>1 DEF ReadCache, ReadFails, Split
<1>2. CASE Return(s) \/ Gathered(s) \/ FetchAnswered(s)
  BY <1>2 DEF Return, Gathered, FetchAnswered, Finish
<1>3. CASE FetchEnds(s) \/ FetchFails(s)
  <2>1. Release(s)
    BY <1>3 DEF FetchEnds, FetchFails
  <2>2. waiter'[t].stage = waiter[t].stage
    BY <2>1, Released
  <2>. QED
    BY <1>3, <2>2 DEF FetchEnds, FetchFails
<1>4. CASE WaitBegins(s) \/ WaitMissesEvent(s) \/ WaitReads(s) \/ WaitReadFails(s)
  BY <1>4 DEF WaitBegins, WaitMissesEvent, WaitReads, WaitReadFails, WaiterRaises
<1>5. CASE Mset(s) \/ MsetFails(s)
  BY <1>5 DEF Mset, MsetFails
<1>. QED
  BY <1>1, <1>2, <1>3, <1>4, <1>5 DEF Step, Fault

(* It shrinks the work of its own. *)
LEMMA SlotOn ==
  ASSUME TypeOK, TypeOK', StageInv, NEW s \in Searches, Step(s) \/ Fault(s)
  PROVE  SlotWork(s)' < SlotWork(s)
<1>. USE DEF TypeOK, tasks
<1>0. /\ RequestWork(s) \in {0, 2, 7, 8} /\ FetchWork(s) \in 0 .. 2
      /\ WaitWork(s) \in 0 .. 2 /\ WriteWork(s) \in 0 .. 1
      /\ RequestWork(s)' \in {0, 2, 7, 8} /\ FetchWork(s)' \in 0 .. 2
      /\ WaitWork(s)' \in 0 .. 2 /\ WriteWork(s)' \in 0 .. 1
  <2>. HIDE DEF TypeOK
  <2>. QED
    BY WorkIsNat, WorkIsNatNext
<1>0a. /\ fetch' = fetch => FetchWork(s)' = FetchWork(s)
       /\ waiter' = waiter => WaitWork(s)' = WaitWork(s)
       /\ search' = search => RequestWork(s)' = RequestWork(s)
       /\ write' = write => WriteWork(s)' = WriteWork(s)
  BY DEF FetchWork, WaitWork, RequestWork, WriteWork, Nothing
<1>1. CASE ReadCache(s) \/ ReadFails(s)
  <2>1. /\ search[s].pc = "reading" /\ search'[s].pc \in {"read", "idle"}
        /\ fetch' = fetch /\ waiter' = waiter /\ write' = write
    BY <1>1, Defaults DEF ReadCache, ReadFails
  <2>2. RequestWork(s) = 8 /\ RequestWork(s)' \in {0, 7}
    BY <2>1, WorkAt, WorkThen
  <2>. QED
    BY <1>0, <1>0a, <2>1, <2>2 DEF SlotWork
<1>2. CASE Return(s)
  <2>1. /\ search[s].pc = "read" /\ search'[s].pc = "idle"
        /\ fetch' = fetch /\ waiter' = waiter
    BY <1>2, Defaults DEF Return, Finish
  <2>2. RequestWork(s) = 7 /\ RequestWork(s)' = 0
    BY <2>1, WorkAt, WorkThen
  <2>. QED
    BY <1>0, <1>0a, <2>1, <2>2 DEF SlotWork
<1>3. CASE Split(s)
  <2>1. /\ search[s].pc = "read" /\ search'[s].pc = "gather" /\ write' = write
    BY <1>3 DEF Split
  <2>2. RequestWork(s) = 7 /\ RequestWork(s)' = 2
    BY <2>1, WorkAt, WorkThen
  <2>. QED
    BY <1>0, <1>0a, <2>1, <2>2 DEF SlotWork
<1>4. CASE Gathered(s)
  <2>1. /\ search[s].pc = "gather" /\ search'[s].pc = "idle"
        /\ fetch[s].stage \in {"none", "ended"} /\ fetch'[s].stage = "none"
        /\ waiter' = waiter
    BY <1>4, Defaults DEF Gathered, Finish
  <2>2. RequestWork(s) = 2 /\ RequestWork(s)' = 0 /\ FetchWork(s) = 0 /\ FetchWork(s)' = 0
    BY <2>1, WorkAt, WorkThen
  <2>. QED
    BY <1>0, <1>0a, <2>1, <2>2 DEF SlotWork
<1>5. CASE FetchAnswered(s)
  <2>1. /\ fetch[s].stage = "ready" /\ fetch'[s].stage = "answered"
        /\ search' = search /\ waiter' = waiter /\ write' = write
    BY <1>5 DEF FetchAnswered
  <2>2. FetchWork(s) = 2 /\ FetchWork(s)' = 1
    BY <2>1, WorkAt, WorkThen
  <2>. QED
    BY <1>0, <1>0a, <2>1, <2>2 DEF SlotWork
<1>6. CASE FetchEnds(s)
  <2>1. /\ fetch[s].stage = "answered" /\ fetch'[s].stage \in {"none", "ended"}
        /\ search' = search /\ write' = write /\ Release(s)
    BY <1>6, Defaults DEF FetchEnds
  <2>2. FetchWork(s) = 1 /\ FetchWork(s)' = 0
    BY <2>1, WorkAt, WorkThen
  <2>3. WaitWork(s)' = WaitWork(s)
    BY <2>1, ReleaseLeaves
  <2>. QED
    BY <1>0, <1>0a, <2>1, <2>2, <2>3 DEF SlotWork
<1>7. CASE FetchFails(s)
  <2>1. /\ fetch[s].stage \in {"ready", "answered"} /\ fetch'[s].stage = "none"
        /\ search'[s].pc = "idle" /\ write' = write /\ Release(s)
    BY <1>7, Defaults DEF FetchFails
  <2>2. FetchWork(s) \in {1, 2} /\ FetchWork(s)' = 0 /\ RequestWork(s)' = 0
    BY <2>1, WorkAt, WorkThen
  <2>3. WaitWork(s)' = WaitWork(s)
    BY <2>1, ReleaseLeaves
  <2>. QED
    BY <1>0, <1>0a, <2>1, <2>2, <2>3 DEF SlotWork
<1>8. CASE WaitBegins(s)
  <2>1. /\ waiter[s].stage = "ready" /\ waiter'[s].stage = "waiting"
        /\ search' = search /\ fetch' = fetch /\ write' = write
    BY <1>8 DEF WaitBegins
  <2>2. WaitWork(s) = 2 /\ WaitWork(s)' = 1
    BY <2>1, WorkAt, WorkThen
  <2>. QED
    BY <1>0, <1>0a, <2>1, <2>2 DEF SlotWork
<1>9. CASE WaitReads(s)
  <2>1. /\ waiter[s].stage = "waiting" /\ waiter'[s].stage = "none"
        /\ search' = search /\ fetch' = fetch /\ write' = write
    BY <1>9, Defaults DEF WaitReads
  <2>2. WaitWork(s) = 1 /\ WaitWork(s)' = 0
    BY <2>1, WorkAt, WorkThen
  <2>. QED
    BY <1>0, <1>0a, <2>1, <2>2 DEF SlotWork
<1>10. CASE WaitMissesEvent(s) \/ WaitReadFails(s)
  <2>1. /\ waiter[s].stage \in {"ready", "waiting"} /\ waiter'[s].stage = "none"
        /\ search'[s].pc = "idle" /\ write' = write
    BY <1>10, Defaults DEF WaitMissesEvent, WaitReadFails, WaiterRaises
  <2>2. WaitWork(s) \in {1, 2} /\ WaitWork(s)' = 0 /\ RequestWork(s)' = 0
    BY <2>1, WorkAt, WorkThen
  <2>3. FetchWork(s)' <= FetchWork(s)
    <3>1. CASE fetch[s].stage = "ended"
      <4>1. fetch'[s].stage = "none"
        BY <1>10, <3>1, Defaults DEF WaitMissesEvent, WaitReadFails, WaiterRaises
      <4>. QED
        BY <1>0, <4>1, WorkThen
    <3>2. CASE fetch[s].stage # "ended"
      <4>1. fetch'[s] = fetch[s]
        BY <1>10, <3>2 DEF WaitMissesEvent, WaitReadFails, WaiterRaises
      <4>2. FetchWork(s)' = FetchWork(s)
        BY <4>1 DEF FetchWork
      <4>. QED
        BY <1>0, <4>2
    <3>. QED
      BY <3>1, <3>2
  <2>. QED
    BY <1>0, <1>0a, <2>1, <2>2, <2>3 DEF SlotWork
<1>11. CASE Mset(s) \/ MsetFails(s)
  <2>1. write[s] # Nothing /\ search' = search /\ fetch' = fetch /\ waiter' = waiter
    BY <1>11 DEF Mset, MsetFails
  <2>2. WriteWork(s) = 1 /\ WriteWork(s)' = 0
    <3>1. write'[s] = Nothing
      BY <1>11 DEF Mset, MsetFails
    <3>. QED
      BY <2>1, <3>1 DEF WriteWork, Nothing
  <2>. QED
    BY <1>0, <1>0a, <2>1, <2>2 DEF SlotWork
<1>. QED
  BY <1>1, <1>2, <1>3, <1>4, <1>5, <1>6, <1>7, <1>8, <1>9, <1>10, <1>11 DEF Step, Fault

(* A request begins in a free slot, with eight steps before it at most. *)
LEMMA StartOn ==
  ASSUME TypeOK, NEW s \in Searches, NEW ids, Start(s, ids)
  PROVE  /\ SlotWork(s) = 0 /\ SlotWork(s)' = 8
         /\ \A t \in Searches \ {s} : SlotWork(t)' = SlotWork(t)
<1>. USE DEF TypeOK, tasks
<1>1. /\ search[s].pc = "idle" /\ search'[s].pc = "reading"
      /\ fetch[s].stage = "none" /\ fetch' = fetch
      /\ waiter[s].stage = "none" /\ waiter' = waiter
      /\ write[s] = Nothing /\ write' = write
  BY Defaults DEF Start
<1>2. RequestWork(s) = 0 /\ FetchWork(s) = 0 /\ WaitWork(s) = 0
  BY <1>1, WorkAt
<1>3. RequestWork(s)' = 8 /\ FetchWork(s)' = 0 /\ WaitWork(s)' = 0
  BY <1>1, WorkThen
<1>4. WriteWork(s) = 0 /\ WriteWork(s)' = 0
  BY <1>1 DEF WriteWork, Nothing
<1>5. ASSUME NEW t \in Searches \ {s}
      PROVE  SlotWork(t)' = SlotWork(t)
  <2>1. search'[t] = search[t]
    BY DEF Start
  <2>. QED
    BY <1>1, <2>1, WorkStays
<1>. QED
  BY <1>2, <1>3, <1>4, <1>5 DEF SlotWork

(* All steps together. *)
LEMMA WindStep == IInv /\ IInv' /\ [Next]_vars => WindsDown
<1>. SUFFICES ASSUME IInv, IInv', [Next]_vars, NEW s \in Searches
              PROVE  /\ Step(s) \/ Fault(s) => SlotWork(s)' < SlotWork(s)
                     /\ SlotWork(s)' <= SlotWork(s) \/ (SlotWork(s) = 0 /\ SlotWork(s)' = 8)
  BY DEF WindsDown
<1>0. TypeOK /\ TypeOK' /\ StageInv
  BY DEF IInv
<1>1. Step(s) \/ Fault(s) => SlotWork(s)' < SlotWork(s)
  BY <1>0, SlotOn
<1>2. SlotWork(s) \in Nat
  BY <1>0, WorkIsNat
<1>3. SlotWork(s)' \in Nat
  BY <1>0, WorkIsNatNext DEF SlotWork
<1>4. ASSUME NEW t \in Searches, NEW ids, Start(t, ids)
      PROVE  SlotWork(s)' = SlotWork(s) \/ (SlotWork(s) = 0 /\ SlotWork(s)' = 8)
  BY <1>0, <1>4, StartOn
<1>5. ASSUME NEW t \in Searches \ {s}, Step(t) \/ Fault(t)
      PROVE  SlotWork(s)' = SlotWork(s)
  <2>1. /\ search'[s] = search[s] /\ fetch'[s] = fetch[s]
        /\ waiter'[s].stage = waiter[s].stage /\ write'[s] = write[s]
    BY <1>0, <1>5, OthersStay
  <2>. QED
    BY <2>1, WorkStays
<1>6. CASE UNCHANGED <<search, fetch, waiter, write>>
  <2>1. SlotWork(s)' = SlotWork(s)
    BY <1>6, WorkStays
  <2>. QED
    BY <1>1, <1>2, <2>1
<1>7. ASSUME NEW v \in Videos, Outside(v)
      PROVE  UNCHANGED <<search, fetch, waiter, write>>
  BY <1>7 DEF Outside, Age, Expire, Edit, Withdraw, tasks
<1>8. UNCHANGED vars => UNCHANGED <<search, fetch, waiter, write>>
  BY DEF vars
<1>. QED
  BY <1>1, <1>2, <1>3, <1>4, <1>5, <1>6, <1>7, <1>8 DEF Next

(* A search and the tasks it starts take eight steps at most, whatever fails
   and whoever waits for whom: each step of a slot shrinks a number that is 8
   when the request begins, and nobody else adds to it. *)
THEOREM SearchesAreShort ==
  Spec => [][WindsDown]_vars /\ [](\A s \in Searches : SlotWork(s) \in Nat)
<1>1. IInv => \A s \in Searches : SlotWork(s) \in Nat
  BY WorkIsNat DEF IInv
<1>2. IInv /\ IInv' /\ [Next]_vars => [WindsDown]_vars
  BY WindStep
<1>. QED
  BY <1>1, <1>2, Invariance, PTL DEF Spec

(* No two searches wait for each other: one that cannot go on waits for an
   Event, and the fetch that sets it is running.  With the steps bounded and
   the fairness of the event loop this is SearchesEnd. *)
THEOREM NoneIsStuck == Spec => []NobodyIsStuck
<1>1. IInv => NobodyIsStuck
  <2>. SUFFICES ASSUME IInv, NEW s \in Searches, SlotWork(s) # 0,
                       ~ \E e \in waiter[s].events : Fetching(e[1])
                PROVE  CanGo(s)
    BY DEF NobodyIsStuck
  <2>1. search[s] \in Request /\ fetch[s] \in FetchTask /\ waiter[s] \in WaitTask
    BY DEF IInv, TypeOK
  <2>2. waiter[s].events = {}
    <3>1. ASSUME NEW e \in waiter[s].events
          PROVE  FALSE
      <4>1. e[1] \in Searches /\ e[2] \in Videos /\ inflight[e[2]] = e[1]
        BY <2>1 DEF IInv, EventInv, WaitTask, Events
      <4>. QED
        BY <4>1 DEF IInv, TableInv
    <3>. QED
      BY <3>1
  <2>3. CASE waiter[s].stage # "none"
    BY <2>1, <2>2, <2>3 DEF CanGo, WaitTask
  <2>4. CASE fetch[s].stage \in {"ready", "answered"}
    BY <2>4 DEF CanGo, Fetching
  <2>5. CASE waiter[s].stage = "none" /\ fetch[s].stage \in {"none", "ended"}
    <3>1. FetchWork(s) = 0 /\ WaitWork(s) = 0
      BY <2>5, WorkAt
    <3>2. search[s].pc # "idle" \/ write[s] # Nothing
      <4>1. search[s].pc = "idle" /\ write[s] = Nothing => SlotWork(s) = 0
        BY <3>1, WorkAt DEF SlotWork
      <4>. QED
        BY <4>1
    <3>. QED
      BY <2>1, <2>5, <3>2 DEF CanGo, Request
  <2>. QED
    BY <2>1, <2>3, <2>4, <2>5 DEF FetchTask
<1>. QED
  BY <1>1, Invariance, PTL
=============================================================================
