---------------------------- MODULE SearchCache ----------------------------
(***************************************************************************)
(* How concurrent searches of one search_service process resolve video ids *)
(* into metadata: the Redis cache, the table of fetches in flight, the     *)
(* gRPC call to api_service, and the background writes back to the cache.  *)
(*                                                                         *)
(* A search slot is a request together with the asyncio tasks it starts;   *)
(* it is free again when all of them are over.  A step is the code between *)
(* two awaits.                                                             *)
(***************************************************************************)
EXTENDS Naturals, FiniteSets

CONSTANTS
  Searches,  \* slots for concurrent requests
  Videos,
  None,      \* no search, no metadata
  MaxEdits,  \* bound: edits of each video
  MaxChanged \* bound: videos that are edited or withdrawn

ASSUME SearchAssumption ==
  /\ None \notin Searches
  /\ None \notin Nat
  /\ MaxEdits \in Nat
  /\ MaxChanged \in Nat

VARIABLES
  row,       \* version of the video's public row in api_service, or None
  cache,     \* the keys meta:<id>
  inflight,  \* _inflight_requests: the search whose Event the id has
  search,    \* the requests in _handle_metadata
  fetch,     \* their get_metadata_grpc tasks
  waiter,    \* their _await_cache_metadata tasks
  write      \* their background mset tasks

tasks == <<fetch, waiter, write>>
vars  == <<row, cache, inflight, search, fetch, waiter, write>>

-----------------------------------------------------------------------------
(* The data *)

Version  == 0 .. MaxEdits
Metadata == [Videos -> Version \cup {None}]                 \* of some of the videos
Entry    == [version : Version, half : {"first", "second"}]  \* of its TTL
NoEntry  == [version |-> None, half |-> "none"]
Events   == Searches \X Videos  \* an Event is known by its creator and id

Request   == [pc : {"idle", "reading", "read", "gather"},
              ids : SUBSET Videos, missing : SUBSET Videos, ageing : Metadata]
FetchTask == [stage : {"none", "ready", "answered", "ended"},
              ids : SUBSET Videos, answer : Metadata]
WaitTask  == [stage : {"none", "ready", "waiting"},
              ids : SUBSET Videos, events : SUBSET Events]

Nothing  == [v \in Videos |-> None]
Idle     == [pc |-> "idle", ids |-> {}, missing |-> {}, ageing |-> Nothing]
NoFetch  == [stage |-> "none", ids |-> {}, answer |-> Nothing]
NoWaiter == [stage |-> "none", ids |-> {}, events |-> {}]

TypeOK ==
  /\ row \in [Videos -> Version \cup {None}]
  /\ cache \in [Videos -> Entry \cup {NoEntry}]
  /\ inflight \in [Videos -> Searches \cup {None}]
  /\ search \in [Searches -> Request]
  /\ fetch \in [Searches -> FetchTask]
  /\ waiter \in [Searches -> WaitTask]
  /\ write \in [Searches -> Metadata]

Init ==
  /\ row = [v \in Videos |-> 0]
  /\ cache = [v \in Videos |-> NoEntry]
  /\ inflight = [v \in Videos |-> None]
  /\ search = [s \in Searches |-> Idle]
  /\ fetch = [s \in Searches |-> NoFetch]
  /\ waiter = [s \in Searches |-> NoWaiter]
  /\ write = [s \in Searches |-> Nothing]

-----------------------------------------------------------------------------
(* A request *)

(* The vector search has returned the ids, or a page of cached ids was read. *)
Start(s, ids) ==
  /\ search[s] = Idle /\ fetch[s] = NoFetch /\ waiter[s] = NoWaiter /\ write[s] = Nothing
  /\ search' = [search EXCEPT ![s] =
       [pc |-> "reading", ids |-> ids, missing |-> {}, ageing |-> Nothing]]
  /\ UNCHANGED <<row, cache, inflight, tasks>>

(* mget_with_ttl as Redis executes it. *)
ReadCache(s) ==
  /\ search[s].pc = "reading"
  /\ search' = [search EXCEPT ![s] =
       [pc      |-> "read",
        ids     |-> {},
        missing |-> {v \in search[s].ids : cache[v] = NoEntry},
        ageing  |-> [v \in Videos |-> IF v \in search[s].ids /\ cache[v].half = "second"
                                      THEN cache[v].version ELSE None]]]
  /\ UNCHANGED <<row, cache, inflight, tasks>>

ReadFails(s) ==
  /\ search[s].pc = "reading"
  /\ search' = [search EXCEPT ![s] = Idle]
  /\ UNCHANGED <<row, cache, inflight, tasks>>

(* The request returns; what was fetched, and what is in the second half of its
   TTL with the value that was read, is written in the background. *)
Finish(s, fetched) ==
  /\ search' = [search EXCEPT ![s] = Idle]
  /\ write' = [write EXCEPT ![s] =
       [v \in Videos |-> IF fetched[v] # None THEN fetched[v] ELSE search[s].ageing[v]]]

Return(s) ==
  /\ search[s].pc = "read"
  /\ search[s].missing = {}
  /\ Finish(s, Nothing)
  /\ UNCHANGED <<row, cache, inflight, fetch, waiter>>

(* Mutant: the look-up and the registration are not one step of the loop. *)
SplitAll(s) ==
  /\ search[s].pc = "read"
  /\ search[s].missing # {}
  /\ inflight' = [v \in Videos |-> IF v \in search[s].missing THEN s ELSE inflight[v]]
  /\ fetch' = [fetch EXCEPT ![s] =
       [stage |-> "ready", ids |-> search[s].missing, answer |-> Nothing]]
  /\ search' = [search EXCEPT ![s] =
       [pc |-> "gather", ids |-> {}, missing |-> {}, ageing |-> search[s].ageing]]
  /\ UNCHANGED <<row, cache, waiter, write>>

(* The missing ids are split between new ones, whose Events are registered,
   and those already being fetched; gather creates the two tasks. *)
Split(s) ==
  /\ search[s].pc = "read"
  /\ search[s].missing # {}
  /\ LET new == {v \in search[s].missing : inflight[v] = None}
         old == search[s].missing \ new
     IN  /\ inflight' = [v \in Videos |-> IF v \in new THEN s ELSE inflight[v]]
         /\ fetch' = [fetch EXCEPT ![s] = IF new = {} THEN NoFetch
              ELSE [stage |-> "ready", ids |-> new, answer |-> Nothing]]
         /\ waiter' = [waiter EXCEPT ![s] = IF old = {} THEN NoWaiter
              ELSE [stage |-> "ready", ids |-> old, events |-> {}]]
  /\ search' = [search EXCEPT ![s] =
       [pc |-> "gather", ids |-> {}, missing |-> {}, ageing |-> search[s].ageing]]
  /\ UNCHANGED <<row, cache, write>>

(* Mutant: a request that fetches nothing waits for a fetch, too. *)
GatheredFetch(s) ==
  /\ search[s].pc = "gather"
  /\ fetch[s].stage = "ended" /\ waiter[s].stage = "none"
  /\ Finish(s, fetch[s].answer)
  /\ fetch' = [fetch EXCEPT ![s] = NoFetch]
  /\ UNCHANGED <<row, cache, inflight, waiter>>

(* gather has both results. *)
Gathered(s) ==
  /\ search[s].pc = "gather"
  /\ fetch[s].stage \in {"none", "ended"} /\ waiter[s].stage = "none"
  /\ Finish(s, fetch[s].answer)
  /\ fetch' = [fetch EXCEPT ![s] = NoFetch]
  /\ UNCHANGED <<row, cache, inflight, waiter>>

-----------------------------------------------------------------------------
(* Its tasks: when one raises, so does gather, and the other goes on *)

(* api_service answers from its rows, with the public ones only. *)
FetchAnswered(s) ==
  /\ fetch[s].stage = "ready"
  /\ fetch' = [fetch EXCEPT ![s] =
       [stage  |-> "answered",
        ids    |-> fetch[s].ids,
        answer |-> [v \in Videos |-> IF v \in fetch[s].ids THEN row[v] ELSE None]]]
  /\ UNCHANGED <<row, cache, inflight, search, waiter, write>>

(* The finally clause: the Events of the ids are set and taken out. *)
Release(s) ==
  /\ inflight' = [v \in Videos |-> IF v \in fetch[s].ids THEN None ELSE inflight[v]]
  /\ waiter' = [t \in Searches |-> [waiter[t] EXCEPT
       !.events = {e \in @ : ~ (e[2] \in fetch[s].ids /\ e[1] = inflight[e[2]])}]]

(* The answer is dropped when the request has raised meanwhile. *)
FetchEnds(s) ==
  /\ fetch[s].stage = "answered"
  /\ Release(s)
  /\ fetch' = [fetch EXCEPT ![s] =
       IF search[s].pc = "gather"
       THEN [stage |-> "ended", ids |-> {}, answer |-> fetch[s].answer]
       ELSE NoFetch]
  /\ UNCHANGED <<row, cache, search, write>>

(* The call times out or fails: the request raises after the finally. *)
FetchFails(s) ==
  /\ fetch[s].stage \in {"ready", "answered"}
  /\ Release(s)
  /\ fetch' = [fetch EXCEPT ![s] = NoFetch]
  /\ search' = [search EXCEPT ![s] = Idle]
  /\ UNCHANGED <<row, cache, write>>

(* Mutant: the Events are created by the waiting task when there is none. *)
WaitForAny(s) ==
  /\ waiter[s].stage = "ready"
  /\ waiter' = [waiter EXCEPT ![s] =
       [stage  |-> "waiting",
        ids    |-> waiter[s].ids,
        events |-> {<<IF inflight[v] = None THEN s ELSE inflight[v], v>> : v \in waiter[s].ids}]]
  /\ UNCHANGED <<row, cache, inflight, search, fetch, write>>

(* The task looks its Events up when it starts. *)
WaitBegins(s) ==
  /\ waiter[s].stage = "ready"
  /\ \A v \in waiter[s].ids : inflight[v] # None
  /\ waiter' = [waiter EXCEPT ![s] =
       [stage  |-> "waiting",
        ids    |-> waiter[s].ids,
        events |-> {<<inflight[v], v>> : v \in waiter[s].ids}]]
  /\ UNCHANGED <<row, cache, inflight, search, fetch, write>>

WaiterRaises(s) ==
  /\ waiter' = [waiter EXCEPT ![s] = NoWaiter]
  /\ search' = [search EXCEPT ![s] = Idle]
  /\ fetch' = [fetch EXCEPT ![s] = IF @.stage = "ended" THEN NoFetch ELSE @]
  /\ UNCHANGED <<row, cache, inflight, write>>

(* One of the Events has gone since the split: KeyError. *)
WaitMissesEvent(s) ==
  /\ waiter[s].stage = "ready"
  /\ \E v \in waiter[s].ids : inflight[v] = None
  /\ WaiterRaises(s)

(* All Events are set, and the ids are looked up in the cache again. *)
WaitReads(s) ==
  /\ waiter[s].stage = "waiting"
  /\ waiter[s].events = {}
  /\ waiter' = [waiter EXCEPT ![s] = NoWaiter]
  /\ UNCHANGED <<row, cache, inflight, search, fetch, write>>

WaitReadFails(s) ==
  /\ waiter[s].stage = "waiting"
  /\ waiter[s].events = {}
  /\ WaiterRaises(s)

(* Mutant: ids without an answer are written, too. *)
MsetEverything(s) ==
  /\ write[s] # Nothing
  /\ cache' = [v \in Videos |-> [version |-> write[s][v], half |-> "first"]]
  /\ write' = [write EXCEPT ![s] = Nothing]
  /\ UNCHANGED <<row, inflight, search, fetch, waiter>>

(* mset: one pipeline, so one step of Redis. *)
Mset(s) ==
  /\ write[s] # Nothing
  /\ cache' = [v \in Videos |-> IF write[s][v] = None THEN cache[v]
                               ELSE [version |-> write[s][v], half |-> "first"]]
  /\ write' = [write EXCEPT ![s] = Nothing]
  /\ UNCHANGED <<row, inflight, search, fetch, waiter>>

MsetFails(s) ==
  /\ write[s] # Nothing
  /\ write' = [write EXCEPT ![s] = Nothing]
  /\ UNCHANGED <<row, cache, inflight, search, fetch, waiter>>

-----------------------------------------------------------------------------
(* Time and api_service *)

Age(v) ==
  /\ cache[v] # NoEntry /\ cache[v].half = "first"
  /\ cache' = [cache EXCEPT ![v].half = "second"]
  /\ UNCHANGED <<row, inflight, search, tasks>>

Expire(v) ==
  /\ cache[v] # NoEntry /\ cache[v].half = "second"
  /\ cache' = [cache EXCEPT ![v] = NoEntry]
  /\ UNCHANGED <<row, inflight, search, tasks>>

MayChange(v) ==
  row[v] # None /\ Cardinality({w \in Videos : row[w] # 0} \cup {v}) <= MaxChanged

Edit(v) ==
  /\ MayChange(v) /\ row[v] < MaxEdits
  /\ row' = [row EXCEPT ![v] = @ + 1]
  /\ UNCHANGED <<cache, inflight, search, tasks>>

Withdraw(v) ==
  /\ MayChange(v)
  /\ row' = [row EXCEPT ![v] = None]
  /\ UNCHANGED <<cache, inflight, search, tasks>>

-----------------------------------------------------------------------------
(* The next-state relation *)

Step(s) ==
  \/ ReadCache(s) \/ Return(s) \/ Split(s) \/ Gathered(s)
  \/ FetchAnswered(s) \/ FetchEnds(s)
  \/ WaitBegins(s) \/ WaitMissesEvent(s) \/ WaitReads(s)
  \/ Mset(s)

Fault(s) == ReadFails(s) \/ FetchFails(s) \/ WaitReadFails(s) \/ MsetFails(s)

Outside(v) == Age(v) \/ Expire(v) \/ Edit(v) \/ Withdraw(v)

Next ==
  \/ \E s \in Searches :
       \/ \E ids \in SUBSET Videos \ {{}} : Start(s, ids)
       \/ Step(s) \/ Fault(s)
  \/ \E v \in Videos : Outside(v)

Spec == Init /\ [][Next]_vars

(* The event loop runs every task that can go on; every Redis command and
   every gRPC call (timeout 5 s) is answered or fails; time passes. *)
Progress ==
  /\ \A s \in Searches :
       /\ WF_vars(ReadCache(s) \/ ReadFails(s))
       /\ WF_vars(Return(s) \/ Split(s))
       /\ WF_vars(FetchAnswered(s) \/ FetchEnds(s) \/ FetchFails(s))
       /\ WF_vars(WaitBegins(s) \/ WaitMissesEvent(s) \/ WaitReads(s) \/ WaitReadFails(s))
       /\ WF_vars(Gathered(s))
       /\ WF_vars(Mset(s) \/ MsetFails(s))
  /\ \A v \in Videos : WF_vars(Age(v)) /\ WF_vars(Expire(v))

FairSpec == Spec /\ Progress

-----------------------------------------------------------------------------
(* Properties *)

Fetching(s) == fetch[s].stage \in {"ready", "answered"}

(* Two searches never fetch the same video at a time: concurrent requests
   block on one gRPC call (docs/process_docs.md:337). *)
OneFetchPerVideo ==
  \A s, t \in Searches :
    s # t /\ Fetching(s) /\ Fetching(t) => fetch[s].ids \cap fetch[t].ids = {}

(* An Event that a search still waits for belongs to a fetch that is still
   running, so someone will set it, whatever fails in between. *)
NoLostWakeup ==
  \A s \in Searches : \A e \in waiter[s].events :
    Fetching(e[1]) /\ e[2] \in fetch[e[1]].ids

(* Every search ends with a result or an error. *)
SearchesEnd ==
  \A s \in Searches : search[s].pc = "reading" ~> search[s].pc = "idle"

-----------------------------------------------------------------------------
(* The inductive invariant: the table has exactly the fetches that run, and
   the Events that are waited for are in the table. *)
TableInv ==
  \A v \in Videos, s \in Searches :
    inflight[v] = s <=> Fetching(s) /\ v \in fetch[s].ids

EventInv ==
  \A s \in Searches : \A e \in waiter[s].events : inflight[e[2]] = e[1]

(* The tasks of a request start after the split and may outlive it, but not
   the slot. *)
StageInv ==
  \A s \in Searches :
    /\ search[s].pc \in {"reading", "read"} => fetch[s] = NoFetch /\ waiter[s] = NoWaiter
    /\ fetch[s].stage = "none" => fetch[s] = NoFetch
    /\ waiter[s].stage # "waiting" => waiter[s].events = {}

IInv == TypeOK /\ TableInv /\ EventInv /\ StageInv
-----------------------------------------------------------------------------
(* Why a search ends: the steps that its slot has still to take. *)
RequestWork(s) ==
  CASE search[s].pc = "reading" -> 8
    [] search[s].pc = "read"    -> 7
    [] search[s].pc = "gather"  -> 2
    [] search[s].pc = "idle"    -> 0
FetchWork(s) ==
  CASE fetch[s].stage = "ready"    -> 2
    [] fetch[s].stage = "answered" -> 1
    [] fetch[s].stage \in {"none", "ended"} -> 0
WaitWork(s) ==
  CASE waiter[s].stage = "ready"   -> 2
    [] waiter[s].stage = "waiting" -> 1
    [] waiter[s].stage = "none"    -> 0
WriteWork(s) == IF write[s] = Nothing THEN 0 ELSE 1

SlotWork(s) == RequestWork(s) + FetchWork(s) + WaitWork(s) + WriteWork(s)

(* A step of a slot shrinks its work, nobody else adds to it, and a request
   starts in a slot without any. *)
WindsDown ==
  \A s \in Searches :
    /\ Step(s) \/ Fault(s) => SlotWork(s)' < SlotWork(s)
    /\ SlotWork(s)' <= SlotWork(s) \/ (SlotWork(s) = 0 /\ SlotWork(s)' = 8)

(* The request of the slot or one of its tasks is at a step it can take. *)
CanGo(s) ==
  \/ search[s].pc \in {"reading", "read"}
  \/ Fetching(s)
  \/ waiter[s].stage = "ready"
  \/ waiter[s].stage = "waiting" /\ waiter[s].events = {}
  \/ search[s].pc = "gather" /\ fetch[s].stage \in {"none", "ended"} /\ waiter[s].stage = "none"
  \/ write[s] # Nothing

(* A slot that has work left can go on, or it waits for a fetch of another
   slot that can. *)
NobodyIsStuck ==
  \A s \in Searches : SlotWork(s) # 0 =>
    CanGo(s) \/ \E e \in waiter[s].events : Fetching(e[1])
=============================================================================
