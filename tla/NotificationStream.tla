------------------------- MODULE NotificationStream -------------------------
(***************************************************************************)
(* Notifications: a row, an entry of a Redis stream, and one push per      *)
(* connected user.  The stream has one consumer group, so every entry goes *)
(* to one process of api_service, which knows only its own SSE streams.    *)
(*                                                                         *)
(* An entry is its position in the stream.                                 *)
(***************************************************************************)
EXTENDS Naturals, FiniteSets

CONSTANTS
  Notes,      \* calls of sendNotification
  Users,
  Tabs,       \* SSE connections of browsers
  Processes,
  None,       \* no process
  BatchSize,  \* COUNT of XREADGROUP, 10 in the code
  MaxCrashes  \* bound: crashes and restarts of processes

ASSUME StreamAssumption ==
  /\ None \notin Processes
  /\ BatchSize \in Nat \ {0}
  /\ MaxCrashes \in Nat

VARIABLES
  note,     \* the calls, and the rows they created
  length,   \* of the stream
  group,    \* whether the consumer group exists
  cursor,   \* its last delivered entry
  acked,    \* the entries it has acknowledged
  pushed,   \* the entries that were given to Subjects
  process,  \* the consumer loops
  subjects, \* the users with a Subject in a process
  tab,
  crashes

stream == <<length, group, cursor, acked>>
people == <<subjects, tab>>
vars   == <<note, stream, pushed, process, people, crashes>>

-----------------------------------------------------------------------------
(* The data *)

Note == [step    : {"idle", "saved", "addressed", "ended"},
         row     : {"none", "unread", "read"},
         targets : SUBSET Users,
         entry   : Nat]  \* 0 when it is not in the stream

(* The entries first .. last of its batch are still to be handled, and the
   first is pushed already in step "acking". *)
Process == [step : {"booting", "polling", "pushing", "acking"}, first : Nat, last : Nat]

Tab == [at : Processes \cup {None}, user : Users, last : Nat]  \* entry received

Booting == [step |-> "booting", first |-> 1, last |-> 0]
Polling == [step |-> "polling", first |-> 1, last |-> 0]

TypeOK ==
  /\ note \in [Notes -> Note]
  /\ length \in Nat /\ cursor \in Nat /\ crashes \in Nat
  /\ group \in BOOLEAN
  /\ acked \subseteq Nat /\ pushed \subseteq Nat
  /\ process \in [Processes -> Process]
  /\ subjects \in [Processes -> SUBSET Users]
  /\ tab \in [Tabs -> Tab]

Init ==
  /\ note = [n \in Notes |-> [step |-> "idle", row |-> "none", targets |-> {}, entry |-> 0]]
  /\ length = 0 /\ cursor = 0 /\ crashes = 0
  /\ group = FALSE
  /\ acked = {} /\ pushed = {}
  /\ process = [p \in Processes |-> Booting]
  /\ subjects = [p \in Processes |-> {}]
  /\ tab \in [Tabs -> {[at |-> None, user |-> u, last |-> 0] : u \in Users}]

-----------------------------------------------------------------------------
(* sendNotification: the row, its readers, the entry *)

Save(n) ==
  /\ note[n].step = "idle"
  /\ note' = [note EXCEPT ![n] = [step |-> "saved", row |-> "unread", targets |-> {}, entry |-> 0]]
  /\ UNCHANGED <<stream, pushed, process, people, crashes>>

(* The subscribers of the channel, and the channel itself. *)
Address(n, users) ==
  /\ note[n].step = "saved"
  /\ users # {}
  /\ note' = [note EXCEPT ![n] =
       [step |-> "addressed", row |-> note[n].row, targets |-> users, entry |-> 0]]
  /\ UNCHANGED <<stream, pushed, process, people, crashes>>

Publish(n) ==
  /\ note[n].step = "addressed"
  /\ length' = length + 1
  /\ note' = [note EXCEPT ![n] =
       [step |-> "ended", row |-> note[n].row, targets |-> note[n].targets, entry |-> length + 1]]
  /\ UNCHANGED <<group, cursor, acked, pushed, process, people, crashes>>

(* An await throws or the process dies; a failing XADD is only logged. *)
SendFails(n) ==
  /\ note[n].step \in {"saved", "addressed"}
  /\ note' = [note EXCEPT ![n] =
       [step |-> "ended", row |-> note[n].row, targets |-> {}, entry |-> 0]]
  /\ UNCHANGED <<stream, pushed, process, people, crashes>>

MarkAsRead(n) ==
  /\ note[n].row = "unread"
  /\ note' = [note EXCEPT ![n] =
       [step |-> note[n].step, row |-> "read", targets |-> note[n].targets, entry |-> note[n].entry]]
  /\ UNCHANGED <<stream, pushed, process, people, crashes>>

-----------------------------------------------------------------------------
(* The consumer loop of a process *)

(* The group starts after what is in the stream. *)
EnsureGroup(p) ==
  /\ process[p].step = "booting"
  /\ process' = [process EXCEPT ![p] = Polling]
  /\ group' = TRUE
  /\ cursor' = IF group THEN cursor ELSE length
  /\ UNCHANGED <<note, length, acked, pushed, people, crashes>>

(* The error is logged, and the loop starts all the same. *)
EnsureGroupFails(p) ==
  /\ process[p].step = "booting"
  /\ process' = [process EXCEPT ![p] = Polling]
  /\ UNCHANGED <<note, stream, pushed, people, crashes>>

(* XREADGROUP '>': entries nobody was given before. *)
Read(p) ==
  /\ process[p].step = "polling"
  /\ group /\ cursor < length
  /\ LET last == IF cursor + BatchSize < length THEN cursor + BatchSize ELSE length
     IN  /\ cursor' = last
         /\ process' = [process EXCEPT ![p] =
              [step |-> "pushing", first |-> cursor + 1, last |-> last]]
  /\ UNCHANGED <<note, length, group, acked, pushed, people, crashes>>

(* The reply is lost; the entries are given to this consumer all the same. *)
ReadLost(p) ==
  /\ process[p].step = "polling"
  /\ group /\ cursor < length
  /\ cursor' = IF cursor + BatchSize < length THEN cursor + BatchSize ELSE length
  /\ UNCHANGED <<note, length, group, acked, pushed, process, people, crashes>>

Targets(i) == UNION {note[n].targets : n \in {m \in Notes : note[m].entry = i}}

(* pushToDedicatedUser: to the Subjects of this process, which give it to
   every tab of the user. *)
PushTo(p, i) ==
  /\ pushed' = pushed \cup {i}
  /\ tab' = [k \in Tabs |->
       IF tab[k].at = p /\ tab[k].user \in Targets(i) \cap subjects[p]
       THEN [at |-> p, user |-> tab[k].user, last |-> i] ELSE tab[k]]

(* Mutant: the loop waits for somebody who hears the entry. *)
PushWhenHeard(p) ==
  /\ process[p].step = "pushing"
  /\ Targets(process[p].first) \cap subjects[p] # {}
  /\ PushTo(p, process[p].first)
  /\ process' = [process EXCEPT ![p] =
       [step |-> "acking", first |-> process[p].first, last |-> process[p].last]]
  /\ UNCHANGED <<note, stream, subjects, crashes>>

Push(p) ==
  /\ process[p].step = "pushing"
  /\ PushTo(p, process[p].first)
  /\ process' = [process EXCEPT ![p] =
       [step |-> "acking", first |-> process[p].first, last |-> process[p].last]]
  /\ UNCHANGED <<note, stream, subjects, crashes>>

Advance(p) == process' = [process EXCEPT ![p] =
  IF process[p].first = process[p].last THEN Polling
  ELSE [step |-> "pushing", first |-> process[p].first + 1, last |-> process[p].last]]

(* Mutant: a batch is acknowledged as a whole, after its first entry. *)
AckBatch(p) ==
  /\ process[p].step = "acking"
  /\ acked' = acked \cup (process[p].first .. process[p].last)
  /\ Advance(p)
  /\ UNCHANGED <<note, length, group, cursor, pushed, people, crashes>>

Ack(p) ==
  /\ process[p].step = "acking"
  /\ acked' = acked \cup {process[p].first}
  /\ Advance(p)
  /\ UNCHANGED <<note, length, group, cursor, pushed, people, crashes>>

(* Mutant: the entry is handled again. *)
AckFailsAgain(p) ==
  /\ process[p].step = "acking"
  /\ process' = [process EXCEPT ![p] =
       [step |-> "pushing", first |-> process[p].first, last |-> process[p].last]]
  /\ UNCHANGED <<note, stream, pushed, people, crashes>>

(* Mutant: the loop starts over with the stream. *)
AckFailsStartOver(p) ==
  /\ process[p].step = "acking"
  /\ process' = [process EXCEPT ![p] =
       [step |-> "pushing", first |-> 1, last |-> process[p].last]]
  /\ UNCHANGED <<note, stream, pushed, people, crashes>>

(* A failing XACK is only logged. *)
AckFails(p) ==
  /\ process[p].step = "acking"
  /\ Advance(p)
  /\ UNCHANGED <<note, stream, pushed, people, crashes>>

-----------------------------------------------------------------------------
(* The SSE streams of a process *)

Connect(k, p) ==
  /\ tab[k].at = None
  /\ process[p].step # "booting"
  /\ tab' = [tab EXCEPT ![k] = [at |-> p, user |-> tab[k].user, last |-> 0]]
  /\ subjects' = [subjects EXCEPT ![p] = @ \cup {tab[k].user}]
  /\ UNCHANGED <<note, stream, pushed, process, crashes>>

(* Mutant: a closed stream has no user. *)
CloseForAll(S) == tab' = [k \in Tabs |->
  IF k \in S THEN [at |-> None, user |-> None, last |-> 0] ELSE tab[k]]

Close(S) == tab' = [k \in Tabs |->
  IF k \in S THEN [at |-> None, user |-> tab[k].user, last |-> 0] ELSE tab[k]]

(* Mutant: the Subject is deleted, but not completed. *)
DisconnectAlone(k) ==
  /\ tab[k].at # None
  /\ Close({k})
  /\ subjects' = [subjects EXCEPT ![tab[k].at] = @ \ {tab[k].user}]
  /\ UNCHANGED <<note, stream, pushed, process, crashes>>

(* finalize: the Subject is completed, and that ends every other stream of the
   user in this process. *)
Disconnect(k) ==
  /\ tab[k].at # None
  /\ Close({l \in Tabs : tab[l].at = tab[k].at /\ tab[l].user = tab[k].user})
  /\ subjects' = [subjects EXCEPT ![tab[k].at] = @ \ {tab[k].user}]
  /\ UNCHANGED <<note, stream, pushed, process, crashes>>

(* A process dies and is started again, under another consumer name. *)
Crash(p) ==
  /\ process[p].step # "booting"
  /\ crashes < MaxCrashes
  /\ crashes' = crashes + 1
  /\ process' = [process EXCEPT ![p] = Booting]
  /\ Close({k \in Tabs : tab[k].at = p})
  /\ subjects' = [subjects EXCEPT ![p] = {}]
  /\ UNCHANGED <<note, stream, pushed>>

-----------------------------------------------------------------------------
Send(n) ==
  \/ Save(n) \/ Publish(n) \/ SendFails(n) \/ MarkAsRead(n)
  \/ \E users \in SUBSET Users : Address(n, users)

Consume(p) ==
  \/ EnsureGroup(p) \/ EnsureGroupFails(p) \/ Read(p) \/ ReadLost(p)
  \/ Push(p) \/ Ack(p) \/ AckFails(p) \/ Crash(p)

Next ==
  \/ \E n \in Notes : Send(n)
  \/ \E p \in Processes : Consume(p)
  \/ \E k \in Tabs : Disconnect(k) \/ \E p \in Processes : Connect(k, p)

Spec == Init /\ [][Next]_vars

(* The loop of a process runs for ever: its only exits are the module's
   shutdown and the death of the process, both Crash. *)
LoopFairness == \A p \in Processes :
  /\ WF_vars(EnsureGroup(p) \/ EnsureGroupFails(p))
  /\ WF_vars(Read(p) \/ ReadLost(p))
  /\ WF_vars(Push(p))
  /\ WF_vars(Ack(p) \/ AckFails(p))

FairSpec == Spec /\ LoopFairness

-----------------------------------------------------------------------------
(* Properties *)

InHand(p) == IF process[p].step \in {"pushing", "acking"}
             THEN process[p].first .. process[p].last ELSE {}
ToPush(p) == IF process[p].step = "acking" THEN InHand(p) \ {process[p].first} ELSE InHand(p)

(* An entry is pushed by one process, once: no crash, lost reply or failed
   acknowledgement makes it come back. *)
NeverPushedAgain ==
  \A p \in Processes :
    /\ ToPush(p) \cap pushed = {}
    /\ \A q \in Processes \ {p} : InHand(p) \cap InHand(q) = {}

(* What the group counts as done was pushed (notification.consumer.ts:86). *)
AckedWasPushed == acked \subseteq pushed

(* An open stream always has a Subject to hear from, and a Subject somebody to
   hear it, whatever other tabs of the user do (notification.service.ts:27). *)
OpenStreamsAreServed ==
  \A p \in Processes : subjects[p] = {tab[k].user : k \in {l \in Tabs : tab[l].at = p}}

(* While it stays connected a tab receives entries in the stream's order. *)
InOrder ==
  [][\A k \in Tabs : tab'[k].last # tab[k].last /\ tab'[k].at = tab[k].at /\ tab[k].at # None =>
       tab'[k].last > tab[k].last]_vars

(* An entry the group has still to deliver is delivered, and its process is
   done with it, even if processes crash. *)
Unread(n) == group /\ note[n].entry > cursor
StreamDrains ==
  \A n \in Notes : Unread(n) ~>
    note[n].entry <= cursor /\ \A p \in Processes : note[n].entry \notin InHand(p)
-----------------------------------------------------------------------------
(* The inductive invariant: batches are intervals below the cursor, all that
   was pushed and is not in a hand as pushed lies below what is to be pushed. *)
BatchInv ==
  /\ cursor <= length
  /\ pushed \subseteq 1 .. cursor
  /\ \A p \in Processes :
       /\ process[p].step \in {"pushing", "acking"} =>
            process[p].first \in 1 .. process[p].last /\ process[p].last <= cursor
       /\ process[p].step = "acking" => process[p].first \in pushed

TabInv ==
  \A k \in Tabs :
    /\ tab[k].last <= cursor
    /\ tab[k].at # None => \A i \in ToPush(tab[k].at) : tab[k].last < i

IInv ==
  TypeOK /\ BatchInv /\ TabInv /\ NeverPushedAgain /\ AckedWasPushed /\ OpenStreamsAreServed
-----------------------------------------------------------------------------
(* Why the stream drains: the steps that a process has still to take with its
   batch, and the entries that no process has still to handle. *)
BatchWork(p) ==
  IF process[p].step \in {"pushing", "acking"}
  THEN 2 * (process[p].last - process[p].first) + (IF process[p].step = "pushing" THEN 2 ELSE 1)
  ELSE 0

Settled(i) == i <= cursor /\ \A p \in Processes : i \notin InHand(p)

(* The group only goes forward, a batch only gets shorter, and what is settled
   stays so: no process is given it again. *)
WindsDown ==
  /\ cursor <= cursor' /\ cursor' <= length'
  /\ \A p \in Processes :
       BatchWork(p) # 0 => BatchWork(p)' < BatchWork(p) \/ UNCHANGED process[p]
  /\ \A i \in Nat \ {0} : Settled(i) => Settled(i)'
=============================================================================
