---------------------- MODULE NotificationStream_proofs ----------------------
(***************************************************************************)
(* Proofs about NotificationStream for every number of notifications,      *)
(* users, tabs, processes and crashes: type correctness, that an entry is  *)
(* pushed once, acknowledged only then, and in the stream's order to each  *)
(* tab, and that an open stream always has a Subject.                      *)
(*                                                                         *)
(* The invariant is IInv.  The group's cursor separates it: batches in     *)
(* hand are disjoint intervals below it, and a new one begins above it.    *)
(***************************************************************************)
EXTENDS NotificationStream, TLAPS

-----------------------------------------------------------------------------
(* The initial states satisfy the inductive invariant. *)
LEMMA InitInv == Init => IInv
<1>. SUFFICES ASSUME Init PROVE IInv
  OBVIOUS
<1>1. TypeOK
  <2>1. tab \in [Tabs -> Tab]
    BY DEF Init, Tab
  <2>2. note \in [Notes -> Note]
    BY DEF Init, Note
  <2>. QED
    BY <2>1, <2>2, StreamAssumption DEF Init, TypeOK, Process, Booting
<1>2. BatchInv /\ TabInv /\ NeverPushedAgain /\ AckedWasPushed /\ OpenStreamsAreServed
  BY StreamAssumption
  DEF Init, BatchInv, TabInv, NeverPushedAgain, AckedWasPushed, OpenStreamsAreServed,
      ToPush, InHand, Booting
<1>. QED
  BY <1>1, <1>2 DEF IInv

(* Every step keeps the types. *)
LEMMA TypeStep == TypeOK /\ [Next]_vars => TypeOK'
<1>. USE StreamAssumption DEF TypeOK
<1>. SUFFICES ASSUME TypeOK, [Next]_vars PROVE TypeOK'
  OBVIOUS
<1>1. ASSUME NEW n \in Notes, Save(n)
      PROVE  TypeOK'
  BY <1>1 DEF Save, stream, people, Note
<1>2. ASSUME NEW n \in Notes, NEW users \in SUBSET Users, Address(n, users)
      PROVE  TypeOK'
  BY <1>2 DEF Address, stream, people, Note
<1>3. ASSUME NEW n \in Notes, Publish(n)
      PROVE  TypeOK'
  BY <1>3 DEF Publish, people, Note
<1>4. ASSUME NEW n \in Notes, SendFails(n)
      PROVE  TypeOK'
  BY <1>4 DEF SendFails, stream, people, Note
<1>5. ASSUME NEW n \in Notes, MarkAsRead(n)
      PROVE  TypeOK'
  BY <1>5 DEF MarkAsRead, stream, people, Note
<1>6. ASSUME NEW p \in Processes, EnsureGroup(p)
      PROVE  TypeOK'
  BY <1>6 DEF EnsureGroup, people, Polling, Process
<1>7. ASSUME NEW p \in Processes, EnsureGroupFails(p)
      PROVE  TypeOK'
  BY <1>7 DEF EnsureGroupFails, stream, people, Polling, Process
<1>8. ASSUME NEW p \in Processes, Read(p)
      PROVE  TypeOK'
  BY <1>8 DEF Read, people, Process
<1>9. ASSUME NEW p \in Processes, ReadLost(p)
      PROVE  TypeOK'
  BY <1>9 DEF ReadLost, people, Process
<1>10. ASSUME NEW p \in Processes, Push(p)
      PROVE  TypeOK'
  BY <1>10 DEF Push, PushTo, stream, Process, Tab
<1>11. ASSUME NEW p \in Processes, Ack(p)
      PROVE  TypeOK'
  <2>1. process[p].first \in Nat
    BY DEF Process
  <2>2. acked' \subseteq Nat
    BY <1>11, <2>1 DEF Ack
  <2>. QED
    BY <1>11, <2>2 DEF Ack, Advance, people, Polling, Process
<1>12. ASSUME NEW p \in Processes, AckFails(p)
      PROVE  TypeOK'
  BY <1>12 DEF AckFails, Advance, stream, people, Polling, Process
<1>13. ASSUME NEW p \in Processes, Crash(p)
      PROVE  TypeOK'
  BY <1>13 DEF Crash, Close, stream, Booting, Process, Tab
<1>14. ASSUME NEW k \in Tabs, Disconnect(k)
      PROVE  TypeOK'
  BY <1>14 DEF Disconnect, Close, stream, Tab
<1>15. ASSUME NEW k \in Tabs, NEW p \in Processes, Connect(k, p)
      PROVE  TypeOK'
  BY <1>15 DEF Connect, stream, Tab
<1>16. CASE UNCHANGED vars
  BY <1>16 DEF vars, stream, people
<1>. HIDE DEF TypeOK
<1>. QED
  BY <1>1, <1>2, <1>3, <1>4, <1>5, <1>6, <1>7, <1>8, <1>9, <1>10, <1>11, <1>12, <1>13,
     <1>14, <1>15, <1>16
  DEF Next, Send, Consume

(* Batches stay intervals below the cursor. *)
LEMMA BatchStep == TypeOK /\ BatchInv /\ [Next]_vars => BatchInv'
<1>. USE StreamAssumption DEF TypeOK, BatchInv, Process
<1>. SUFFICES ASSUME TypeOK, BatchInv, [Next]_vars PROVE BatchInv'
  OBVIOUS
<1>1. ASSUME NEW n \in Notes, Publish(n)
      PROVE  BatchInv'
  BY <1>1 DEF Publish, people
<1>2. ASSUME NEW p \in Processes, EnsureGroup(p)
      PROVE  BatchInv'
  BY <1>2 DEF EnsureGroup, people, Polling
<1>3. ASSUME NEW p \in Processes, EnsureGroupFails(p)
      PROVE  BatchInv'
  BY <1>3 DEF EnsureGroupFails, stream, people, Polling
<1>4. ASSUME NEW p \in Processes, Read(p)
      PROVE  BatchInv'
  BY <1>4 DEF Read, people
<1>5. ASSUME NEW p \in Processes, ReadLost(p)
      PROVE  BatchInv'
  BY <1>5 DEF ReadLost, people
<1>6. ASSUME NEW p \in Processes, Push(p)
      PROVE  BatchInv'
  BY <1>6 DEF Push, PushTo, stream
<1>7. ASSUME NEW p \in Processes, Ack(p)
      PROVE  BatchInv'
  BY <1>7 DEF Ack, Advance, people, Polling
<1>8. ASSUME NEW p \in Processes, AckFails(p)
      PROVE  BatchInv'
  BY <1>8 DEF AckFails, Advance, stream, people, Polling
<1>9. ASSUME NEW p \in Processes, Crash(p)
      PROVE  BatchInv'
  BY <1>9 DEF Crash, Close, stream, Booting
<1>10. CASE UNCHANGED <<length, cursor, pushed, process>>
  BY <1>10
<1>. HIDE DEF BatchInv
<1>. QED
  BY <1>1, <1>2, <1>3, <1>4, <1>5, <1>6, <1>7, <1>8, <1>9, <1>10
  DEF Next, Send, Consume, Address, Close, Connect, Disconnect, MarkAsRead, Save,
      SendFails, people, stream, vars, stream, people

(* What is pushed was to be pushed by one process only. *)
LEMMA PushedStep == TypeOK /\ BatchInv /\ NeverPushedAgain /\ [Next]_vars => NeverPushedAgain'
<1>. USE StreamAssumption DEF TypeOK, BatchInv, Process, NeverPushedAgain, ToPush, InHand
<1>. SUFFICES ASSUME TypeOK, BatchInv, NeverPushedAgain, [Next]_vars PROVE NeverPushedAgain'
  OBVIOUS
<1>1. ASSUME NEW p \in Processes, EnsureGroup(p)
      PROVE  NeverPushedAgain'
  BY <1>1 DEF EnsureGroup, people, Polling
<1>2. ASSUME NEW p \in Processes, EnsureGroupFails(p)
      PROVE  NeverPushedAgain'
  BY <1>2 DEF EnsureGroupFails, stream, people, Polling
<1>3. ASSUME NEW p \in Processes, Read(p)
      PROVE  NeverPushedAgain'
  BY <1>3 DEF Read, people
<1>4. ASSUME NEW p \in Processes, Push(p)
      PROVE  NeverPushedAgain'
  BY <1>4 DEF Push, PushTo, stream
<1>5. ASSUME NEW p \in Processes, Ack(p)
      PROVE  NeverPushedAgain'
  BY <1>5 DEF Ack, Advance, people, Polling
<1>6. ASSUME NEW p \in Processes, AckFails(p)
      PROVE  NeverPushedAgain'
  BY <1>6 DEF AckFails, Advance, stream, people, Polling
<1>7. ASSUME NEW p \in Processes, Crash(p)
      PROVE  NeverPushedAgain'
  BY <1>7 DEF Crash, Close, stream, Booting
<1>8. CASE UNCHANGED <<pushed, process>>
  BY <1>8
<1>. HIDE DEF NeverPushedAgain
<1>. QED
  BY <1>1, <1>2, <1>3, <1>4, <1>5, <1>6, <1>7, <1>8
  DEF Next, Send, Consume, Address, Close, Connect, Disconnect, MarkAsRead, Publish,
      ReadLost, Save, SendFails, people, stream, vars, stream, people

(* An entry is acknowledged after it was pushed. *)
LEMMA AckedStep == TypeOK /\ BatchInv /\ AckedWasPushed /\ [Next]_vars => AckedWasPushed'
<1>. USE DEF TypeOK, BatchInv, AckedWasPushed
<1>. SUFFICES ASSUME TypeOK, BatchInv, AckedWasPushed, [Next]_vars PROVE AckedWasPushed'
  OBVIOUS
<1>1. ASSUME NEW p \in Processes, Push(p)
      PROVE  AckedWasPushed'
  BY <1>1 DEF Push, PushTo, stream
<1>2. ASSUME NEW p \in Processes, Ack(p)
      PROVE  AckedWasPushed'
  BY <1>2 DEF Ack, Advance, people, Polling
<1>3. CASE UNCHANGED <<acked, pushed>>
  BY <1>3
<1>. HIDE DEF AckedWasPushed
<1>. QED
  BY <1>1, <1>2, <1>3
  DEF Next, Send, Consume, AckFails, Address, Advance, Booting, Close, Connect, Crash,
      Disconnect, EnsureGroup, EnsureGroupFails, MarkAsRead, Polling, Publish, Read,
      ReadLost, Save, SendFails, people, stream, vars, stream, people

(* What a tab has received lies before what its process has still to push. *)
LEMMA TabStep == TypeOK /\ BatchInv /\ TabInv /\ [Next]_vars => TabInv'
<1>. USE StreamAssumption DEF TypeOK, BatchInv, Process, Tab, TabInv, ToPush, InHand
<1>. SUFFICES ASSUME TypeOK, BatchInv, TabInv, [Next]_vars PROVE TabInv'
  OBVIOUS
<1>1. ASSUME NEW p \in Processes, EnsureGroup(p)
      PROVE  TabInv'
  BY <1>1 DEF EnsureGroup, people, Polling
<1>2. ASSUME NEW p \in Processes, EnsureGroupFails(p)
      PROVE  TabInv'
  BY <1>2 DEF EnsureGroupFails, stream, people, Polling
<1>3. ASSUME NEW p \in Processes, Read(p)
      PROVE  TabInv'
  BY <1>3 DEF Read, people
<1>4. ASSUME NEW p \in Processes, ReadLost(p)
      PROVE  TabInv'
  BY <1>4 DEF ReadLost, people
<1>5. ASSUME NEW p \in Processes, Push(p)
      PROVE  TabInv'
  <2>1. \A q \in Processes : ToPush(q)' \subseteq ToPush(q)
    BY <1>5 DEF Push
  <2>2. process[p].first \in Nat /\ process[p].last \in Nat
    BY DEF Process
  <2>3. process[p].first <= cursor /\ cursor' = cursor
    BY <1>5 DEF Push, stream
  <2>4. process'[p] = [step |-> "acking", first |-> process[p].first, last |-> process[p].last]
    BY <1>5 DEF Push
  <2>5. ToPush(p)' = (process[p].first .. process[p].last) \ {process[p].first}
    BY <2>4
  <2>6. \A i \in ToPush(p)' : process[p].first < i
    BY <2>2, <2>5
  <2>7. \A k \in Tabs :
          /\ tab'[k].at = tab[k].at /\ tab[k].at \in Processes \cup {None}
          /\ tab'[k].last = tab[k].last \/ (tab[k].at = p /\ tab'[k].last = process[p].first)
    BY <1>5 DEF Push, PushTo
  <2>. HIDE DEF ToPush
  <2>. QED
    BY <2>1, <2>2, <2>3, <2>6, <2>7
<1>6. ASSUME NEW p \in Processes, Ack(p)
      PROVE  TabInv'
  BY <1>6 DEF Ack, Advance, people, Polling
<1>7. ASSUME NEW p \in Processes, AckFails(p)
      PROVE  TabInv'
  BY <1>7 DEF AckFails, Advance, stream, people, Polling
<1>8. ASSUME NEW p \in Processes, Crash(p)
      PROVE  TabInv'
  BY <1>8 DEF Crash, Close, stream, Booting
<1>9. ASSUME NEW k \in Tabs, Disconnect(k)
      PROVE  TabInv'
  BY <1>9 DEF Disconnect, Close, stream
<1>10. ASSUME NEW k \in Tabs, NEW p \in Processes, Connect(k, p)
      PROVE  TabInv'
  BY <1>10 DEF Connect, stream
<1>11. CASE UNCHANGED <<cursor, process, tab>>
  BY <1>11
<1>. HIDE DEF TabInv
<1>. QED
  BY <1>1, <1>2, <1>3, <1>4, <1>5, <1>6, <1>7, <1>8, <1>9, <1>10, <1>11
  DEF Next, Send, Consume, Address, MarkAsRead, Publish, Save, SendFails, people,
      stream, vars, stream, people

(* Streams and Subjects open and close together. *)
LEMMA ServedStep == TypeOK /\ OpenStreamsAreServed /\ [Next]_vars => OpenStreamsAreServed'
<1>. USE StreamAssumption DEF TypeOK, Tab, OpenStreamsAreServed
<1>. SUFFICES ASSUME TypeOK, OpenStreamsAreServed, [Next]_vars PROVE OpenStreamsAreServed'
  OBVIOUS
<1>1. ASSUME NEW p \in Processes, Push(p)
      PROVE  OpenStreamsAreServed'
  BY <1>1 DEF Push, PushTo, stream
<1>2. ASSUME NEW p \in Processes, Crash(p)
      PROVE  OpenStreamsAreServed'
  BY <1>2 DEF Crash, Close, stream, Booting
<1>3. ASSUME NEW k \in Tabs, Disconnect(k)
      PROVE  OpenStreamsAreServed'
  BY <1>3 DEF Disconnect, Close, stream
<1>4. ASSUME NEW k \in Tabs, NEW p \in Processes, Connect(k, p)
      PROVE  OpenStreamsAreServed'
  BY <1>4 DEF Connect, stream
<1>5. CASE UNCHANGED <<subjects, tab>>
  BY <1>5
<1>. HIDE DEF OpenStreamsAreServed
<1>. QED
  BY <1>1, <1>2, <1>3, <1>4, <1>5
  DEF Next, Send, Consume, Ack, AckFails, Address, Advance, EnsureGroup,
      EnsureGroupFails, MarkAsRead, Polling, Publish, Read, ReadLost, Save, SendFails,
      people, stream, vars, stream, people

-----------------------------------------------------------------------------
(* Every step keeps the inductive invariant. *)
LEMMA StepInv == IInv /\ [Next]_vars => IInv'
BY TypeStep, BatchStep, PushedStep, AckedStep, TabStep, ServedStep DEF IInv

(* The inductive invariant holds in every reachable state. *)
THEOREM InvHolds == Spec => []IInv
<1>1. Init => IInv
  BY InitInv
<1>2. IInv /\ [Next]_vars => IInv'
  BY StepInv
<1>. QED
  BY <1>1, <1>2, PTL DEF Spec

(* Every variable keeps its type. *)
THEOREM TypesHold == Spec => []TypeOK
<1>1. IInv => TypeOK
  BY DEF IInv
<1>. QED
  BY <1>1, InvHolds, PTL

(* No crash, lost reply or failed acknowledgement makes an entry come back. *)
THEOREM PushedOnce == Spec => []NeverPushedAgain
<1>1. IInv => NeverPushedAgain
  BY DEF IInv
<1>. QED
  BY <1>1, InvHolds, PTL

(* What the group counts as done was pushed. *)
THEOREM PushedBeforeAcked == Spec => []AckedWasPushed
<1>1. IInv => AckedWasPushed
  BY DEF IInv
<1>. QED
  BY <1>1, InvHolds, PTL

(* An open stream has a Subject to hear from, whatever other tabs do. *)
THEOREM StreamsAreServed == Spec => []OpenStreamsAreServed
<1>1. IInv => OpenStreamsAreServed
  BY DEF IInv
<1>. QED
  BY <1>1, InvHolds, PTL

(* A step gives a connected tab only an entry later than its last. *)
LEMMA OrderStep ==
  ASSUME IInv, [Next]_vars, NEW k \in Tabs,
         tab'[k].last # tab[k].last, tab'[k].at = tab[k].at, tab[k].at # None
  PROVE  tab'[k].last > tab[k].last
<1>. USE DEF IInv, TypeOK, Tab
<1>1. ASSUME NEW p \in Processes, Push(p)
      PROVE  tab'[k].last > tab[k].last
  BY <1>1 DEF Push, PushTo, TabInv, BatchInv, ToPush, InHand, Process
<1>2. ASSUME NEW p \in Processes, Crash(p)
      PROVE  FALSE
  BY <1>2 DEF Crash, Close
<1>3. ASSUME NEW l \in Tabs, Disconnect(l)
      PROVE  FALSE
  BY <1>3 DEF Disconnect, Close
<1>4. ASSUME NEW l \in Tabs, NEW p \in Processes, Connect(l, p)
      PROVE  FALSE
  BY <1>4 DEF Connect
<1>5. tab' # tab
  OBVIOUS
<1>. QED
  BY <1>1, <1>2, <1>3, <1>4, <1>5
  DEF Next, Send, Consume, Save, Address, Publish, SendFails, MarkAsRead, EnsureGroup,
      EnsureGroupFails, Read, ReadLost, Ack, AckFails, vars, stream, people

(* While it stays connected a tab receives entries in the stream's order. *)
THEOREM TabsAreInOrder == Spec => InOrder
<1>1. IInv /\ [Next]_vars =>
        [\A k \in Tabs : tab'[k].last # tab[k].last /\ tab'[k].at = tab[k].at /\ tab[k].at # None =>
           tab'[k].last > tab[k].last]_vars
  BY OrderStep
<1>. QED
  BY <1>1, InvHolds, PTL DEF Spec, InOrder

-----------------------------------------------------------------------------
(* What a batch costs. *)
LEMMA WorkIsNat ==
  TypeOK /\ BatchInv => \A p \in Processes :
    /\ BatchWork(p) \in Nat
    /\ BatchWork(p) # 0 <=> process[p].step \in {"pushing", "acking"}
<1>. SUFFICES ASSUME TypeOK, BatchInv, NEW p \in Processes
              PROVE  /\ BatchWork(p) \in Nat
                     /\ BatchWork(p) # 0 <=> process[p].step \in {"pushing", "acking"}
  OBVIOUS
<1>1. CASE process[p].step \in {"pushing", "acking"}
  <2>1. process[p].first \in Nat /\ process[p].last \in Nat /\ process[p].first <= process[p].last
    BY <1>1 DEF TypeOK, Process, BatchInv
  <2>. QED
    BY <1>1, <2>1 DEF BatchWork
<1>2. CASE process[p].step \notin {"pushing", "acking"}
  BY <1>2 DEF BatchWork
<1>. QED
  BY <1>1, <1>2

(* A step of one process that does not give it a new batch: its batch gets
   shorter, and it holds no entry that it did not hold. *)
LEMMA BatchOn ==
  ASSUME TypeOK, BatchInv, NEW p \in Processes, NEW r \in Process,
         process' = [process EXCEPT ![p] = r], cursor <= cursor', cursor' \in Nat,
         \/ r.step \notin {"pushing", "acking"}
         \/ /\ process[p].step = "pushing" /\ r.step = "acking"
            /\ r.first = process[p].first /\ r.last = process[p].last
         \/ /\ process[p].step = "acking" /\ r.step = "pushing"
            /\ r.first = process[p].first + 1 /\ r.last = process[p].last
  PROVE  /\ \A q \in Processes :
              BatchWork(q) # 0 => BatchWork(q)' < BatchWork(q) \/ UNCHANGED process[q]
         /\ \A i \in Nat \ {0} : Settled(i) => Settled(i)'
<1>1. process[p] \in Process /\ process'[p] = r /\ \A q \in Processes \ {p} : process'[q] = process[q]
  BY DEF TypeOK
<1>2. BatchWork(p) # 0 => BatchWork(p)' < BatchWork(p)
  <2>. SUFFICES ASSUME BatchWork(p) # 0 PROVE BatchWork(p)' < BatchWork(p)
    OBVIOUS
  <2>1. process[p].step \in {"pushing", "acking"} /\ BatchWork(p) \in Nat
    BY WorkIsNat
  <2>2. CASE r.step \notin {"pushing", "acking"}
    <3>1. BatchWork(p)' = 0
      BY <1>1, <2>2 DEF BatchWork
    <3>. QED
      BY <2>1, <3>1
  <2>3. CASE r.step = "acking"
    BY <1>1, <2>3 DEF BatchWork, Process
  <2>4. CASE r.step = "pushing"
    BY <1>1, <2>4 DEF BatchWork, Process
  <2>. QED
    BY <2>2, <2>3, <2>4
<1>3. InHand(p)' \subseteq InHand(p)
  BY <1>1 DEF InHand, Process
<1>4. \A q \in Processes \ {p} : InHand(q)' = InHand(q)
  BY <1>1 DEF InHand
<1>5. ASSUME NEW i \in Nat \ {0}, Settled(i)
      PROVE  Settled(i)'
  <2>1. i <= cursor'
    BY <1>5 DEF Settled, TypeOK
  <2>. QED
    BY <1>3, <1>4, <1>5, <2>1 DEF Settled
<1>. QED
  BY <1>1, <1>2, <1>5

(* Every step of the stream. *)
LEMMA WindStep == IInv /\ IInv' /\ [Next]_vars => WindsDown
<1>. USE StreamAssumption
<1>. SUFFICES ASSUME IInv, IInv', [Next]_vars PROVE WindsDown
  OBVIOUS
<1>0. TypeOK /\ BatchInv /\ cursor' <= length' /\ cursor' \in Nat /\ TypeOK'
  BY DEF IInv, BatchInv, TypeOK
<1>1. CASE UNCHANGED <<process, cursor>>
  <2>1. cursor <= cursor'
    BY <1>0, <1>1
  <2>2. \A i \in Nat : Settled(i) => Settled(i)'
    BY <1>1 DEF Settled, InHand
  <2>. QED
    BY <1>0, <1>1, <2>1, <2>2 DEF WindsDown
<1>2. ASSUME NEW p \in Processes, EnsureGroup(p) \/ EnsureGroupFails(p)
      PROVE  WindsDown
  <2>1. cursor <= cursor'
    BY <1>0, <1>2 DEF EnsureGroup, EnsureGroupFails, stream, TypeOK, BatchInv
  <2>2. process' = [process EXCEPT ![p] = Polling]
    BY <1>2 DEF EnsureGroup, EnsureGroupFails
  <2>3. Polling \in Process /\ Polling.step = "polling"
    BY DEF Polling, Process
  <2>. QED
    BY <1>0, <2>1, <2>2, <2>3, BatchOn DEF WindsDown
<1>3. ASSUME NEW p \in Processes, Push(p)
      PROVE  WindsDown
  <2>. DEFINE r == [step |-> "acking", first |-> process[p].first, last |-> process[p].last]
  <2>1. process' = [process EXCEPT ![p] = r] /\ cursor' = cursor /\ process[p].step = "pushing"
    BY <1>3 DEF Push, stream
  <2>2. r \in Process
    BY <1>0 DEF TypeOK, Process
  <2>3. cursor <= cursor'
    BY <1>0, <2>1
  <2>. QED
    BY <1>0, <2>1, <2>2, <2>3, BatchOn DEF WindsDown
<1>4. ASSUME NEW p \in Processes, Ack(p) \/ AckFails(p)
      PROVE  WindsDown
  <2>. DEFINE r == IF process[p].first = process[p].last THEN Polling
                   ELSE [step |-> "pushing", first |-> process[p].first + 1,
                         last |-> process[p].last]
  <2>1. process' = [process EXCEPT ![p] = r] /\ cursor' = cursor /\ process[p].step = "acking"
    BY <1>4 DEF Ack, AckFails, Advance, stream
  <2>2. r \in Process
    BY <1>0 DEF TypeOK, Process, Polling
  <2>3. cursor <= cursor'
    BY <1>0, <2>1
  <2>4. \/ r.step = "polling"
        \/ r.step = "pushing" /\ r.first = process[p].first + 1 /\ r.last = process[p].last
    BY DEF Polling
  <2>. HIDE DEF r
  <2>. QED
    BY <1>0, <2>1, <2>2, <2>3, <2>4, BatchOn DEF WindsDown
<1>5. ASSUME NEW p \in Processes, Crash(p)
      PROVE  WindsDown
  <2>1. process' = [process EXCEPT ![p] = Booting] /\ cursor' = cursor
    BY <1>5 DEF Crash, stream
  <2>2. Booting \in Process /\ Booting.step = "booting"
    BY DEF Booting, Process
  <2>3. cursor <= cursor'
    BY <1>0, <2>1
  <2>. QED
    BY <1>0, <2>1, <2>2, <2>3, BatchOn DEF WindsDown
<1>6. ASSUME NEW p \in Processes, ReadLost(p)
      PROVE  WindsDown
  <2>1. cursor <= cursor' /\ process' = process
    BY <1>0, <1>6 DEF ReadLost, TypeOK
  <2>2. ASSUME NEW i \in Nat \ {0}, Settled(i)
        PROVE  Settled(i)'
    BY <1>0, <2>1, <2>2 DEF Settled, InHand, TypeOK
  <2>. QED
    BY <1>0, <2>1, <2>2 DEF WindsDown
<1>7. ASSUME NEW p \in Processes, Read(p)
      PROVE  WindsDown
  <2>1. cursor <= cursor'
    BY <1>0, <1>7 DEF Read, TypeOK
  <2>2. /\ process[p].step = "polling" /\ process'[p].first = cursor + 1
        /\ \A q \in Processes \ {p} : process'[q] = process[q]
    BY <1>0, <1>7 DEF Read, TypeOK
  <2>3. BatchWork(p) = 0
    BY <2>2 DEF BatchWork
  <2>4. ASSUME NEW i \in Nat \ {0}, Settled(i)
        PROVE  Settled(i)'
    <3>1. i <= cursor /\ i <= cursor'
      BY <1>0, <2>1, <2>4 DEF Settled, TypeOK
    <3>2. i \notin InHand(p)'
      BY <1>0, <2>2, <3>1 DEF InHand, TypeOK
    <3>. QED
      BY <2>2, <2>4, <3>1, <3>2 DEF Settled, InHand
  <2>. QED
    BY <1>0, <2>1, <2>2, <2>3, <2>4 DEF WindsDown
<1>. QED
  BY <1>1, <1>2, <1>3, <1>4, <1>5, <1>6, <1>7
  DEF Next, Send, Consume, Save, Address, Publish, SendFails, MarkAsRead, Connect, Disconnect,
      vars, stream, people

(* The stream only goes forward: an entry that is settled stays settled, a
   process takes at most two steps for each entry of its batch and gets no
   other batch before, and no crash gives one back.  What is left of
   StreamDrains is that the loops go on. *)
THEOREM SettledForGood ==
  Spec => [][WindsDown]_vars /\ [](\A p \in Processes : BatchWork(p) \in Nat)
<1>1. IInv => \A p \in Processes : BatchWork(p) \in Nat
  BY WorkIsNat DEF IInv
<1>2. IInv /\ IInv' /\ [Next]_vars => [WindsDown]_vars
  BY WindStep
<1>. QED
  BY <1>1, <1>2, InvHolds, PTL DEF Spec
=============================================================================
