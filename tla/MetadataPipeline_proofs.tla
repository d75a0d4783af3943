----------------------- MODULE MetadataPipeline_proofs -----------------------
(***************************************************************************)
(* Proofs about MetadataPipeline: no published message is lost, the index  *)
(* moves forward, and the pipeline implements MetadataChannel, for every   *)
(* set of changes and every number of lost deliveries.                     *)
(***************************************************************************)
EXTENDS MetadataPipeline, SequenceTheorems, TLAPS

(* What the queue operations do to the set of messages in a queue. *)
LEMMA ElementsOfSingle ==
  ASSUME NEW S, NEW e \in S
  PROVE  <<e>> \in Seq(S) /\ Len(<<e>>) = 1 /\ <<e>>[1] = e /\ ToSet(<<e>>) = {e}
<1>1. <<e>> \in Seq(S) /\ Len(<<e>>) = 1 /\ <<e>>[1] = e
  OBVIOUS
<1>2. DOMAIN <<e>> = {1}
  BY <1>1
<1>. QED
  BY <1>1, <1>2 DEF ToSet

LEMMA ElementsOfConcat ==
  ASSUME NEW S, NEW p \in Seq(S), NEW q \in Seq(S)
  PROVE  p \o q \in Seq(S) /\ ToSet(p \o q) = ToSet(p) \cup ToSet(q)
<1>1. p \o q \in Seq(S)
  BY ConcatProperties
<1>2. Range(p \o q) = Range(p) \cup Range(q)
  BY RangeConcatenation
<1>3. ToSet(p \o q) = Range(p \o q) /\ ToSet(p) = Range(p) /\ ToSet(q) = Range(q)
  BY Zenon DEF ToSet, Range
<1>. QED
  BY <1>1, <1>2, <1>3

LEMMA ElementsOfAppend ==
  ASSUME NEW S, NEW q \in Seq(S), NEW e \in S
  PROVE  /\ Append(q, e) \in Seq(S)
         /\ ToSet(Append(q, e)) = ToSet(q) \cup {e}
<1>. DEFINE one == <<e>>
<1>1. Append(q, e) = q \o one
  BY AppendIsConcat
<1>2. one \in Seq(S) /\ ToSet(one) = {e}
  BY ElementsOfSingle
<1>. HIDE DEF one
<1>3. q \o one \in Seq(S) /\ ToSet(q \o one) = ToSet(q) \cup ToSet(one)
  BY <1>2, ElementsOfConcat
<1>. QED
  BY <1>1, <1>2, <1>3

LEMMA ElementsOfTail ==
  ASSUME NEW S, NEW q \in Seq(S), q # <<>>
  PROVE  /\ Head(q) \in S
         /\ Tail(q) \in Seq(S)
         /\ ToSet(q) = {Head(q)} \cup ToSet(Tail(q))
<1>1. Head(q) \in S /\ Tail(q) \in Seq(S)
  BY HeadTailProperties
<1>. DEFINE one == <<Head(q)>>
<1>2. q = one \o Tail(q)
  <2>1. /\ Len(q) \in Nat \ {0} /\ DOMAIN q = 1 .. Len(q) /\ Head(q) = q[1]
        /\ Len(Tail(q)) = Len(q) - 1
        /\ \A i \in 1 .. Len(Tail(q)) : Tail(q)[i] = q[i + 1]
    BY HeadTailProperties, LenProperties, EmptySeq
  <2>. DEFINE r == one \o Tail(q)
  <2>2. /\ r \in Seq(S) /\ Len(r) = Len(q)
        /\ \A i \in 1 .. Len(q) : r[i] = IF i =< 1 THEN <<Head(q)>>[i] ELSE Tail(q)[i - 1]
    BY <1>1, <2>1, ElementsOfSingle, ConcatProperties
  <2>3. ASSUME NEW i \in 1 .. Len(q) PROVE r[i] = q[i]
    <3>1. CASE i = 1
      BY <3>1, <2>1, <2>2
    <3>2. CASE i # 1
      <4>1. i - 1 \in 1 .. Len(Tail(q)) /\ (i - 1) + 1 = i
        BY <3>2, <2>1
      <4>. HIDE DEF r
      <4>2. r[i] = Tail(q)[i - 1]
        BY <3>2, <2>2
      <4>. QED
        BY <4>1, <4>2, <2>1
    <3>. QED
      BY <3>1, <3>2
  <2>. HIDE DEF r
  <2>4. r = q
    BY <2>2, <2>3, SeqEqual
  <2>. QED
    BY <2>4 DEF r
<1>3. one \in Seq(S) /\ ToSet(one) = {Head(q)}
  BY <1>1, ElementsOfSingle
<1>. DEFINE rest == Tail(q)
<1>. HIDE DEF one
<1>4. rest \in Seq(S)
  BY <1>1
<1>5. q = one \o rest /\ rest = Tail(q)
  BY <1>2
<1>. HIDE DEF rest
<1>6. ToSet(one \o rest) = ToSet(one) \cup ToSet(rest)
  BY <1>3, <1>4, ElementsOfConcat
<1>. QED
  BY <1>1, <1>3, <1>5, <1>6

LEMMA ElementsOfCons ==
  ASSUME NEW S, NEW q \in Seq(S), NEW e \in S
  PROVE  /\ <<e>> \o q \in Seq(S)
         /\ Len(<<e>> \o q) = Len(q) + 1
         /\ (<<e>> \o q)[1] = e
         /\ \A i \in 2 .. Len(q) + 1 : (<<e>> \o q)[i] = q[i - 1]
         /\ ToSet(<<e>> \o q) = {e} \cup ToSet(q)
<1>. DEFINE one == <<e>>
<1>1. one \in Seq(S) /\ Len(one) = 1 /\ one[1] = e /\ ToSet(one) = {e}
  BY ElementsOfSingle
<1>. HIDE DEF one
<1>2. one \o q \in Seq(S) /\ ToSet(one \o q) = ToSet(one) \cup ToSet(q)
  BY <1>1, ElementsOfConcat
<1>3. /\ Len(one \o q) = Len(one) + Len(q)
      /\ \A i \in 1 .. Len(one) + Len(q) : (one \o q)[i] =
           IF i =< Len(one) THEN one[i] ELSE q[i - Len(one)]
  BY <1>1, ConcatProperties
<1>4. /\ one \o q \in Seq(S) /\ Len(one \o q) = Len(q) + 1
      /\ (one \o q)[1] = e /\ ToSet(one \o q) = {e} \cup ToSet(q)
      /\ \A i \in 2 .. Len(q) + 1 : (one \o q)[i] = q[i - 1]
  BY <1>1, <1>2, <1>3, LenProperties
<1>. QED
  BY <1>4 DEF one

-----------------------------------------------------------------------------
LEMMA ElementsAreTyped ==
  ASSUME NEW S, NEW q \in Seq(S)
  PROVE  ToSet(q) \subseteq S
<1>1. Range(q) \subseteq S
  BY RangeOfSeq
<1>. QED
  BY <1>1, Zenon DEF ToSet, Range

(* A call whose branch has run. *)
LEMMA BranchRuns ==
  ASSUME NEW c \in [Changes -> Call], NEW u \in Changes, NEW s
  PROVE  [c EXCEPT ![u].left = @ \ {s}] \in [Changes -> Call]
BY DEF Call

LEMMA InitInv == Init => PipeInv
<1>. SUFFICES ASSUME Init PROVE PipeInv
  OBVIOUS
<1>1. TypeOK
  BY PipelineAssumption DEF Init, TypeOK, Content, Call, Held, Idle
<1>2. ToSet(<<>>) = {}
  BY DEF ToSet
<1>. QED
  BY <1>1, <1>2 DEF Init, PipeInv, HeldInv, AckInv, CallInv, AnswerInv, DeathInv, Published, Idle, NoLetter


(* Every action keeps the types. *)
LEMMA TypeStep == PipeInv /\ [Next]_vars => TypeOK'
<1>. USE PipelineAssumption DEF PipeInv, TypeOK, api, search, retry
<1>. SUFFICES ASSUME PipeInv, [Next]_vars PROVE TypeOK'
  OBVIOUS
<1>1. ASSUME NEW u \in Changes, NEW fs \in SUBSET Fields, CommitRow(u, fs)
      PROVE  TypeOK'
  BY <1>1 DEF CommitRow, Content, Call
<1>2. ASSUME NEW u \in Changes, SendRow(u)
      PROVE  TypeOK'
  <2>1. call' \in [Changes -> Call]
    BY <1>2, BranchRuns DEF SendRow
  <2>. QED
    BY <1>2, <2>1 DEF SendRow
<1>3. ASSUME NEW u \in Changes, SendMessage(u)
      PROVE  TypeOK'
  <2>1. [msg |-> u, deaths |-> 0] \in Letter
    BY DEF Letter
  <2>2. transfer' \in Seq(Letter)
    BY <1>3, <2>1, ElementsOfAppend DEF SendMessage
  <2>3. call' \in [Changes -> Call]
    BY <1>3, BranchRuns DEF SendMessage
  <2>4. sent' \in [last : Nat, at : [Changes -> Nat]]
    BY <1>3 DEF SendMessage
  <2>. QED
    BY <1>3, <2>2, <2>3, <2>4 DEF SendMessage
<1>4. ASSUME NEW u \in Changes, HandleAnswer(u)
      PROVE  TypeOK'
  BY <1>4 DEF HandleAnswer
<1>5. CASE Deliver
  BY <1>5, ElementsOfTail DEF Deliver, Held
<1>6. CASE Index
  <2>1. consumer.letter \in Letter
    BY <1>6 DEF Index, HeldInv, Held
  <2>. QED
    BY <1>6, <2>1 DEF Index, Letter
<1>7. CASE Answer
  <2>1. consumer.letter \in Letter
    BY <1>7 DEF Answer, HeldInv, Held
  <2>2. consumer.letter.msg \in Changes
    BY <2>1 DEF Letter
  <2>3. answers' \in [Changes -> Nat] /\ answered' \in SUBSET Changes
    BY <1>7, <2>2 DEF Answer, PublishAnswer
  <2>4. consumer' \in [letter : Held, stage : {"idle", "index", "answer", "ack"}]
    BY <1>7 DEF Answer
  <2>. QED
    BY <1>7, <2>3, <2>4 DEF Answer
<1>8. CASE AckMessage
  BY <1>8 DEF AckMessage, Idle, Held
<1>9. CASE DeleteFind
  BY <1>9 DEF DeleteFind
<1>10. CASE DeleteRow
  BY <1>10 DEF DeleteRow
<1>11. CASE DeletePoint
  BY <1>11 DEF DeletePoint
<1>12. ASSUME NEW u \in Changes, NEW s \in {"row", "publish"}, SendFails(u, s)
       PROVE  TypeOK'
  <2>1. call' \in [Changes -> Call]
    BY <1>12, BranchRuns DEF SendFails
  <2>. QED
    BY <1>12, <2>1 DEF SendFails
<1>13. ASSUME NEW p \in {"row", "point"}, DeleteFails(p)
       PROVE  TypeOK'
  BY <1>13 DEF DeleteFails
<1>14. CASE Reject
  <2>1. consumer.letter \in Letter
    BY <1>14 DEF Reject, HeldInv, Held
  <2>2. [msg |-> consumer.letter.msg, deaths |-> consumer.letter.deaths + 1] \in Letter
    BY <2>1 DEF Letter
  <2>3. dead' \in Seq(Letter)
    BY <1>14, <2>2, ElementsOfAppend DEF Reject
  <2>. QED
    BY <1>14, <2>3 DEF Reject, Idle, Held
<1>15. CASE TakeDead
  BY <1>15, ElementsOfTail DEF TakeDead, Held
<1>16. CASE retrier.stage = "wait" /\ Republish
  <2>1. retrier.letter \in Letter
    BY <1>16 DEF Republish, HeldInv, Held
  <2>. QED
    BY <1>16, <2>1, ElementsOfAppend DEF Republish
<1>17. CASE AckDead
  BY <1>17 DEF AckDead, Idle, Held
<1>18. CASE retrier.stage = "wait" /\ retrier.letter.deaths >= MaxRetries /\ GiveUp
  BY <1>18 DEF GiveUp, Idle, Held
<1>19. CASE ConsumerCrash
  <2>1. consumer.letter \in Letter
    BY <1>19 DEF ConsumerCrash, HeldInv, Held
  <2>2. transfer' \in Seq(Letter)
    BY <1>19, <2>1, ElementsOfCons DEF ConsumerCrash
  <2>. QED
    BY <1>19, <2>2 DEF ConsumerCrash, Idle, Held
<1>20. CASE RetrierCrash
  <2>1. retrier.letter \in Letter
    BY <1>20 DEF RetrierCrash, HeldInv, Held
  <2>2. dead' \in Seq(Letter)
    BY <1>20, <2>1, ElementsOfCons DEF RetrierCrash
  <2>. QED
    BY <1>20, <2>2 DEF RetrierCrash, Idle, Held
<1>21. ASSUME NEW u \in Changes, AnswerRepeats(u)
       PROVE  TypeOK'
  BY <1>21 DEF AnswerRepeats
<1>22. CASE ConnectionLost
  <2>1. consumer.letter \in Letter
    BY <1>22 DEF ConnectionLost, HeldInv, Held
  <2>2. transfer' \in Seq(Letter)
    BY <1>22, <2>1, ElementsOfCons DEF ConnectionLost
  <2>3. <<consumer.letter.msg, consumer.stage>> \in Changes \X {"index", "answer"}
    BY <1>22, <2>1 DEF ConnectionLost, Letter
  <2>. QED
    BY <1>22, <2>2, <2>3 DEF ConnectionLost, Idle, Held
<1>23. ASSUME NEW u \in Changes, StrayIndex(u)
       PROVE  TypeOK'
  BY <1>23 DEF StrayIndex
<1>24. ASSUME NEW u \in Changes, StrayAnswer(u)
       PROVE  TypeOK'
  BY <1>24 DEF StrayAnswer, PublishAnswer
<1>25. ASSUME NEW h \in stray, StrayEnds(h)
       PROVE  TypeOK'
  BY <1>25 DEF StrayEnds
<1>26. CASE UNCHANGED vars
  BY <1>26 DEF vars
<1>. HIDE DEF PipeInv, TypeOK
<1>. QED
  BY <1>1, <1>2, <1>3, <1>4, <1>5, <1>6, <1>7, <1>8, <1>9, <1>10, <1>11, <1>12, <1>13,
     <1>14, <1>15, <1>16, <1>17, <1>18, <1>19, <1>20, <1>21, <1>22, <1>23, <1>24, <1>25,
     <1>26
  DEF Next, Healthy, Deletion, Failure, Crash, Disconnection, HandleDeadLetter

(* A consumer takes only messages of its queue. *)
LEMMA HeldStep == PipeInv /\ [Next]_vars => HeldInv'
<1>. USE PipelineAssumption DEF PipeInv, HeldInv, Idle, api, search, retry
<1>. SUFFICES ASSUME PipeInv, [Next]_vars PROVE HeldInv'
  OBVIOUS
<1>a. \A l \in Letter : l # NoLetter
  BY DEF Letter, NoLetter
<1>1. ASSUME NEW u \in Changes, NEW fs \in SUBSET Fields, CommitRow(u, fs)
      PROVE  HeldInv'
  BY <1>1 DEF CommitRow
<1>2. ASSUME NEW u \in Changes, SendRow(u)
      PROVE  HeldInv'
  BY <1>2 DEF SendRow
<1>3. ASSUME NEW u \in Changes, SendMessage(u)
      PROVE  HeldInv'
  BY <1>3 DEF SendMessage
<1>4. ASSUME NEW u \in Changes, HandleAnswer(u)
      PROVE  HeldInv'
  BY <1>4 DEF HandleAnswer
<1>5. CASE Deliver
  BY <1>5, <1>a, ElementsOfTail DEF Deliver, TypeOK
<1>6. CASE Index
  BY <1>6 DEF Index
<1>7. CASE Answer
  BY <1>7 DEF Answer, PublishAnswer
<1>8. CASE AckMessage
  BY <1>8 DEF AckMessage
<1>9. CASE DeleteFind
  BY <1>9 DEF DeleteFind
<1>10. CASE DeleteRow
  BY <1>10 DEF DeleteRow
<1>11. CASE DeletePoint
  BY <1>11 DEF DeletePoint
<1>12. ASSUME NEW u \in Changes, NEW s \in {"row", "publish"}, SendFails(u, s)
       PROVE  HeldInv'
  BY <1>12 DEF SendFails
<1>13. ASSUME NEW p \in {"row", "point"}, DeleteFails(p)
       PROVE  HeldInv'
  BY <1>13 DEF DeleteFails
<1>14. CASE Reject
  BY <1>14 DEF Reject
<1>15. CASE TakeDead
  BY <1>15, <1>a, ElementsOfTail DEF TakeDead, TypeOK
<1>16. CASE retrier.stage = "wait" /\ Republish
  BY <1>16 DEF Republish
<1>17. CASE AckDead
  BY <1>17 DEF AckDead
<1>18. CASE retrier.stage = "wait" /\ retrier.letter.deaths >= MaxRetries /\ GiveUp
  BY <1>18 DEF GiveUp
<1>19. CASE ConsumerCrash
  BY <1>19 DEF ConsumerCrash
<1>20. CASE RetrierCrash
  BY <1>20 DEF RetrierCrash
<1>21. ASSUME NEW u \in Changes, AnswerRepeats(u)
       PROVE  HeldInv'
  BY <1>21 DEF AnswerRepeats
<1>22. CASE ConnectionLost
  BY <1>22 DEF ConnectionLost
<1>23. ASSUME NEW u \in Changes, StrayIndex(u)
       PROVE  HeldInv'
  BY <1>23 DEF StrayIndex
<1>24. ASSUME NEW u \in Changes, StrayAnswer(u)
       PROVE  HeldInv'
  BY <1>24 DEF StrayAnswer, PublishAnswer
<1>25. ASSUME NEW h \in stray, StrayEnds(h)
       PROVE  HeldInv'
  BY <1>25 DEF StrayEnds
<1>26. CASE UNCHANGED vars
  BY <1>26 DEF vars
<1>. HIDE DEF PipeInv, HeldInv
<1>. QED
  BY <1>1, <1>2, <1>3, <1>4, <1>5, <1>6, <1>7, <1>8, <1>9, <1>10, <1>11, <1>12, <1>13,
     <1>14, <1>15, <1>16, <1>17, <1>18, <1>19, <1>20, <1>21, <1>22, <1>23, <1>24, <1>25,
     <1>26
  DEF Next, Healthy, Deletion, Failure, Crash, Disconnection, HandleDeadLetter

(* A message is acknowledged after it has been passed on. *)
LEMMA AckStep == PipeInv /\ [Next]_vars => AckInv'
<1>. USE DEF PipeInv, AckInv, Idle, api, search, retry
<1>. SUFFICES ASSUME PipeInv, [Next]_vars PROVE AckInv'
  OBVIOUS
<1>1. ASSUME NEW u \in Changes, NEW fs \in SUBSET Fields, CommitRow(u, fs)
      PROVE  AckInv'
  BY <1>1 DEF CommitRow
<1>2. ASSUME NEW u \in Changes, SendRow(u)
      PROVE  AckInv'
  BY <1>2 DEF SendRow
<1>3. ASSUME NEW u \in Changes, SendMessage(u)
      PROVE  AckInv'
  BY <1>3 DEF SendMessage
<1>4. ASSUME NEW u \in Changes, HandleAnswer(u)
      PROVE  AckInv'
  BY <1>4 DEF HandleAnswer
<1>5. CASE Deliver
  BY <1>5 DEF Deliver
<1>6. CASE Index
  BY <1>6 DEF Index, TypeOK
<1>7. CASE Answer
  BY <1>7 DEF Answer, PublishAnswer, TypeOK
<1>8. CASE AckMessage
  BY <1>8 DEF AckMessage
<1>9. CASE DeleteFind
  BY <1>9 DEF DeleteFind
<1>10. CASE DeleteRow
  BY <1>10 DEF DeleteRow
<1>11. CASE DeletePoint
  BY <1>11 DEF DeletePoint
<1>12. ASSUME NEW u \in Changes, NEW s \in {"row", "publish"}, SendFails(u, s)
       PROVE  AckInv'
  BY <1>12 DEF SendFails
<1>13. ASSUME NEW p \in {"row", "point"}, DeleteFails(p)
       PROVE  AckInv'
  BY <1>13 DEF DeleteFails
<1>14. CASE Reject
  <2>1. ToSet(dead) \subseteq ToSet(dead')
    <3>1. consumer.letter \in Letter
      BY <1>14 DEF Reject, HeldInv, TypeOK, Held
    <3>2. [msg |-> consumer.letter.msg, deaths |-> consumer.letter.deaths + 1] \in Letter
      BY <3>1 DEF Letter
    <3>. QED
      BY <1>14, <3>2, ElementsOfAppend DEF Reject, TypeOK
  <2>. QED
    BY <1>14, <2>1 DEF Reject
<1>15. CASE TakeDead
  BY <1>15 DEF TakeDead
<1>16. CASE retrier.stage = "wait" /\ Republish
  <2>1. retrier.letter \in Letter
    BY <1>16 DEF Republish, HeldInv, TypeOK, Held
  <2>2. retrier.letter \in ToSet(dead')
    BY <1>16, <2>1, ElementsOfAppend DEF Republish, TypeOK
  <2>. QED
    BY <1>16, <2>2 DEF Republish, TypeOK
<1>17. CASE AckDead
  BY <1>17 DEF AckDead
<1>18. CASE retrier.stage = "wait" /\ retrier.letter.deaths >= MaxRetries /\ GiveUp
  BY <1>18 DEF GiveUp
<1>19. CASE ConsumerCrash
  BY <1>19 DEF ConsumerCrash
<1>20. CASE RetrierCrash
  BY <1>20 DEF RetrierCrash
<1>21. ASSUME NEW u \in Changes, AnswerRepeats(u)
       PROVE  AckInv'
  BY <1>21 DEF AnswerRepeats
<1>22. CASE ConnectionLost
  BY <1>22 DEF ConnectionLost
<1>23. ASSUME NEW u \in Changes, StrayIndex(u)
       PROVE  AckInv'
  BY <1>23 DEF StrayIndex
<1>24. ASSUME NEW u \in Changes, StrayAnswer(u)
       PROVE  AckInv'
  BY <1>24 DEF StrayAnswer, PublishAnswer
<1>25. ASSUME NEW h \in stray, StrayEnds(h)
       PROVE  AckInv'
  BY <1>25 DEF StrayEnds
<1>26. CASE UNCHANGED vars
  BY <1>26 DEF vars
<1>. HIDE DEF PipeInv, AckInv
<1>. QED
  BY <1>1, <1>2, <1>3, <1>4, <1>5, <1>6, <1>7, <1>8, <1>9, <1>10, <1>11, <1>12, <1>13,
     <1>14, <1>15, <1>16, <1>17, <1>18, <1>19, <1>20, <1>21, <1>22, <1>23, <1>24, <1>25,
     <1>26
  DEF Next, Healthy, Deletion, Failure, Crash, Disconnection, HandleDeadLetter

(* The branches of a call run once. *)
LEMMA CallStep == PipeInv /\ [Next]_vars => CallInv'
<1>. USE DEF PipeInv, CallInv, Published, TypeOK, Call, api, search, retry
<1>. SUFFICES ASSUME PipeInv, [Next]_vars PROVE CallInv'
  OBVIOUS
<1>1. ASSUME NEW u \in Changes, NEW fs \in SUBSET Fields, CommitRow(u, fs)
      PROVE  CallInv'
  BY <1>1 DEF CommitRow
<1>2. ASSUME NEW u \in Changes, SendRow(u)
      PROVE  CallInv'
  BY <1>2 DEF SendRow
<1>3. ASSUME NEW u \in Changes, SendMessage(u)
      PROVE  CallInv'
  BY <1>3 DEF SendMessage
<1>4. ASSUME NEW u \in Changes, HandleAnswer(u)
      PROVE  CallInv'
  BY <1>4 DEF HandleAnswer
<1>5. CASE Deliver
  BY <1>5 DEF Deliver
<1>6. CASE Index
  BY <1>6 DEF Index
<1>7. CASE Answer
  BY <1>7 DEF Answer, PublishAnswer
<1>8. CASE AckMessage
  BY <1>8 DEF AckMessage
<1>9. CASE DeleteFind
  BY <1>9 DEF DeleteFind
<1>10. CASE DeleteRow
  BY <1>10 DEF DeleteRow
<1>11. CASE DeletePoint
  BY <1>11 DEF DeletePoint
<1>12. ASSUME NEW u \in Changes, NEW s \in {"row", "publish"}, SendFails(u, s)
       PROVE  CallInv'
  BY <1>12 DEF SendFails
<1>13. ASSUME NEW p \in {"row", "point"}, DeleteFails(p)
       PROVE  CallInv'
  BY <1>13 DEF DeleteFails
<1>14. CASE Reject
  BY <1>14 DEF Reject
<1>15. CASE TakeDead
  BY <1>15 DEF TakeDead
<1>16. CASE retrier.stage = "wait" /\ Republish
  BY <1>16 DEF Republish
<1>17. CASE AckDead
  BY <1>17 DEF AckDead
<1>18. CASE retrier.stage = "wait" /\ retrier.letter.deaths >= MaxRetries /\ GiveUp
  BY <1>18 DEF GiveUp
<1>19. CASE ConsumerCrash
  BY <1>19 DEF ConsumerCrash
<1>20. CASE RetrierCrash
  BY <1>20 DEF RetrierCrash
<1>21. ASSUME NEW u \in Changes, AnswerRepeats(u)
       PROVE  CallInv'
  BY <1>21 DEF AnswerRepeats
<1>22. CASE ConnectionLost
  BY <1>22 DEF ConnectionLost
<1>23. ASSUME NEW u \in Changes, StrayIndex(u)
       PROVE  CallInv'
  BY <1>23 DEF StrayIndex
<1>24. ASSUME NEW u \in Changes, StrayAnswer(u)
       PROVE  CallInv'
  BY <1>24 DEF StrayAnswer, PublishAnswer
<1>25. ASSUME NEW h \in stray, StrayEnds(h)
       PROVE  CallInv'
  BY <1>25 DEF StrayEnds
<1>26. CASE UNCHANGED vars
  BY <1>26 DEF vars
<1>. HIDE DEF PipeInv, CallInv
<1>. QED
  BY <1>1, <1>2, <1>3, <1>4, <1>5, <1>6, <1>7, <1>8, <1>9, <1>10, <1>11, <1>12, <1>13,
     <1>14, <1>15, <1>16, <1>17, <1>18, <1>19, <1>20, <1>21, <1>22, <1>23, <1>24, <1>25,
     <1>26
  DEF Next, Healthy, Deletion, Failure, Crash, Disconnection, HandleDeadLetter

(* The deaths of a message are counted by its rejections only. *)
LEMMA DeathStep == PipeInv /\ [Next]_vars => DeathInv'
<1>. USE DEF PipeInv, DeathInv, Idle, NoLetter, api, search, retry
<1>. SUFFICES ASSUME PipeInv, [Next]_vars PROVE DeathInv'
  OBVIOUS
<1>1. ASSUME NEW u \in Changes, NEW fs \in SUBSET Fields, CommitRow(u, fs)
      PROVE  DeathInv'
  BY <1>1 DEF CommitRow
<1>2. ASSUME NEW u \in Changes, SendRow(u)
      PROVE  DeathInv'
  BY <1>2 DEF SendRow
<1>3. ASSUME NEW u \in Changes, SendMessage(u)
      PROVE  DeathInv'
  <2>1. [msg |-> u, deaths |-> 0] \in Letter
    BY DEF Letter
  <2>2. ToSet(transfer') = ToSet(transfer) \cup {[msg |-> u, deaths |-> 0]}
    BY <1>3, <2>1, ElementsOfAppend DEF SendMessage, TypeOK
  <2>. QED
    BY <1>3, <2>2 DEF SendMessage
<1>4. ASSUME NEW u \in Changes, HandleAnswer(u)
      PROVE  DeathInv'
  BY <1>4 DEF HandleAnswer
<1>5. CASE Deliver
  BY <1>5, ElementsOfTail DEF Deliver, TypeOK
<1>6. CASE Index
  BY <1>6 DEF Index, TypeOK
<1>7. CASE Answer
  BY <1>7 DEF Answer, PublishAnswer, TypeOK
<1>8. CASE AckMessage
  BY <1>8 DEF AckMessage
<1>9. CASE DeleteFind
  BY <1>9 DEF DeleteFind
<1>10. CASE DeleteRow
  BY <1>10 DEF DeleteRow
<1>11. CASE DeletePoint
  BY <1>11 DEF DeletePoint
<1>12. ASSUME NEW u \in Changes, NEW s \in {"row", "publish"}, SendFails(u, s)
       PROVE  DeathInv'
  BY <1>12 DEF SendFails
<1>13. ASSUME NEW p \in {"row", "point"}, DeleteFails(p)
       PROVE  DeathInv'
  BY <1>13 DEF DeleteFails
<1>14. CASE Reject
  <2>1. consumer.letter \in Letter
    BY <1>14 DEF Reject, HeldInv, TypeOK, Held
  <2>2. [msg |-> consumer.letter.msg, deaths |-> consumer.letter.deaths + 1] \in Letter
    BY <2>1 DEF Letter
  <2>3. ToSet(dead') = ToSet(dead) \cup {[msg |-> consumer.letter.msg, deaths |-> consumer.letter.deaths + 1]}
    BY <1>14, <2>2, ElementsOfAppend DEF Reject, TypeOK
  <2>. QED
    BY <1>14, <2>3 DEF Reject
<1>15. CASE TakeDead
  BY <1>15, ElementsOfTail DEF TakeDead, TypeOK
<1>16. CASE retrier.stage = "wait" /\ Republish
  <2>1. retrier.letter \in Letter
    BY <1>16 DEF Republish, HeldInv, TypeOK, Held
  <2>2. ToSet(dead') = ToSet(dead) \cup {retrier.letter}
    BY <1>16, <2>1, ElementsOfAppend DEF Republish, TypeOK
  <2>3. retrier'.letter = retrier.letter
    BY <1>16 DEF Republish, TypeOK
  <2>. QED
    BY <1>16, <2>2, <2>3 DEF Republish
<1>17. CASE AckDead
  BY <1>17 DEF AckDead
<1>18. CASE retrier.stage = "wait" /\ retrier.letter.deaths >= MaxRetries /\ GiveUp
  BY <1>18 DEF GiveUp
<1>19. CASE ConsumerCrash
  <2>1. consumer.letter \in Letter
    BY <1>19 DEF ConsumerCrash, HeldInv, TypeOK, Held
  <2>2. ToSet(transfer') = {consumer.letter} \cup ToSet(transfer)
    BY <1>19, <2>1, ElementsOfCons DEF ConsumerCrash, TypeOK
  <2>. QED
    BY <1>19, <2>2 DEF ConsumerCrash
<1>20. CASE RetrierCrash
  <2>1. retrier.letter \in Letter
    BY <1>20 DEF RetrierCrash, HeldInv, TypeOK, Held
  <2>2. ToSet(dead') = {retrier.letter} \cup ToSet(dead)
    BY <1>20, <2>1, ElementsOfCons DEF RetrierCrash, TypeOK
  <2>. QED
    BY <1>20, <2>2 DEF RetrierCrash
<1>21. ASSUME NEW u \in Changes, AnswerRepeats(u)
       PROVE  DeathInv'
  BY <1>21 DEF AnswerRepeats
<1>22. CASE ConnectionLost
  <2>1. consumer.letter \in Letter
    BY <1>22 DEF ConnectionLost, HeldInv, TypeOK, Held
  <2>2. ToSet(transfer') = {consumer.letter} \cup ToSet(transfer)
    BY <1>22, <2>1, ElementsOfCons DEF ConnectionLost, TypeOK
  <2>. QED
    BY <1>22, <2>2 DEF ConnectionLost
<1>23. ASSUME NEW u \in Changes, StrayIndex(u)
       PROVE  DeathInv'
  BY <1>23 DEF StrayIndex
<1>24. ASSUME NEW u \in Changes, StrayAnswer(u)
       PROVE  DeathInv'
  BY <1>24 DEF StrayAnswer, PublishAnswer
<1>25. ASSUME NEW h \in stray, StrayEnds(h)
       PROVE  DeathInv'
  BY <1>25 DEF StrayEnds
<1>26. CASE UNCHANGED vars
  BY <1>26 DEF vars
<1>. HIDE DEF PipeInv, DeathInv
<1>. QED
  BY <1>1, <1>2, <1>3, <1>4, <1>5, <1>6, <1>7, <1>8, <1>9, <1>10, <1>11, <1>12, <1>13,
     <1>14, <1>15, <1>16, <1>17, <1>18, <1>19, <1>20, <1>21, <1>22, <1>23, <1>24, <1>25,
     <1>26
  DEF Next, Healthy, Deletion, Failure, Crash, Disconnection, HandleDeadLetter

(* Only published messages are handled and answered. *)
LEMMA AnswerStep == PipeInv /\ [Next]_vars => AnswerInv'
<1>. USE DEF PipeInv, AnswerInv, Published, Idle, api, search, retry
<1>. SUFFICES ASSUME PipeInv, [Next]_vars PROVE AnswerInv'
  OBVIOUS
<1>1. ASSUME NEW u \in Changes, NEW fs \in SUBSET Fields, CommitRow(u, fs)
      PROVE  AnswerInv'
  BY <1>1 DEF CommitRow
<1>2. ASSUME NEW u \in Changes, SendRow(u)
      PROVE  AnswerInv'
  BY <1>2 DEF SendRow
<1>3. ASSUME NEW u \in Changes, SendMessage(u)
      PROVE  AnswerInv'
  <2>1. [msg |-> u, deaths |-> 0] \in Letter
    BY DEF Letter
  <2>2. ToSet(transfer') = ToSet(transfer) \cup {[msg |-> u, deaths |-> 0]}
    BY <1>3, <2>1, ElementsOfAppend DEF SendMessage, TypeOK
  <2>3. sent'.at[u] > 0 /\ \A x \in Changes : sent.at[x] > 0 => sent'.at[x] > 0
    BY <1>3 DEF SendMessage, TypeOK
  <2>4. /\ \A l \in ToSet(transfer) : l.msg \in Changes
        /\ index # None => index \in Changes
        /\ consumer.stage # "idle" => consumer.letter.msg \in Changes
        /\ \A y \in stray : y[1] \in Changes
    <3>1. consumer.stage # "idle" => consumer.letter \in Letter
      BY DEF HeldInv, TypeOK, Held
    <3>2. \A l \in ToSet(transfer) : l \in Letter
      BY ElementsAreTyped DEF TypeOK
    <3>. QED
      BY <3>1, <3>2 DEF Letter, TypeOK
  <2>. QED
    BY <1>3, <2>2, <2>3, <2>4 DEF SendMessage, TypeOK
<1>4. ASSUME NEW u \in Changes, HandleAnswer(u)
      PROVE  AnswerInv'
  BY <1>4 DEF HandleAnswer, TypeOK
<1>5. CASE Deliver
  <2>1. ToSet(transfer) = {Head(transfer)} \cup ToSet(transfer')
    BY <1>5, ElementsOfTail DEF Deliver, TypeOK
  <2>2. consumer'.letter = Head(transfer) /\ consumer'.stage = "index"
    BY <1>5 DEF Deliver
  <2>. QED
    BY <1>5, <2>1, <2>2 DEF Deliver
<1>6. CASE Index
  BY <1>6 DEF Index, TypeOK
<1>7. CASE Answer
  <2>1. consumer.letter.msg \in Changes /\ Published(consumer.letter.msg)
    BY <1>7 DEF Answer, HeldInv, TypeOK, Held, Letter
  <2>. QED
    BY <1>7, <2>1 DEF Answer, PublishAnswer, TypeOK
<1>8. CASE AckMessage
  BY <1>8 DEF AckMessage
<1>9. CASE DeleteFind
  BY <1>9 DEF DeleteFind
<1>10. CASE DeleteRow
  BY <1>10 DEF DeleteRow
<1>11. CASE DeletePoint
  BY <1>11 DEF DeletePoint
<1>12. ASSUME NEW u \in Changes, NEW s \in {"row", "publish"}, SendFails(u, s)
       PROVE  AnswerInv'
  BY <1>12 DEF SendFails
<1>13. ASSUME NEW p \in {"row", "point"}, DeleteFails(p)
       PROVE  AnswerInv'
  BY <1>13 DEF DeleteFails
<1>14. CASE Reject
  BY <1>14 DEF Reject
<1>15. CASE TakeDead
  BY <1>15 DEF TakeDead
<1>16. CASE retrier.stage = "wait" /\ Republish
  BY <1>16 DEF Republish
<1>17. CASE AckDead
  BY <1>17 DEF AckDead
<1>18. CASE retrier.stage = "wait" /\ retrier.letter.deaths >= MaxRetries /\ GiveUp
  BY <1>18 DEF GiveUp
<1>19. CASE ConsumerCrash
  <2>1. consumer.letter \in Letter
    BY <1>19 DEF ConsumerCrash, HeldInv, TypeOK, Held
  <2>2. ToSet(transfer') = {consumer.letter} \cup ToSet(transfer)
    BY <1>19, <2>1, ElementsOfCons DEF ConsumerCrash, TypeOK
  <2>. QED
    BY <1>19, <2>2 DEF ConsumerCrash
<1>20. CASE RetrierCrash
  BY <1>20 DEF RetrierCrash
<1>21. ASSUME NEW u \in Changes, AnswerRepeats(u)
       PROVE  AnswerInv'
  BY <1>21 DEF AnswerRepeats
<1>22. CASE ConnectionLost
  <2>1. consumer.letter \in Letter
    BY <1>22 DEF ConnectionLost, HeldInv, TypeOK, Held
  <2>2. ToSet(transfer') = {consumer.letter} \cup ToSet(transfer)
    BY <1>22, <2>1, ElementsOfCons DEF ConnectionLost, TypeOK
  <2>. QED
    BY <1>22, <2>2 DEF ConnectionLost
<1>23. ASSUME NEW u \in Changes, StrayIndex(u)
       PROVE  AnswerInv'
  BY <1>23 DEF StrayIndex
<1>24. ASSUME NEW u \in Changes, StrayAnswer(u)
       PROVE  AnswerInv'
  BY <1>24 DEF StrayAnswer, PublishAnswer, TypeOK
<1>25. ASSUME NEW h \in stray, StrayEnds(h)
       PROVE  AnswerInv'
  BY <1>25 DEF StrayEnds
<1>26. CASE UNCHANGED vars
  BY <1>26 DEF vars
<1>. HIDE DEF PipeInv, AnswerInv
<1>. QED
  BY <1>1, <1>2, <1>3, <1>4, <1>5, <1>6, <1>7, <1>8, <1>9, <1>10, <1>11, <1>12, <1>13,
     <1>14, <1>15, <1>16, <1>17, <1>18, <1>19, <1>20, <1>21, <1>22, <1>23, <1>24, <1>25,
     <1>26
  DEF Next, Healthy, Deletion, Failure, Crash, Disconnection, HandleDeadLetter

THEOREM Invariance == Spec => []PipeInv
<1>1. PipeInv /\ [Next]_vars => PipeInv'
  BY TypeStep, HeldStep, AckStep, CallStep, AnswerStep, DeathStep DEF PipeInv
<1>. QED
  BY <1>1, InitInv, PTL DEF Spec

(* The pipeline keeps the types of its state. *)
THEOREM PipelineTypes == Spec => []TypeOK
<1>1. PipeInv => TypeOK
  BY DEF PipeInv
<1>. QED
  BY <1>1, Invariance, PTL

-----------------------------------------------------------------------------
(* A message leaves a queue only into a consumer's hands, and a consumer's
   hands only when it is answered or put in a queue. *)

LEMMA LossStep == PipeInv /\ PipeInv' /\ NothingLost /\ MaxRetries > 1 /\ [Next]_vars => NothingLost'
<1>. USE DEF NothingLost, InFlight, Published, Idle, api, search, retry
<1>. SUFFICES ASSUME PipeInv, PipeInv', NothingLost, MaxRetries > 1, [Next]_vars PROVE NothingLost'
  OBVIOUS
<1>1. ASSUME NEW u \in Changes, NEW fs \in SUBSET Fields, CommitRow(u, fs)
      PROVE  NothingLost'
  BY <1>1 DEF CommitRow
<1>2. ASSUME NEW u \in Changes, SendRow(u)
      PROVE  NothingLost'
  BY <1>2 DEF SendRow
<1>3. ASSUME NEW u \in Changes, SendMessage(u)
      PROVE  NothingLost'
  <2>1. [msg |-> u, deaths |-> 0] \in Letter
    BY DEF Letter
  <2>2. ToSet(transfer') = ToSet(transfer) \cup {[msg |-> u, deaths |-> 0]}
    BY <1>3, <2>1, ElementsOfAppend DEF SendMessage, TypeOK, PipeInv
  <2>3. \A x \in Changes : sent'.at[x] > 0 => x = u \/ sent.at[x] > 0
    BY <1>3 DEF SendMessage, TypeOK, PipeInv
  <2>. QED
    BY <1>3, <2>2, <2>3 DEF SendMessage
<1>4. ASSUME NEW u \in Changes, HandleAnswer(u)
      PROVE  NothingLost'
  BY <1>4 DEF HandleAnswer
<1>5. CASE Deliver
  <2>1. ToSet(transfer) = {Head(transfer)} \cup ToSet(transfer')
    BY <1>5, ElementsOfTail DEF Deliver, TypeOK, PipeInv
  <2>2. consumer'.letter = Head(transfer) /\ consumer.letter.msg = None
    BY <1>5 DEF Deliver, PipeInv, HeldInv, NoLetter
  <2>. QED
    BY <1>5, <2>1, <2>2, PipelineAssumption DEF Deliver
<1>6. CASE Index
  BY <1>6 DEF Index, PipeInv, TypeOK
<1>7. CASE Answer
  BY <1>7 DEF Answer, PublishAnswer, PipeInv, TypeOK
<1>8. CASE AckMessage
  BY <1>8 DEF AckMessage, PipeInv, AckInv
<1>9. CASE DeleteFind
  BY <1>9 DEF DeleteFind
<1>10. CASE DeleteRow
  BY <1>10 DEF DeleteRow
<1>11. CASE DeletePoint
  BY <1>11 DEF DeletePoint
<1>12. ASSUME NEW u \in Changes, NEW s \in {"row", "publish"}, SendFails(u, s)
       PROVE  NothingLost'
  BY <1>12 DEF SendFails
<1>13. ASSUME NEW p \in {"row", "point"}, DeleteFails(p)
       PROVE  NothingLost'
  BY <1>13 DEF DeleteFails
<1>14. CASE Reject
  <2>1. consumer.letter \in Letter
    BY <1>14 DEF Reject, HeldInv, TypeOK, Held, PipeInv
  <2>2. [msg |-> consumer.letter.msg, deaths |-> consumer.letter.deaths + 1] \in Letter
    BY <2>1 DEF Letter
  <2>3. ToSet(dead') = ToSet(dead) \cup {[msg |-> consumer.letter.msg, deaths |-> consumer.letter.deaths + 1]}
    BY <1>14, <2>2, ElementsOfAppend DEF Reject, TypeOK, PipeInv
  <2>. QED
    BY <1>14, <2>3 DEF Reject
<1>15. CASE TakeDead
  <2>1. ToSet(dead) = {Head(dead)} \cup ToSet(dead')
    BY <1>15, ElementsOfTail DEF TakeDead, TypeOK, PipeInv
  <2>2. retrier'.letter = Head(dead) /\ retrier.letter.msg = None
    BY <1>15 DEF TakeDead, PipeInv, HeldInv, NoLetter
  <2>. QED
    BY <1>15, <2>1, <2>2, PipelineAssumption DEF TakeDead
<1>16. CASE retrier.stage = "wait" /\ Republish
  <2>1. retrier.letter \in Letter
    BY <1>16 DEF Republish, HeldInv, TypeOK, Held, PipeInv
  <2>2. ToSet(dead') = ToSet(dead) \cup {retrier.letter}
    BY <1>16, <2>1, ElementsOfAppend DEF Republish, TypeOK, PipeInv
  <2>. QED
    BY <1>16, <2>2 DEF Republish
<1>17. CASE AckDead
  BY <1>17 DEF AckDead, PipeInv, AckInv
<1>18. CASE retrier.stage = "wait" /\ retrier.letter.deaths >= MaxRetries /\ GiveUp
  <2>1. retrier.letter.deaths = 1
    BY <1>18 DEF GiveUp, PipeInv, DeathInv
  <2>. QED
    BY <1>18, <2>1, PipelineAssumption DEF GiveUp
<1>19. CASE ConsumerCrash
  <2>1. consumer.letter \in Letter
    BY <1>19 DEF ConsumerCrash, HeldInv, TypeOK, Held, PipeInv
  <2>2. ToSet(transfer') = {consumer.letter} \cup ToSet(transfer)
    BY <1>19, <2>1, ElementsOfCons DEF ConsumerCrash, TypeOK, PipeInv
  <2>. QED
    BY <1>19, <2>2 DEF ConsumerCrash
<1>20. CASE RetrierCrash
  <2>1. retrier.letter \in Letter
    BY <1>20 DEF RetrierCrash, HeldInv, TypeOK, Held, PipeInv
  <2>2. ToSet(dead') = {retrier.letter} \cup ToSet(dead)
    BY <1>20, <2>1, ElementsOfCons DEF RetrierCrash, TypeOK, PipeInv
  <2>. QED
    BY <1>20, <2>2 DEF RetrierCrash
<1>21. ASSUME NEW u \in Changes, AnswerRepeats(u)
       PROVE  NothingLost'
  BY <1>21 DEF AnswerRepeats
<1>22. CASE ConnectionLost
  <2>1. consumer.letter \in Letter
    BY <1>22 DEF ConnectionLost, HeldInv, TypeOK, Held, PipeInv
  <2>2. ToSet(transfer') = {consumer.letter} \cup ToSet(transfer)
    BY <1>22, <2>1, ElementsOfCons DEF ConnectionLost, TypeOK, PipeInv
  <2>. QED
    BY <1>22, <2>2 DEF ConnectionLost
<1>23. ASSUME NEW u \in Changes, StrayIndex(u)
       PROVE  NothingLost'
  BY <1>23 DEF StrayIndex
<1>24. ASSUME NEW u \in Changes, StrayAnswer(u)
       PROVE  NothingLost'
  BY <1>24 DEF StrayAnswer, PublishAnswer
<1>25. ASSUME NEW h \in stray, StrayEnds(h)
       PROVE  NothingLost'
  BY <1>25 DEF StrayEnds
<1>26. CASE UNCHANGED vars
  BY <1>26 DEF vars
<1>. HIDE DEF NothingLost
<1>. QED
  BY <1>1, <1>2, <1>3, <1>4, <1>5, <1>6, <1>7, <1>8, <1>9, <1>10, <1>11, <1>12, <1>13,
     <1>14, <1>15, <1>16, <1>17, <1>18, <1>19, <1>20, <1>21, <1>22, <1>23, <1>24, <1>25,
     <1>26
  DEF Next, Healthy, Deletion, Failure, Crash, Disconnection, HandleDeadLetter

(* No fault loses a published message when the dead-letter consumer retries
   at least once: what is not answered is in a queue or in a consumer's
   hands. *)
THEOREM NoMessageIsLost ==
  ASSUME MaxRetries > 1
  PROVE  Spec => []NothingLost
<1>1. Init => NothingLost
  BY DEF Init, NothingLost, Published
<1>2. PipeInv /\ PipeInv' /\ NothingLost /\ [Next]_vars => NothingLost'
  BY LossStep
<1>. QED
  BY <1>1, <1>2, Invariance, PTL DEF Spec

-----------------------------------------------------------------------------

(* An answer is a reply the first time, and nothing new afterwards. *)
LEMMA AnswerMaps ==
  ASSUME NEW u \in Changes, Published(u),
         answered' = answered \cup {u}, UNCHANGED <<mproc, sent>>
  PROVE  [Channel!ChannelNext]_(Channel!cvars)
<1>1. CASE u \in answered
  <2>1. UNCHANGED <<MessageStatus, mproc>>
    BY <1>1 DEF MessageStatus, Published
  <2>. QED
    BY <2>1 DEF Channel!cvars
<1>2. CASE u \notin answered
  <2>1. MessageStatus[u] = "queued" /\ MessageStatus' = [MessageStatus EXCEPT ![u] = "succeeded"]
    BY <1>2 DEF MessageStatus, Published
  <2>. QED
    BY <2>1 DEF Channel!ChannelNext, Channel!Reply
<1>. QED
  BY <1>1, <1>2

(* Every step of the pipeline is a step of the protocol or changes nothing
   of it. *)
LEMMA ChannelStep == PipeInv /\ [Next]_vars => [Channel!ChannelNext]_(Channel!cvars)
<1>. USE DEF Channel!cvars, api, search, retry
<1>. SUFFICES ASSUME PipeInv, [Next]_vars PROVE [Channel!ChannelNext]_(Channel!cvars)
  OBVIOUS
<1>1. ASSUME NEW u \in Changes, NEW fs \in SUBSET Fields, CommitRow(u, fs)
      PROVE  [Channel!ChannelNext]_(Channel!cvars)
  BY <1>1 DEF CommitRow, MessageStatus, Published
<1>2. ASSUME NEW u \in Changes, SendRow(u)
      PROVE  [Channel!ChannelNext]_(Channel!cvars)
  <2>1. mproc[u] = "none" /\ mproc' = [mproc EXCEPT ![u] = "PROCESSING"]
    BY <1>2 DEF SendRow, PipeInv, CallInv
  <2>2. UNCHANGED MessageStatus
    BY <1>2 DEF SendRow, MessageStatus, Published
  <2>. QED
    BY <2>1, <2>2 DEF Channel!ChannelNext, Channel!CreateRow
<1>3. ASSUME NEW u \in Changes, SendMessage(u)
      PROVE  [Channel!ChannelNext]_(Channel!cvars)
  <2>1. ~ Published(u) /\ u \notin answered
    BY <1>3 DEF SendMessage, PipeInv, CallInv, AnswerInv
  <2>2. sent'.at[u] > 0 /\ \A x \in Changes \ {u} : sent'.at[x] = sent.at[x]
    BY <1>3 DEF SendMessage, PipeInv, TypeOK
  <2>3. MessageStatus[u] = "none" /\ MessageStatus' = [MessageStatus EXCEPT ![u] = "queued"]
    BY <1>3, <2>1, <2>2 DEF SendMessage, MessageStatus, Published
  <2>4. UNCHANGED mproc
    BY <1>3 DEF SendMessage
  <2>. QED
    BY <2>3, <2>4 DEF Channel!ChannelNext, Channel!Send
<1>4. ASSUME NEW u \in Changes, HandleAnswer(u)
      PROVE  [Channel!ChannelNext]_(Channel!cvars)
  <2>1. MessageStatus[u] = "succeeded"
    BY <1>4 DEF HandleAnswer, PipeInv, AnswerInv, MessageStatus
  <2>2. UNCHANGED MessageStatus
    BY <1>4 DEF HandleAnswer, MessageStatus, Published
  <2>. QED
    BY <1>4, <2>1, <2>2 DEF HandleAnswer, Channel!ChannelNext, Channel!Settle
<1>5. CASE Deliver
  BY <1>5 DEF Deliver, MessageStatus, Published
<1>6. CASE Index
  BY <1>6 DEF Index, MessageStatus, Published
<1>7. CASE Answer
  <2>1. consumer.letter.msg \in Changes /\ Published(consumer.letter.msg)
    BY <1>7 DEF Answer, PipeInv, AnswerInv, HeldInv, TypeOK, Held, Letter
  <2>2. answered' = answered \cup {consumer.letter.msg} /\ UNCHANGED <<mproc, sent>>
    BY <1>7 DEF Answer, PublishAnswer
  <2>. QED
    BY <2>1, <2>2, AnswerMaps
<1>8. CASE AckMessage
  BY <1>8 DEF AckMessage, MessageStatus, Published
<1>9. CASE DeleteFind
  BY <1>9 DEF DeleteFind, MessageStatus, Published
<1>10. CASE DeleteRow
  <2>1. UNCHANGED MessageStatus
    BY <1>10 DEF DeleteRow, MessageStatus, Published
  <2>. QED
    BY <1>10, <2>1 DEF DeleteRow, Channel!ChannelNext, Channel!Cascade
<1>11. CASE DeletePoint
  BY <1>11 DEF DeletePoint, MessageStatus, Published
<1>12. ASSUME NEW u \in Changes, NEW s \in {"row", "publish"}, SendFails(u, s)
       PROVE  [Channel!ChannelNext]_(Channel!cvars)
  BY <1>12 DEF SendFails, MessageStatus, Published
<1>13. ASSUME NEW p \in {"row", "point"}, DeleteFails(p)
       PROVE  [Channel!ChannelNext]_(Channel!cvars)
  BY <1>13 DEF DeleteFails, MessageStatus, Published
<1>14. CASE Reject
  BY <1>14 DEF Reject, MessageStatus, Published
<1>15. CASE TakeDead
  BY <1>15 DEF TakeDead, MessageStatus, Published
<1>16. CASE retrier.stage = "wait" /\ Republish
  BY <1>16 DEF Republish, MessageStatus, Published
<1>17. CASE AckDead
  BY <1>17 DEF AckDead, MessageStatus, Published
<1>18. CASE retrier.stage = "wait" /\ retrier.letter.deaths >= MaxRetries /\ GiveUp
  BY <1>18 DEF GiveUp, MessageStatus, Published
<1>19. CASE ConsumerCrash
  BY <1>19 DEF ConsumerCrash, MessageStatus, Published
<1>20. CASE RetrierCrash
  BY <1>20 DEF RetrierCrash, MessageStatus, Published
<1>21. ASSUME NEW u \in Changes, AnswerRepeats(u)
       PROVE  [Channel!ChannelNext]_(Channel!cvars)
  <2>1. MessageStatus[u] = "succeeded"
    BY <1>21 DEF AnswerRepeats, PipeInv, AnswerInv, MessageStatus
  <2>2. UNCHANGED MessageStatus
    BY <1>21 DEF AnswerRepeats, MessageStatus, Published
  <2>. QED
    BY <1>21, <2>1, <2>2 DEF AnswerRepeats, Channel!ChannelNext, Channel!Settle
<1>22. CASE ConnectionLost
  BY <1>22 DEF ConnectionLost, MessageStatus, Published
<1>23. ASSUME NEW u \in Changes, StrayIndex(u)
       PROVE  [Channel!ChannelNext]_(Channel!cvars)
  BY <1>23 DEF StrayIndex, MessageStatus, Published
<1>24. ASSUME NEW u \in Changes, StrayAnswer(u)
       PROVE  [Channel!ChannelNext]_(Channel!cvars)
  <2>1. Published(u)
    BY <1>24 DEF StrayAnswer, PipeInv, AnswerInv
  <2>2. answered' = answered \cup {u} /\ UNCHANGED <<mproc, sent>>
    BY <1>24 DEF StrayAnswer, PublishAnswer
  <2>. QED
    BY <2>1, <2>2, AnswerMaps
<1>25. ASSUME NEW h \in stray, StrayEnds(h)
       PROVE  [Channel!ChannelNext]_(Channel!cvars)
  BY <1>25 DEF StrayEnds, MessageStatus, Published
<1>26. CASE UNCHANGED vars
  BY <1>26 DEF vars, MessageStatus, Published
<1>. HIDE DEF Channel!cvars
<1>. QED
  BY <1>1, <1>2, <1>3, <1>4, <1>5, <1>6, <1>7, <1>8, <1>9, <1>10, <1>11, <1>12, <1>13,
     <1>14, <1>15, <1>16, <1>17, <1>18, <1>19, <1>20, <1>21, <1>22, <1>23, <1>24, <1>25,
     <1>26
  DEF Next, Healthy, Deletion, Failure, Crash, Disconnection, HandleDeadLetter

(* The pipeline implements the protocol VideoLifecycle uses. *)
THEOREM ChannelImplemented == Spec => ImplementsChannel
<1>1. Init => Channel!ChannelInit
  <2>. SUFFICES ASSUME Init PROVE Channel!ChannelInit
    OBVIOUS
  <2>1. MessageStatus = [u \in Changes |-> "none"]
    BY DEF Init, MessageStatus, Published
  <2>. QED
    BY <2>1 DEF Init, Channel!ChannelInit
<1>2. PipeInv /\ [Next]_vars => [Channel!ChannelNext]_(Channel!cvars)
  BY ChannelStep
<1>. QED
  BY <1>1, <1>2, Invariance, PTL DEF Spec, ImplementsChannel, Channel!ChannelSpec

-----------------------------------------------------------------------------

(* The messages stay in the order of their publication. *)
LEMMA OrderStep == PipeInv /\ OrderInv /\ [Next]_vars => OrderInv'
<1>. USE DEF OrderInv, api, search, retry
<1>. SUFFICES ASSUME PipeInv, OrderInv, [Next]_vars PROVE OrderInv'
  OBVIOUS
<1>1. ASSUME NEW u \in Changes, NEW fs \in SUBSET Fields, CommitRow(u, fs)
      PROVE  OrderInv'
  BY <1>1 DEF CommitRow
<1>2. ASSUME NEW u \in Changes, SendRow(u)
      PROVE  OrderInv'
  BY <1>2 DEF SendRow
<1>3. ASSUME NEW u \in Changes, SendMessage(u)
      PROVE  OrderInv'
  <2>1. [msg |-> u, deaths |-> 0] \in Letter
    BY DEF Letter
  <2>2. ToSet(transfer') = ToSet(transfer) \cup {[msg |-> u, deaths |-> 0]}
    BY <1>3, <2>1, ElementsOfAppend DEF SendMessage, TypeOK, PipeInv
  <2>3. /\ Len(transfer') = Len(transfer) + 1 /\ Len(transfer) \in Nat
        /\ transfer'[Len(transfer) + 1].msg = u
        /\ \A i \in 1 .. Len(transfer) : transfer'[i] = transfer[i]
    BY <1>3, <2>1, AppendProperties, LenProperties DEF SendMessage, TypeOK, PipeInv
  <2>4. /\ sent'.at[u] = sent.last + 1 /\ sent'.last = sent.last + 1 /\ sent.last \in Nat
        /\ \A x \in Changes \ {u} : sent'.at[x] = sent.at[x]
        /\ \A x \in Changes : sent.at[x] \in Nat /\ sent.at[x] =< sent.last
    BY <1>3 DEF SendMessage, TypeOK, PipeInv
  <2>5. /\ \A l \in ToSet(transfer) : l.msg \in Changes \ {u}
        /\ consumer.stage # "idle" => consumer.letter.msg \in Changes \ {u}
        /\ \A y \in stray : y[1] \in Changes \ {u}
    <3>1. consumer.stage # "idle" => consumer.letter \in Letter
      BY DEF HeldInv, TypeOK, Held, PipeInv
    <3>2. \A l \in ToSet(transfer) : l \in Letter
      BY ElementsAreTyped DEF TypeOK, PipeInv
    <3>3. ~ Published(u)
      BY <1>3 DEF SendMessage, PipeInv, CallInv
    <3>. QED
      BY <3>1, <3>2, <3>3 DEF Letter, PipeInv, AnswerInv, TypeOK
  <2>6. index # None => index \in Changes
    BY DEF PipeInv, TypeOK
  <2>7. \A i \in 1 .. Len(transfer) : transfer[i] \in ToSet(transfer)
    BY LenProperties DEF ToSet, PipeInv, TypeOK
  <2>8. index # None => index # u
    BY <1>3, <2>6 DEF SendMessage, PipeInv, CallInv, AnswerInv, Published
  <2>9. UNCHANGED <<index, consumer, stray>>
    BY <1>3 DEF SendMessage
  <2>10. ASSUME NEW i \in 1 .. Len(transfer'), NEW j \in 1 .. Len(transfer'), i < j
         PROVE  sent'.at[transfer'[i].msg] < sent'.at[transfer'[j].msg]
    <3>1. i \in 1 .. Len(transfer) /\ transfer'[i] = transfer[i]
      BY <2>3, <2>10
    <3>2. transfer[i].msg \in Changes \ {u}
      BY <3>1, <2>5, <2>7
    <3>3. CASE j \in 1 .. Len(transfer)
      <4>1. transfer'[j] = transfer[j] /\ transfer[j].msg \in Changes \ {u}
        BY <3>3, <2>3, <2>5, <2>7
      <4>. QED
        BY <3>1, <3>2, <3>3, <4>1, <2>4, <2>10
    <3>4. CASE j = Len(transfer) + 1
      BY <3>1, <3>2, <3>4, <2>3, <2>4
    <3>. QED
      BY <3>3, <3>4, <2>3
  <2>11. \A x \in Changes : sent'.at[x] =< sent'.last
    BY <2>4
  <2>12. ASSUME NEW l \in ToSet(transfer')
         PROVE  /\ consumer.stage # "idle" => sent'.at[consumer.letter.msg] < sent'.at[l.msg]
                /\ index # None => sent'.at[index] =< sent'.at[l.msg]
                /\ \A y \in stray : sent'.at[y[1]] =< sent'.at[l.msg]
    <3>1. CASE l \in ToSet(transfer)
      BY <3>1, <2>4, <2>5, <2>6, <2>8
    <3>2. CASE l = [msg |-> u, deaths |-> 0]
      BY <3>2, <2>4, <2>5, <2>6, <2>8
    <3>. QED
      BY <3>1, <3>2, <2>2
  <2>. QED
    BY <2>4, <2>5, <2>6, <2>8, <2>9, <2>10, <2>11, <2>12
<1>4. ASSUME NEW u \in Changes, HandleAnswer(u)
      PROVE  OrderInv'
  BY <1>4 DEF HandleAnswer
<1>5. CASE Deliver
  <2>1. /\ ToSet(transfer) = {Head(transfer)} \cup ToSet(transfer')
        /\ Head(transfer) = transfer[1]
    BY <1>5, ElementsOfTail DEF Deliver, TypeOK, PipeInv
  <2>2. /\ Len(transfer) \in Nat \ {0} /\ Len(transfer') = Len(transfer) - 1
        /\ \A i \in 1 .. Len(transfer') : transfer'[i] = transfer[i + 1]
        /\ DOMAIN transfer' = 1 .. Len(transfer')
    BY <1>5, HeadTailProperties, LenProperties, EmptySeq DEF Deliver, TypeOK, PipeInv
  <2>3. consumer'.letter = transfer[1] /\ UNCHANGED <<sent, index, stray>>
    BY <1>5, <2>1 DEF Deliver
  <2>4. ASSUME NEW i \in 1 .. Len(transfer'), NEW j \in 1 .. Len(transfer'), i < j
        PROVE  sent.at[transfer'[i].msg] < sent.at[transfer'[j].msg]
    <3>1. i + 1 \in 1 .. Len(transfer) /\ j + 1 \in 1 .. Len(transfer) /\ i + 1 < j + 1
      BY <2>2, <2>4
    <3>. QED
      BY <3>1, <2>2
  <2>5. ASSUME NEW l \in ToSet(transfer') PROVE sent.at[transfer[1].msg] < sent.at[l.msg]
    <3>1. PICK i \in 1 .. Len(transfer') : l = transfer[i + 1]
      BY <2>2 DEF ToSet
    <3>2. i + 1 \in 1 .. Len(transfer) /\ 1 \in 1 .. Len(transfer) /\ 1 < i + 1
      BY <2>2
    <3>. QED
      BY <3>1, <3>2
  <2>. QED
    BY <2>1, <2>3, <2>4, <2>5
<1>6. CASE Index
  <2>1. consumer.letter.msg \in Changes
    BY <1>6 DEF Index, HeldInv, TypeOK, Held, Letter, PipeInv
  <2>2. /\ consumer'.letter = consumer.letter /\ index' = consumer.letter.msg
        /\ UNCHANGED <<sent, transfer, stray>>
    BY <1>6 DEF Index, PipeInv, TypeOK
  <2>3. ASSUME NEW l \in ToSet(transfer) PROVE sent.at[consumer.letter.msg] =< sent.at[l.msg]
    <3>1. l \in Letter
      BY ElementsAreTyped DEF TypeOK, PipeInv
    <3>2. l.msg \in Changes
      BY <3>1 DEF Letter
    <3>. QED
      BY <1>6, <2>1, <3>2 DEF Index, PipeInv, TypeOK
  <2>4. sent.at[consumer.letter.msg] =< sent.at[consumer.letter.msg]
    BY <2>1 DEF PipeInv, TypeOK
  <2>. QED
    BY <1>6, <2>2, <2>3, <2>4 DEF Index
<1>7. CASE Answer
  BY <1>7 DEF Answer, PublishAnswer, PipeInv, TypeOK
<1>8. CASE AckMessage
  BY <1>8 DEF AckMessage, Idle
<1>9. CASE DeleteFind
  BY <1>9 DEF DeleteFind
<1>10. CASE DeleteRow
  BY <1>10 DEF DeleteRow
<1>11. CASE DeletePoint
  BY <1>11 DEF DeletePoint
<1>12. ASSUME NEW u \in Changes, NEW s \in {"row", "publish"}, SendFails(u, s)
       PROVE  OrderInv'
  BY <1>12 DEF SendFails
<1>13. ASSUME NEW p \in {"row", "point"}, DeleteFails(p)
       PROVE  OrderInv'
  BY <1>13 DEF DeleteFails
<1>14. CASE Reject
  BY <1>14 DEF Reject, Idle
<1>15. CASE TakeDead
  BY <1>15 DEF TakeDead
<1>16. CASE retrier.stage = "wait" /\ Republish
  BY <1>16 DEF Republish
<1>17. CASE AckDead
  BY <1>17 DEF AckDead
<1>18. CASE retrier.stage = "wait" /\ retrier.letter.deaths >= MaxRetries /\ GiveUp
  BY <1>18 DEF GiveUp
<1>19. CASE ConsumerCrash
  <2>1. consumer.letter \in Letter
    BY <1>19 DEF ConsumerCrash, HeldInv, TypeOK, Held, PipeInv
  <2>2. /\ Len(transfer') = Len(transfer) + 1 /\ Len(transfer) \in Nat
        /\ transfer'[1] = consumer.letter
        /\ \A i \in 2 .. Len(transfer) + 1 : transfer'[i] = transfer[i - 1]
        /\ ToSet(transfer') = {consumer.letter} \cup ToSet(transfer)
    BY <1>19, <2>1, ElementsOfCons, LenProperties DEF ConsumerCrash, TypeOK, PipeInv
  <2>3. UNCHANGED <<sent, index, stray>> /\ consumer'.stage = "idle"
    BY <1>19 DEF ConsumerCrash, Idle
  <2>4. ASSUME NEW i \in 1 .. Len(transfer'), NEW j \in 1 .. Len(transfer'), i < j
        PROVE  sent.at[transfer'[i].msg] < sent.at[transfer'[j].msg]
    <3>1. transfer'[j] = transfer[j - 1] /\ j - 1 \in 1 .. Len(transfer)
      BY <2>2, <2>4
    <3>2. CASE i = 1
      <4>1. transfer[j - 1] \in ToSet(transfer)
        BY <3>1, LenProperties DEF ToSet, TypeOK, PipeInv
      <4>. QED
        BY <3>1, <3>2, <4>1, <2>2, <1>19 DEF ConsumerCrash
    <3>3. CASE i # 1
      <4>1. transfer'[i] = transfer[i - 1] /\ i - 1 \in 1 .. Len(transfer) /\ i - 1 < j - 1
        BY <2>2, <2>4, <3>3
      <4>. QED
        BY <3>1, <4>1
    <3>. QED
      BY <3>2, <3>3
  <2>. QED
    BY <1>19, <2>2, <2>3, <2>4 DEF ConsumerCrash
<1>20. CASE RetrierCrash
  BY <1>20 DEF RetrierCrash
<1>21. ASSUME NEW u \in Changes, AnswerRepeats(u)
       PROVE  OrderInv'
  BY <1>21 DEF AnswerRepeats
<1>22. CASE ConnectionLost
  <2>1. consumer.letter \in Letter
    BY <1>22 DEF ConnectionLost, HeldInv, TypeOK, Held, PipeInv
  <2>2. /\ Len(transfer') = Len(transfer) + 1 /\ Len(transfer) \in Nat
        /\ transfer'[1] = consumer.letter
        /\ \A i \in 2 .. Len(transfer) + 1 : transfer'[i] = transfer[i - 1]
        /\ ToSet(transfer') = {consumer.letter} \cup ToSet(transfer)
    BY <1>22, <2>1, ElementsOfCons, LenProperties DEF ConnectionLost, TypeOK, PipeInv
  <2>3. UNCHANGED <<sent, index>> /\ consumer'.stage = "idle"
    BY <1>22 DEF ConnectionLost, Idle
  <2>4. ASSUME NEW i \in 1 .. Len(transfer'), NEW j \in 1 .. Len(transfer'), i < j
        PROVE  sent.at[transfer'[i].msg] < sent.at[transfer'[j].msg]
    <3>1. transfer'[j] = transfer[j - 1] /\ j - 1 \in 1 .. Len(transfer)
      BY <2>2, <2>4
    <3>2. CASE i = 1
      <4>1. transfer[j - 1] \in ToSet(transfer)
        BY <3>1, LenProperties DEF ToSet, TypeOK, PipeInv
      <4>. QED
        BY <3>1, <3>2, <4>1, <2>2, <1>22 DEF ConnectionLost
    <3>3. CASE i # 1
      <4>1. transfer'[i] = transfer[i - 1] /\ i - 1 \in 1 .. Len(transfer) /\ i - 1 < j - 1
        BY <2>2, <2>4, <3>3
      <4>. QED
        BY <3>1, <4>1
    <3>. QED
      BY <3>2, <3>3
  <2>5. stray' = stray \cup {<<consumer.letter.msg, consumer.stage>>}
    BY <1>22 DEF ConnectionLost
  <2>6. sent.at[consumer.letter.msg] \in Nat
    BY <2>1 DEF Letter, PipeInv, TypeOK
  <2>7. ASSUME NEW l \in ToSet(transfer') PROVE sent.at[consumer.letter.msg] =< sent.at[l.msg]
    <3>1. CASE l = consumer.letter
      BY <3>1, <2>6
    <3>2. CASE l \in ToSet(transfer)
      <4>1. l \in Letter
        BY <3>2, ElementsAreTyped DEF PipeInv, TypeOK
      <4>2. sent.at[l.msg] \in Nat
        BY <4>1 DEF Letter, PipeInv, TypeOK
      <4>. QED
        BY <1>22, <3>2, <4>2, <2>6 DEF ConnectionLost
    <3>. QED
      BY <3>1, <3>2, <2>2
  <2>. QED
    BY <1>22, <2>2, <2>3, <2>4, <2>5, <2>7 DEF ConnectionLost
<1>23. ASSUME NEW u \in Changes, StrayIndex(u)
       PROVE  OrderInv'
  <2>1. index' = u /\ u # None /\ \A y \in stray' : y = <<u, "answer">> \/ y \in stray
    BY <1>23, PipelineAssumption DEF StrayIndex
  <2>2. <<u, "index">> \in stray /\ <<u, "index">>[1] = u /\ <<u, "answer">>[1] = u
    BY <1>23 DEF StrayIndex
  <2>. QED
    BY <1>23, <2>1, <2>2 DEF StrayIndex
<1>24. ASSUME NEW u \in Changes, StrayAnswer(u)
       PROVE  OrderInv'
  BY <1>24 DEF StrayAnswer, PublishAnswer
<1>25. ASSUME NEW h \in stray, StrayEnds(h)
       PROVE  OrderInv'
  BY <1>25 DEF StrayEnds
<1>26. CASE UNCHANGED vars
  BY <1>26 DEF vars
<1>. HIDE DEF OrderInv
<1>. QED
  BY <1>1, <1>2, <1>3, <1>4, <1>5, <1>6, <1>7, <1>8, <1>9, <1>10, <1>11, <1>12, <1>13,
     <1>14, <1>15, <1>16, <1>17, <1>18, <1>19, <1>20, <1>21, <1>22, <1>23, <1>24, <1>25,
     <1>26
  DEF Next, Healthy, Deletion, Failure, Crash, Disconnection, HandleDeadLetter

(* Only a handler that outlives its delivery takes the index back. *)
THEOREM IndexIsMonotonic == Spec => IndexMovesForward
<1>. DEFINE Forward == index # None /\ index' # None =>
                      sent.at[index] =< sent.at[index'] \/ stray' # stray
<1>1. Init => OrderInv
  <2>1. ToSet(<<>>) = {}
    BY DEF ToSet
  <2>. QED
    BY <2>1 DEF Init, OrderInv, Idle
<1>2. PipeInv /\ OrderInv /\ [Next]_vars => OrderInv'
  BY OrderStep
<1>3. PipeInv /\ OrderInv /\ [Next]_vars => [Forward]_index
  <2>. SUFFICES ASSUME PipeInv, OrderInv, Next PROVE [Forward]_index
    BY DEF vars
  <2>1. CASE Index
    BY <2>1 DEF Index, OrderInv
  <2>2. CASE DeletePoint
    BY <2>2 DEF DeletePoint
  <2>3. ASSUME NEW u \in Changes, StrayIndex(u) PROVE [Forward]_index
    BY <2>3 DEF StrayIndex
  <2>4. ASSUME ~ Index, ~ DeletePoint, \A u \in Changes : ~ StrayIndex(u) PROVE UNCHANGED index
    BY <2>4 DEF Next, Disconnection, StrayAnswer, StrayEnds, ConnectionLost, Healthy, Deletion, Failure, Crash, CommitRow, SendRow, SendMessage,
      HandleAnswer, Deliver, Answer, AckMessage, DeleteFind, DeleteRow, SendFails, DeleteFails,
      Reject, TakeDead, HandleDeadLetter, Republish, AckDead, GiveUp, ConsumerCrash, RetrierCrash, AnswerRepeats,
      search
  <2>. QED
    BY <2>1, <2>2, <2>3, <2>4
<1>. QED
  BY <1>1, <1>2, <1>3, Invariance, PTL DEF Spec, IndexMovesForward
-----------------------------------------------------------------------------

(* What has been rejected stays in the hands or in the queue of the dead-letter
   consumer: nobody else reads the queue, and it puts back what it takes. *)
LEMMA RejectedStep ==
  ASSUME PipeInv, PipeInv', MaxRetries > 1, [Next]_vars, NEW u \in Changes, Rejected(u)
  PROVE  Rejected(u)'
<1>. USE DEF Rejected
<1>1. CASE UNCHANGED <<dead, retrier>>
  BY <1>1
<1>2. CASE Reject
  <2>1. consumer.letter \in Letter
    BY <1>2 DEF Reject, HeldInv, TypeOK, Held, PipeInv
  <2>2. [msg |-> consumer.letter.msg, deaths |-> consumer.letter.deaths + 1] \in Letter
    BY <2>1 DEF Letter
  <2>3. ToSet(dead) \subseteq ToSet(dead')
    BY <1>2, <2>2, ElementsOfAppend DEF Reject, TypeOK, PipeInv
  <2>. QED
    BY <1>2, <2>3 DEF Reject
<1>3. CASE TakeDead
  <2>1. ToSet(dead) = {Head(dead)} \cup ToSet(dead')
    BY <1>3, ElementsOfTail DEF TakeDead, TypeOK, PipeInv
  <2>2. retrier'.letter = Head(dead) /\ retrier.letter.msg = None
    BY <1>3 DEF TakeDead, PipeInv, HeldInv, NoLetter
  <2>. QED
    BY <2>1, <2>2, PipelineAssumption
<1>4. CASE HandleDeadLetter
  <2>1. retrier.letter \in Letter /\ retrier.letter.deaths = 1
    BY <1>4 DEF HandleDeadLetter, HeldInv, DeathInv, TypeOK, Held, PipeInv
  <2>2. Republish
    BY <1>4, <2>1, PipelineAssumption DEF HandleDeadLetter
  <2>3. ToSet(dead) \subseteq ToSet(dead')
    BY <2>1, <2>2, ElementsOfAppend DEF Republish, TypeOK, PipeInv
  <2>. QED
    BY <2>2, <2>3 DEF Republish
<1>5. CASE AckDead
  BY <1>5 DEF AckDead, PipeInv, AckInv
<1>6. CASE RetrierCrash
  <2>1. retrier.letter \in Letter
    BY <1>6 DEF RetrierCrash, HeldInv, TypeOK, Held, PipeInv
  <2>2. ToSet(dead') = {retrier.letter} \cup ToSet(dead)
    BY <1>6, <2>1, ElementsOfCons DEF RetrierCrash, TypeOK, PipeInv
  <2>. QED
    BY <2>2
<1>7. ASSUME ~ Reject, ~ TakeDead, ~ HandleDeadLetter, ~ AckDead, ~ RetrierCrash
      PROVE  UNCHANGED <<dead, retrier>>
  BY <1>7 DEF Next, Healthy, Deletion, Failure, Crash, Disconnection, vars, retry,
     CommitRow, SendRow, SendMessage, SendFails, HandleAnswer, AnswerRepeats, DeleteFind,
     DeleteRow, DeletePoint, DeleteFails, Deliver, Index, Answer, AckMessage, ConsumerCrash,
     ConnectionLost, StrayIndex, StrayAnswer, StrayEnds
<1>. QED
  BY <1>1, <1>2, <1>3, <1>4, <1>5, <1>6, <1>7

(* A retry never gets a message back to its queue: what the consumer rejects
   once is among the dead letters for good, if the limit allows one retry. *)
THEOREM RejectedAreLost ==
  ASSUME MaxRetries > 1
  PROVE  Spec => RejectedForGood
<1>1. PipeInv /\ PipeInv' /\ [Next]_vars => [\A u \in Changes : Rejected(u) => Rejected(u)']_vars
  BY RejectedStep
<1>. QED
  BY <1>1, Invariance, PTL DEF Spec, RejectedForGood
=============================================================================
