-------------------------- MODULE Engagement_proofs --------------------------
(***************************************************************************)
(* Proofs about Engagement for every number of users and calls: type       *)
(* correctness, no rows of a deleted video, the two sums (what a counter   *)
(* lacks is what calls still owe it), and counters that are exact between  *)
(* calls that neither overlap nor fail halfway.                            *)
(*                                                                         *)
(* The invariant is IInv.  A sum is kept because a step changes the rows,  *)
(* the counter and the calls that owe it together: each lemma about a sum  *)
(* first says how the sets change, and then counts.                        *)
(***************************************************************************)
EXTENDS Engagement, FiniteSetTheorems, TLAPS

-----------------------------------------------------------------------------
(* The initial states satisfy the inductive invariant. *)
LEMMA InitInv == Init => IInv
<1>. SUFFICES ASSUME Init PROVE IInv
  OBVIOUS
<1>. USE EngagementAssumption
<1>1. TypeOK
  BY DEF Init, TypeOK, Call, Idle, Op, Mark, Visibility
<1>2. SeenInv /\ NoOrphans
  BY DEF Init, SeenInv, NoOrphans, Idle, Vote, Membership, Exists, Visibility, Mark, Marked, At
<1>3. FirstVotes = {} /\ Joining = {} /\ Leaving = {} /\ Users \ Marked("none") = {}
  BY DEF Init, FirstVotes, Joining, Leaving, Marked, Owed, Idle
<1>4. VotesAddUp /\ SubscribersAddUp
  BY <1>3, FS_EmptySet DEF Init, VotesAddUp, SubscribersAddUp
<1>. QED
  BY <1>1, <1>2, <1>4 DEF IInv

(* The sets that are counted are finite. *)
LEMMA Counted ==
  ASSUME TypeOK
  PROVE  /\ IsFiniteSet(FirstVotes) /\ IsFiniteSet(Joining) /\ IsFiniteSet(Leaving)
         /\ IsFiniteSet(Users \ Marked("none")) /\ IsFiniteSet(subscribed)
         /\ Cardinality(FirstVotes) \in Nat /\ Cardinality(Joining) \in Nat
         /\ Cardinality(Leaving) \in Nat /\ Cardinality(subscribed) \in Nat
         /\ Cardinality(Users \ Marked("none")) \in Nat
<1>1. FirstVotes \subseteq Calls /\ Joining \subseteq Calls /\ Leaving \subseteq Calls
  BY DEF FirstVotes, Joining, Leaving
<1>2. Users \ Marked("none") \subseteq Users /\ subscribed \subseteq Users
  BY DEF TypeOK
<1>3. /\ IsFiniteSet(FirstVotes) /\ IsFiniteSet(Joining) /\ IsFiniteSet(Leaving)
      /\ IsFiniteSet(Users \ Marked("none")) /\ IsFiniteSet(subscribed)
  BY <1>1, <1>2, EngagementAssumption, FS_Subset
<1>. QED
  BY <1>3, FS_CardinalityType

(* Every step keeps the types. *)
LEMMA TypeStep == TypeOK /\ SeenInv /\ [Next]_vars => TypeOK'
<1>. USE EngagementAssumption DEF TypeOK, Call, Mark
<1>. SUFFICES ASSUME TypeOK, SeenInv, [Next]_vars PROVE TypeOK'
  OBVIOUS
<1>1. ASSUME NEW c \in Calls, NEW op \in Op, NEW u \in Users, Begin(c, op, u)
      PROVE  TypeOK'
  BY <1>1 DEF Begin, Idle, video, channel
<1>2. ASSUME NEW c \in Calls, FindMark(c)
      PROVE  TypeOK'
  BY <1>2 DEF FindMark, At, video, channel
<1>3. ASSUME NEW c \in Calls, WriteMark(c)
      PROVE  TypeOK'
  BY <1>3 DEF WriteMark, At, Goto, Vote, video, channel
<1>4. ASSUME NEW c \in Calls, CountVote(c)
      PROVE  TypeOK'
  BY <1>4 DEF CountVote, At, Goto, video, channel
<1>5. ASSUME NEW c \in Calls, FindSubscription(c)
      PROVE  TypeOK'
  BY <1>5 DEF FindSubscription, At, video, channel
<1>6. ASSUME NEW c \in Calls, WriteSubscription(c)
      PROVE  TypeOK'
  BY <1>6 DEF WriteSubscription, At, Goto, video, channel
<1>7. ASSUME NEW c \in Calls, CountSubscription(c)
      PROVE  TypeOK'
  BY <1>7 DEF CountSubscription, At, Goto, video, channel
<1>8. ASSUME NEW c \in Calls, Watch(c)
      PROVE  TypeOK'
  BY <1>8 DEF Watch, At, Goto, video, channel
<1>9. ASSUME NEW c \in Calls, Comment(c)
      PROVE  TypeOK'
  BY <1>9 DEF Comment, At, Goto, video, channel
<1>10. ASSUME NEW c \in Calls, Track(c)
      PROVE  TypeOK'
  BY <1>10 DEF Track, At, Goto, video, channel
<1>11. ASSUME NEW c \in Calls, Fail(c)
      PROVE  TypeOK'
  BY <1>11 DEF Fail, Goto, video, channel
<1>12. ASSUME NEW v \in Visibility, SetVisibility(v)
      PROVE  TypeOK'
  BY <1>12 DEF SetVisibility, channel
<1>13. CASE Delete
  BY <1>13 DEF Delete, channel
<1>14. CASE UNCHANGED vars
  BY <1>14 DEF vars, video, channel
<1>. HIDE DEF TypeOK
<1>. QED
  BY <1>1, <1>2, <1>3, <1>4, <1>5, <1>6, <1>7, <1>8, <1>9, <1>10, <1>11, <1>12, <1>13,
     <1>14
  DEF Next, Step

(* What a call has seen says which operation it is. *)
LEMMA SeenStep == TypeOK /\ SeenInv /\ [Next]_vars => SeenInv'
<1>. USE DEF TypeOK, SeenInv, Vote, Membership, Mark, Call, Op
<1>. SUFFICES ASSUME TypeOK, SeenInv, [Next]_vars PROVE SeenInv'
  OBVIOUS
<1>1. ASSUME NEW c \in Calls, NEW op \in Op, NEW u \in Users, Begin(c, op, u)
      PROVE  SeenInv'
  BY <1>1 DEF Begin, Idle, video, channel
<1>2. ASSUME NEW c \in Calls, FindMark(c)
      PROVE  SeenInv'
  BY <1>2 DEF FindMark, At, video, channel
<1>3. ASSUME NEW c \in Calls, WriteMark(c)
      PROVE  SeenInv'
  BY <1>3 DEF WriteMark, At, Goto, Vote, video, channel
<1>4. ASSUME NEW c \in Calls, CountVote(c)
      PROVE  SeenInv'
  BY <1>4 DEF CountVote, At, Goto, video, channel
<1>5. ASSUME NEW c \in Calls, FindSubscription(c)
      PROVE  SeenInv'
  BY <1>5 DEF FindSubscription, At, video, channel
<1>6. ASSUME NEW c \in Calls, WriteSubscription(c)
      PROVE  SeenInv'
  BY <1>6 DEF WriteSubscription, At, Goto, video, channel
<1>7. ASSUME NEW c \in Calls, CountSubscription(c)
      PROVE  SeenInv'
  BY <1>7 DEF CountSubscription, At, Goto, video, channel
<1>8. ASSUME NEW c \in Calls, Watch(c)
      PROVE  SeenInv'
  BY <1>8 DEF Watch, At, Goto, video, channel
<1>9. ASSUME NEW c \in Calls, Comment(c)
      PROVE  SeenInv'
  BY <1>9 DEF Comment, At, Goto, video, channel
<1>10. ASSUME NEW c \in Calls, Track(c)
      PROVE  SeenInv'
  BY <1>10 DEF Track, At, Goto, video, channel
<1>11. ASSUME NEW c \in Calls, Fail(c)
      PROVE  SeenInv'
  BY <1>11 DEF Fail, Goto, video, channel
<1>12. CASE UNCHANGED <<call>>
  BY <1>12
<1>. HIDE DEF SeenInv
<1>. QED
  BY <1>1, <1>2, <1>3, <1>4, <1>5, <1>6, <1>7, <1>8, <1>9, <1>10, <1>11, <1>12
  DEF Next, Step, Delete, SetVisibility, channel, vars, video, channel

(* A step that writes a row of the video finds the video there. *)
LEMMA OrphanStep == TypeOK /\ NoOrphans /\ [Next]_vars => NoOrphans'
<1>. USE DEF NoOrphans, Exists, Marked, Visibility, TypeOK, Mark
<1>. SUFFICES ASSUME TypeOK, NoOrphans, [Next]_vars PROVE NoOrphans'
  OBVIOUS
<1>1. ASSUME NEW c \in Calls, WriteMark(c)
      PROVE  NoOrphans'
  BY <1>1 DEF WriteMark, At, Goto, Vote, video, channel
<1>2. ASSUME NEW c \in Calls, Watch(c)
      PROVE  NoOrphans'
  BY <1>2 DEF Watch, At, Goto, video, channel
<1>3. ASSUME NEW c \in Calls, Comment(c)
      PROVE  NoOrphans'
  BY <1>3 DEF Comment, At, Goto, video, channel
<1>4. ASSUME NEW c \in Calls, Track(c)
      PROVE  NoOrphans'
  BY <1>4 DEF Track, At, Goto, video, channel
<1>5. ASSUME NEW c \in Calls, Fail(c)
      PROVE  NoOrphans'
  BY <1>5 DEF Fail, Goto, video, channel
<1>6. ASSUME NEW v \in Visibility, SetVisibility(v)
      PROVE  NoOrphans'
  BY <1>6 DEF SetVisibility, channel
<1>7. CASE Delete
  BY <1>7 DEF Delete, channel
<1>8. CASE UNCHANGED <<visibility, mark, comments, history>>
  BY <1>8
<1>. HIDE DEF NoOrphans
<1>. QED
  BY <1>1, <1>2, <1>3, <1>4, <1>5, <1>6, <1>7, <1>8
  DEF Next, Step, At, Begin, CountSubscription, CountVote, FindMark, FindSubscription,
      Goto, Idle, WriteSubscription, channel, video, vars, video, channel

(* A step keeps the sum of the likes and dislikes. *)
LEMMA VotesStep == TypeOK /\ SeenInv /\ VotesAddUp /\ [Next]_vars => VotesAddUp'
<1>. SUFFICES ASSUME TypeOK, SeenInv, VotesAddUp, [Next]_vars PROVE VotesAddUp'
  OBVIOUS
<1>. DEFINE Voters == Users \ Marked("none")
<1>1. ASSUME UNCHANGED <<visibility, likes, dislikes, mark>>, FirstVotes' = FirstVotes
      PROVE  VotesAddUp'
  BY <1>1 DEF VotesAddUp, Exists, Marked
<1>2. ASSUME NEW c \in Calls, NEW op \in Op, NEW u \in Users, Begin(c, op, u)
      PROVE  VotesAddUp'
  <2>1. FirstVotes' = FirstVotes
    BY <1>2 DEF Begin, FirstVotes, TypeOK, Owed, Idle
  <2>. QED
    BY <1>1, <1>2, <2>1 DEF Begin, video
<1>3. ASSUME NEW c \in Calls, FindMark(c)
      PROVE  VotesAddUp'
  <2>1. FirstVotes' = FirstVotes
    BY <1>3 DEF FindMark, FirstVotes, TypeOK, Owed, At, TypeOK, Call
  <2>. QED
    BY <1>1, <1>3, <2>1 DEF FindMark, video
<1>4. ASSUME NEW c \in Calls, FindSubscription(c)
      PROVE  VotesAddUp'
  <2>1. FirstVotes' = FirstVotes
    BY <1>4 DEF FindSubscription, FirstVotes, TypeOK, Owed, At, Membership, Vote
  <2>. QED
    BY <1>1, <1>4, <2>1 DEF FindSubscription, video
<1>5. ASSUME NEW c \in Calls, WriteSubscription(c)
      PROVE  VotesAddUp'
  <2>1. FirstVotes' = FirstVotes
    BY <1>5 DEF WriteSubscription, FirstVotes, TypeOK, Owed, At, Goto, Membership, Vote
  <2>. QED
    BY <1>1, <1>5, <2>1 DEF WriteSubscription, video
<1>6. ASSUME NEW c \in Calls, CountSubscription(c)
      PROVE  VotesAddUp'
  <2>1. FirstVotes' = FirstVotes
    BY <1>6 DEF CountSubscription, FirstVotes, TypeOK, Owed, At, Goto, Membership, Vote
  <2>. QED
    BY <1>1, <1>6, <2>1 DEF CountSubscription, video
<1>7. ASSUME NEW c \in Calls, Watch(c)
      PROVE  VotesAddUp'
  <2>1. FirstVotes' = FirstVotes
    BY <1>7 DEF Watch, FirstVotes, TypeOK, Owed, At, Goto, Vote
  <2>. QED
    BY <1>1, <1>7, <2>1 DEF Watch, video
<1>8. ASSUME NEW c \in Calls, Comment(c)
      PROVE  VotesAddUp'
  <2>1. FirstVotes' = FirstVotes
    BY <1>8 DEF Comment, FirstVotes, TypeOK, Owed, At, Goto, Vote
  <2>. QED
    BY <1>1, <1>8, <2>1 DEF Comment, video
<1>9. ASSUME NEW c \in Calls, Track(c)
      PROVE  VotesAddUp'
  <2>1. FirstVotes' = FirstVotes
    BY <1>9 DEF Track, FirstVotes, TypeOK, Owed, At, Goto, Vote
  <2>. QED
    BY <1>1, <1>9, <2>1 DEF Track, video
<1>10. ASSUME NEW c \in Calls, Fail(c)
      PROVE  VotesAddUp'
  <2>1. FirstVotes' = FirstVotes
    BY <1>10 DEF Fail, FirstVotes, TypeOK, Owed, Goto
  <2>. QED
    BY <1>1, <1>10, <2>1 DEF Fail, video
<1>11. ASSUME NEW v \in Visibility, SetVisibility(v)
      PROVE  VotesAddUp'
  <2>1. FirstVotes' = FirstVotes
    BY <1>11 DEF SetVisibility, FirstVotes, Owed
  <2>. QED
    BY <1>11, <2>1 DEF SetVisibility, VotesAddUp, Exists, Marked
<1>12. CASE Delete
  BY <1>12 DEF Delete, VotesAddUp, Exists
<1>13. ASSUME NEW c \in Calls, WriteMark(c)
      PROVE  VotesAddUp'
  <2>. DEFINE u == call[c].user
  <2>1. u \in Users /\ call[c].op \in Vote /\ c \notin FirstVotes
    BY <1>13 DEF WriteMark, At, TypeOK, Call, FirstVotes, Owed
  <2>2. /\ likes' = likes /\ dislikes' = dislikes /\ Exists /\ Exists'
        /\ likes \in Int /\ dislikes \in Int
    BY <1>13 DEF WriteMark, TypeOK, Exists
  <2>3. CASE call[c].seen = "none"
    <3>1. u \notin Voters /\ Voters' = Voters \cup {u}
      BY <1>13, <2>1, <2>3 DEF WriteMark, Marked, TypeOK, Vote
    <3>2. FirstVotes' = FirstVotes \cup {c}
      BY <1>13, <2>1, <2>3 DEF WriteMark, Goto, FirstVotes, Owed, TypeOK, At
    <3>3. /\ Cardinality(Voters') = Cardinality(Voters) + 1
          /\ Cardinality(FirstVotes') = Cardinality(FirstVotes) + 1
      BY <2>1, <3>1, <3>2, Counted, FS_AddElement
    <3>. QED
      BY <2>2, <3>3, Counted DEF VotesAddUp
  <2>4. CASE call[c].seen # "none"
    <3>1. Voters' = Voters
      BY <1>13, <2>1, <2>4 DEF WriteMark, Marked, TypeOK, Vote
    <3>2. FirstVotes' = FirstVotes
      BY <1>13, <2>4 DEF WriteMark, Goto, FirstVotes, Owed, TypeOK
    <3>. QED
      BY <2>2, <3>1, <3>2 DEF VotesAddUp
  <2>. QED
    BY <2>3, <2>4
<1>14. ASSUME NEW c \in Calls, CountVote(c)
      PROVE  VotesAddUp'
  <2>1. Voters' = Voters
    BY <1>14 DEF CountVote, Marked
  <2>2. /\ likes \in Int /\ dislikes \in Int /\ Exists /\ Exists'
        /\ call[c].op \in Vote /\ call[c].step = "written"
    BY <1>14 DEF CountVote, At, TypeOK, Exists
  <2>3. CASE call[c].seen = "none"
    <3>1. c \in FirstVotes /\ FirstVotes' = FirstVotes \ {c}
      BY <1>14, <2>2, <2>3 DEF CountVote, Goto, FirstVotes, Owed, TypeOK
    <3>2. Cardinality(FirstVotes') = Cardinality(FirstVotes) - 1
      BY <3>1, Counted, FS_RemoveElement
    <3>3. likes' + dislikes' = likes + dislikes + 1 /\ likes + dislikes \in Int
      BY <1>14, <2>2, <2>3 DEF CountVote
    <3>4. likes + dislikes = Cardinality(Voters) - Cardinality(FirstVotes)
      BY <2>2 DEF VotesAddUp
    <3>5. likes' + dislikes' = Cardinality(Voters) - Cardinality(FirstVotes')
      <4>. DEFINE n == Cardinality(Voters)
                  m == Cardinality(FirstVotes)
      <4>1. n \in Nat /\ m \in Nat
        BY Counted
      <4>2. likes' + dislikes' = (n - m) + 1 /\ Cardinality(FirstVotes') = m - 1
        BY <3>2, <3>3, <3>4
      <4>. HIDE DEF n, m
      <4>. QED
        BY <4>1, <4>2 DEF n
    <3>. QED
      BY <2>1, <3>5 DEF VotesAddUp
  <2>4. CASE call[c].seen # "none"
    <3>1. FirstVotes' = FirstVotes
      BY <1>14, <2>4 DEF CountVote, Goto, FirstVotes, Owed, TypeOK
    <3>2. likes' + dislikes' = likes + dislikes
      BY <1>14, <2>2, <2>4 DEF CountVote
    <3>. QED
      BY <2>1, <2>2, <3>1, <3>2 DEF VotesAddUp
  <2>. QED
    BY <2>3, <2>4
<1>15. CASE UNCHANGED vars
  BY <1>15 DEF vars, video, VotesAddUp, Exists, Marked, FirstVotes, Owed
<1>. HIDE DEF VotesAddUp
<1>. QED
  BY <1>2, <1>3, <1>4, <1>5, <1>6, <1>7, <1>8, <1>9, <1>10, <1>11, <1>12, <1>13, <1>14, <1>15 DEF Next, Step

(* A step keeps the sum of the subscribers. *)
LEMMA SubscribersStep == TypeOK /\ SeenInv /\ SubscribersAddUp /\ [Next]_vars => SubscribersAddUp'
<1>. SUFFICES ASSUME TypeOK, SeenInv, SubscribersAddUp, [Next]_vars PROVE SubscribersAddUp'
  OBVIOUS
<1>1. ASSUME UNCHANGED <<subscribed, subscribers>>, Joining' = Joining, Leaving' = Leaving
      PROVE  SubscribersAddUp'
  BY <1>1 DEF SubscribersAddUp
<1>2. ASSUME NEW c \in Calls, NEW op \in Op, NEW u \in Users, Begin(c, op, u)
      PROVE  SubscribersAddUp'
  <2>1. Joining' = Joining /\ Leaving' = Leaving
    BY <1>2 DEF Begin, Joining, Leaving, TypeOK, SeenInv, Owed, Idle
  <2>. QED
    BY <1>1, <1>2, <2>1 DEF Begin, channel
<1>3. ASSUME NEW c \in Calls, FindMark(c)
      PROVE  SubscribersAddUp'
  <2>1. Joining' = Joining /\ Leaving' = Leaving
    BY <1>3 DEF FindMark, Joining, Leaving, TypeOK, SeenInv, Owed, At, Mark
  <2>. QED
    BY <1>1, <1>3, <2>1 DEF FindMark, channel
<1>4. ASSUME NEW c \in Calls, WriteMark(c)
      PROVE  SubscribersAddUp'
  <2>1. Joining' = Joining /\ Leaving' = Leaving
    BY <1>4 DEF WriteMark, Joining, Leaving, TypeOK, SeenInv, Owed, At, Goto, Mark, Vote
  <2>. QED
    BY <1>1, <1>4, <2>1 DEF WriteMark, channel
<1>5. ASSUME NEW c \in Calls, CountVote(c)
      PROVE  SubscribersAddUp'
  <2>1. Joining' = Joining /\ Leaving' = Leaving
    BY <1>5 DEF CountVote, Joining, Leaving, TypeOK, SeenInv, Owed, At, Goto, Mark, Vote
  <2>. QED
    BY <1>1, <1>5, <2>1 DEF CountVote, channel
<1>6. ASSUME NEW c \in Calls, FindSubscription(c)
      PROVE  SubscribersAddUp'
  <2>1. Joining' = Joining /\ Leaving' = Leaving
    BY <1>6 DEF FindSubscription, Joining, Leaving, TypeOK, SeenInv, Owed, At
  <2>. QED
    BY <1>1, <1>6, <2>1 DEF FindSubscription, channel
<1>7. ASSUME NEW c \in Calls, Watch(c)
      PROVE  SubscribersAddUp'
  <2>1. Joining' = Joining /\ Leaving' = Leaving
    BY <1>7 DEF Watch, Joining, Leaving, TypeOK, SeenInv, Owed, At, Goto, Membership
  <2>. QED
    BY <1>1, <1>7, <2>1 DEF Watch, channel
<1>8. ASSUME NEW c \in Calls, Comment(c)
      PROVE  SubscribersAddUp'
  <2>1. Joining' = Joining /\ Leaving' = Leaving
    BY <1>8 DEF Comment, Joining, Leaving, TypeOK, SeenInv, Owed, At, Goto, Membership
  <2>. QED
    BY <1>1, <1>8, <2>1 DEF Comment, channel
<1>9. ASSUME NEW c \in Calls, Track(c)
      PROVE  SubscribersAddUp'
  <2>1. Joining' = Joining /\ Leaving' = Leaving
    BY <1>9 DEF Track, Joining, Leaving, TypeOK, SeenInv, Owed, At, Goto, Membership
  <2>. QED
    BY <1>1, <1>9, <2>1 DEF Track, channel
<1>10. ASSUME NEW c \in Calls, Fail(c)
      PROVE  SubscribersAddUp'
  <2>1. Joining' = Joining /\ Leaving' = Leaving
    BY <1>10 DEF Fail, Joining, Leaving, TypeOK, SeenInv, Owed, Goto
  <2>. QED
    BY <1>1, <1>10, <2>1 DEF Fail, channel
<1>11. ASSUME NEW v \in Visibility, SetVisibility(v)
      PROVE  SubscribersAddUp'
  <2>1. Joining' = Joining /\ Leaving' = Leaving
    BY <1>11 DEF SetVisibility, Joining, Leaving, Owed
  <2>. QED
    BY <1>1, <1>11, <2>1 DEF SetVisibility, channel
<1>12. CASE Delete
  <2>1. Joining' = Joining /\ Leaving' = Leaving
    BY <1>12 DEF Delete, Joining, Leaving, Owed
  <2>. QED
    BY <1>1, <1>12, <2>1 DEF Delete, channel
<1>13. ASSUME NEW c \in Calls, WriteSubscription(c)
      PROVE  SubscribersAddUp'
  <2>. DEFINE u == call[c].user
  <2>1. /\ u \in Users /\ c \notin Joining /\ c \notin Leaving
        /\ subscribers' = subscribers /\ subscribers \in Int
    BY <1>13 DEF WriteSubscription, At, TypeOK, Call, Joining, Leaving, Owed
  <2>2. CASE call[c].seen = "subscribed"
    <3>1. u \in subscribed /\ subscribed' = subscribed \ {u}
      BY <1>13, <2>2 DEF WriteSubscription
    <3>2. Leaving' = Leaving \cup {c} /\ Joining' = Joining
      BY <1>13, <2>2 DEF WriteSubscription, At, Goto, Joining, Leaving, Owed, TypeOK
    <3>3. /\ Cardinality(subscribed') = Cardinality(subscribed) - 1
          /\ Cardinality(Leaving') = Cardinality(Leaving) + 1
      BY <2>1, <3>1, <3>2, Counted, FS_AddElement, FS_RemoveElement
    <3>. QED
      BY <2>1, <3>2, <3>3, Counted DEF SubscribersAddUp
  <2>3. CASE call[c].seen # "subscribed"
    <3>1. call[c].seen = "unsubscribed"
      BY <1>13, <2>3 DEF WriteSubscription, At, SeenInv, Membership
    <3>2. u \notin subscribed /\ subscribed' = subscribed \cup {u}
      BY <1>13, <2>3 DEF WriteSubscription
    <3>3. Joining' = Joining \cup {c} /\ Leaving' = Leaving
      BY <1>13, <3>1 DEF WriteSubscription, At, Goto, Joining, Leaving, Owed, TypeOK
    <3>4. /\ Cardinality(subscribed') = Cardinality(subscribed) + 1
          /\ Cardinality(Joining') = Cardinality(Joining) + 1
      BY <2>1, <3>2, <3>3, Counted, FS_AddElement
    <3>. QED
      BY <2>1, <3>3, <3>4, Counted DEF SubscribersAddUp
  <2>. QED
    BY <2>2, <2>3
<1>14. ASSUME NEW c \in Calls, CountSubscription(c)
      PROVE  SubscribersAddUp'
  <2>1. subscribed' = subscribed /\ subscribers \in Int /\ call[c].step = "written"
    BY <1>14 DEF CountSubscription, At, TypeOK
  <2>2. CASE call[c].seen = "subscribed"
    <3>1. c \in Leaving /\ Leaving' = Leaving \ {c} /\ Joining' = Joining
      BY <1>14, <2>1, <2>2 DEF CountSubscription, Goto, Joining, Leaving, Owed, TypeOK
    <3>2. Cardinality(Leaving') = Cardinality(Leaving) - 1
      BY <3>1, Counted, FS_RemoveElement
    <3>3. subscribers' = subscribers - 1
      BY <1>14, <2>2 DEF CountSubscription
    <3>. QED
      BY <2>1, <3>1, <3>2, <3>3, Counted DEF SubscribersAddUp
  <2>3. CASE call[c].seen # "subscribed"
    <3>1. call[c].seen = "unsubscribed"
      BY <1>14, <2>3 DEF CountSubscription, At, SeenInv, Membership
    <3>2. c \in Joining /\ Joining' = Joining \ {c} /\ Leaving' = Leaving
      BY <1>14, <2>1, <3>1 DEF CountSubscription, Goto, Joining, Leaving, Owed, TypeOK
    <3>3. Cardinality(Joining') = Cardinality(Joining) - 1
      BY <3>2, Counted, FS_RemoveElement
    <3>4. subscribers' = subscribers + 1
      BY <1>14, <2>3 DEF CountSubscription
    <3>. QED
      BY <2>1, <3>2, <3>3, <3>4, Counted DEF SubscribersAddUp
  <2>. QED
    BY <2>2, <2>3
<1>15. CASE UNCHANGED vars
  BY <1>15 DEF vars, channel, SubscribersAddUp, Joining, Leaving, Owed
<1>. HIDE DEF SubscribersAddUp
<1>. QED
  BY <1>2, <1>3, <1>4, <1>5, <1>6, <1>7, <1>8, <1>9, <1>10, <1>11, <1>12, <1>13, <1>14, <1>15 DEF Next, Step

-----------------------------------------------------------------------------
(* Every step keeps the inductive invariant. *)
LEMMA StepInv == IInv /\ [Next]_vars => IInv'
BY TypeStep, SeenStep, OrphanStep, VotesStep, SubscribersStep DEF IInv

(* The inductive invariant holds in every reachable state. *)
THEOREM InvHolds == Spec => []IInv
<1>1. Init => IInv
  BY InitInv
<1>2. IInv /\ [Next]_vars => IInv'
  BY StepInv
<1>. QED
  BY <1>1, <1>2, PTL DEF Spec

(* Every variable keeps its type. *)
THEOREM TypesHold == Spec => []TypeOK
<1>1. IInv => TypeOK
  BY DEF IInv
<1>. QED
  BY <1>1, InvHolds, PTL

(* Likes and dislikes together are the rows but for the first votes whose
   counter is owed, whatever calls overlap, fail or are cut short. *)
THEOREM VotesAlwaysAddUp == Spec => []VotesAddUp
<1>1. IInv => VotesAddUp
  BY DEF IInv
<1>. QED
  BY <1>1, InvHolds, PTL

(* The counter of a channel is its rows but for what calls owe it, whatever
   calls overlap, fail or are cut short. *)
THEOREM SubscribersAlwaysAddUp == Spec => []SubscribersAddUp
<1>1. IInv => SubscribersAddUp
  BY DEF IInv
<1>. QED
  BY <1>1, InvHolds, PTL

(* No call that is under way when a video is deleted leaves a row of it. *)
THEOREM NothingIsOrphaned == Spec => []NoOrphans
<1>1. IInv => NoOrphans
  BY DEF IInv
<1>. QED
  BY <1>1, InvHolds, PTL

-----------------------------------------------------------------------------
(* Calls that do not overlap *)

(* The calls that owe something to the likes are finitely many. *)
LEMMA LikesCounted ==
  ASSUME TypeOK
  PROVE  /\ IsFiniteSet(LikesOwed) /\ IsFiniteSet(LikesTaken) /\ IsFiniteSet(Marked("like"))
         /\ Cardinality(LikesOwed) \in Nat /\ Cardinality(LikesTaken) \in Nat
         /\ Cardinality(Marked("like")) \in Nat
<1>1. LikesOwed \subseteq Calls /\ LikesTaken \subseteq Calls /\ Marked("like") \subseteq Users
  BY DEF LikesOwed, LikesTaken, Marked
<1>2. IsFiniteSet(LikesOwed) /\ IsFiniteSet(LikesTaken) /\ IsFiniteSet(Marked("like"))
  BY <1>1, EngagementAssumption, FS_Subset
<1>. QED
  BY <1>2, FS_CardinalityType

(* What a vote of one at a time saw stays as it saw it until it is written. *)
LEMMA FreshStep ==
  ASSUME TypeOK, SeenInv, OneAtATime, Exists => FreshInv, [Next]_vars
  PROVE  Exists' => FreshInv'
<1>. USE EngagementAssumption DEF TypeOK, Call, FreshInv, At, Vote, Exists
<1>. SUFFICES ASSUME Exists' PROVE FreshInv'
  OBVIOUS
<1>1. ASSUME NEW c \in Calls, NEW op \in Op, NEW u \in Users, Begin(c, op, u)
      PROVE  FreshInv'
  BY <1>1 DEF Begin, Idle, video, channel
<1>2. ASSUME NEW c \in Calls, FindMark(c)
      PROVE  FreshInv'
  BY <1>2 DEF FindMark, video, channel
<1>3. ASSUME NEW c \in Calls, FindSubscription(c)
      PROVE  FreshInv'
  BY <1>3 DEF FindSubscription, Membership, video, channel
<1>4. ASSUME NEW c \in Calls, WriteSubscription(c)
      PROVE  FreshInv'
  BY <1>4 DEF WriteSubscription, Membership, Goto, video, channel
<1>5. ASSUME NEW c \in Calls, CountSubscription(c)
      PROVE  FreshInv'
  BY <1>5 DEF CountSubscription, Membership, Goto, video, channel
<1>6. ASSUME NEW c \in Calls, Watch(c)
      PROVE  FreshInv'
  BY <1>6 DEF Watch, Goto, video, channel
<1>7. ASSUME NEW c \in Calls, Comment(c)
      PROVE  FreshInv'
  BY <1>7 DEF Comment, Goto, video, channel
<1>8. ASSUME NEW c \in Calls, Track(c)
      PROVE  FreshInv'
  BY <1>8 DEF Track, Goto, video, channel
<1>9. ASSUME NEW c \in Calls, WriteMark(c)
      PROVE  FreshInv'
  <2>1. Exists /\ visibility' = visibility
    BY <1>9 DEF WriteMark
  <2>2. /\ mark' = [mark EXCEPT ![call[c].user] = call[c].op]
        /\ call' = [call EXCEPT ![c] =
             [op |-> call[c].op, user |-> call[c].user, step |-> "written", seen |-> call[c].seen]]
        /\ call[c].step = "found" /\ call[c].op \in Vote /\ call[c].user \in Users
    BY <1>9 DEF WriteMark, Goto
  <2>3. ASSUME NEW d \in Calls, d # c, call[d].step = "found"
        PROVE  mark'[call[d].user] = mark[call[d].user] /\ call'[d] = call[d]
    <3>1. call[d].user # call[c].user
      BY <2>2, <2>3 DEF OneAtATime, InFlight
    <3>. QED
      BY <2>2, <2>3, <3>1
  <2>4. call[c].seen # call[c].op
    BY <2>1, <2>2
  <2>. QED
    BY <2>1, <2>2, <2>3, <2>4
<1>10. ASSUME NEW c \in Calls, CountVote(c)
      PROVE  FreshInv'
  BY <1>10 DEF CountVote, Goto
<1>11. ASSUME NEW c \in Calls, Fail(c)
      PROVE  FreshInv'
  BY <1>11 DEF Fail, Goto, video, channel
<1>12. ASSUME NEW v \in Visibility, SetVisibility(v)
      PROVE  FreshInv'
  BY <1>12 DEF SetVisibility
<1>13. CASE Delete
  BY <1>13 DEF Delete
<1>14. CASE UNCHANGED vars
  BY <1>14 DEF vars, video
<1>. HIDE DEF TypeOK, FreshInv, At, Exists
<1>. QED
  BY <1>1, <1>2, <1>3, <1>4, <1>5, <1>6, <1>7, <1>8, <1>9, <1>10, <1>11, <1>12, <1>13, <1>14
  DEF Next, Step

(* What a step adds to the likes it takes from what is owed to them, and what
   it does to the rows it owes. *)
LEMMA LikesStep ==
  ASSUME TypeOK, SeenInv, OneAtATime', Exists => FreshInv /\ LikesInv, [Next]_vars
  PROVE  Exists' => LikesInv'
<1>. USE EngagementAssumption
<1>. SUFFICES ASSUME Exists' PROVE LikesInv'
  OBVIOUS
<1>0. ASSUME UNCHANGED <<visibility, likes, mark>>, LikesOwed' = LikesOwed, LikesTaken' = LikesTaken
      PROVE  LikesInv'
  BY <1>0 DEF LikesInv, Exists, Marked
<1>1. ASSUME NEW c \in Calls, NEW op \in Op, NEW u \in Users, Begin(c, op, u)
      PROVE  LikesInv'
  <2>1. LikesOwed' = LikesOwed /\ LikesTaken' = LikesTaken
    BY <1>1 DEF Begin, Idle, TypeOK, Call, LikesOwed, LikesTaken, At, Vote
  <2>2. UNCHANGED <<visibility, likes, mark>>
    BY <1>1 DEF Begin, video
  <2>. QED
    BY <1>0, <2>1, <2>2
<1>2. ASSUME NEW c \in Calls, FindMark(c)
      PROVE  LikesInv'
  <2>1. LikesOwed' = LikesOwed /\ LikesTaken' = LikesTaken
    BY <1>2 DEF FindMark, TypeOK, Call, LikesOwed, LikesTaken, At, Vote
  <2>2. UNCHANGED <<visibility, likes, mark>>
    BY <1>2 DEF FindMark, video
  <2>. QED
    BY <1>0, <2>1, <2>2
<1>3. ASSUME NEW c \in Calls, FindSubscription(c)
      PROVE  LikesInv'
  <2>1. LikesOwed' = LikesOwed /\ LikesTaken' = LikesTaken
    BY <1>3 DEF FindSubscription, Membership, TypeOK, Call, LikesOwed, LikesTaken, At, Vote
  <2>2. UNCHANGED <<visibility, likes, mark>>
    BY <1>3 DEF FindSubscription, video
  <2>. QED
    BY <1>0, <2>1, <2>2
<1>4. ASSUME NEW c \in Calls, WriteSubscription(c)
      PROVE  LikesInv'
  <2>1. LikesOwed' = LikesOwed /\ LikesTaken' = LikesTaken
    BY <1>4 DEF WriteSubscription, Membership, Goto, TypeOK, Call, LikesOwed, LikesTaken, At, Vote
  <2>2. UNCHANGED <<visibility, likes, mark>>
    BY <1>4 DEF WriteSubscription, video
  <2>. QED
    BY <1>0, <2>1, <2>2
<1>5. ASSUME NEW c \in Calls, CountSubscription(c)
      PROVE  LikesInv'
  <2>1. LikesOwed' = LikesOwed /\ LikesTaken' = LikesTaken
    BY <1>5 DEF CountSubscription, Membership, Goto, TypeOK, Call, LikesOwed, LikesTaken, At, Vote
  <2>2. UNCHANGED <<visibility, likes, mark>>
    BY <1>5 DEF CountSubscription, video
  <2>. QED
    BY <1>0, <2>1, <2>2
<1>6. ASSUME NEW c \in Calls, Watch(c)
      PROVE  LikesInv'
  <2>1. LikesOwed' = LikesOwed /\ LikesTaken' = LikesTaken
    BY <1>6 DEF Watch, Goto, TypeOK, Call, LikesOwed, LikesTaken, At, Vote
  <2>2. UNCHANGED <<visibility, likes, mark>>
    BY <1>6 DEF Watch, video
  <2>. QED
    BY <1>0, <2>1, <2>2
<1>7. ASSUME NEW c \in Calls, Comment(c)
      PROVE  LikesInv'
  <2>1. LikesOwed' = LikesOwed /\ LikesTaken' = LikesTaken
    BY <1>7 DEF Comment, Goto, TypeOK, Call, LikesOwed, LikesTaken, At, Vote
  <2>2. UNCHANGED <<visibility, likes, mark>>
    BY <1>7 DEF Comment, video
  <2>. QED
    BY <1>0, <2>1, <2>2
<1>8. ASSUME NEW c \in Calls, Track(c)
      PROVE  LikesInv'
  <2>1. LikesOwed' = LikesOwed /\ LikesTaken' = LikesTaken
    BY <1>8 DEF Track, Goto, TypeOK, Call, LikesOwed, LikesTaken, At, Vote
  <2>2. UNCHANGED <<visibility, likes, mark>>
    BY <1>8 DEF Track, video
  <2>. QED
    BY <1>0, <2>1, <2>2
<1>9. ASSUME NEW c \in Calls, Fail(c)
      PROVE  LikesInv'
  <2>1. LikesOwed' = LikesOwed /\ LikesTaken' = LikesTaken
    BY <1>9 DEF Fail, Goto, OneAtATime, TypeOK, Call, LikesOwed, LikesTaken, At, Vote
  <2>2. UNCHANGED <<visibility, likes, mark>>
    BY <1>9 DEF Fail, video
  <2>. QED
    BY <1>0, <2>1, <2>2
<1>10. ASSUME NEW c \in Calls, WriteMark(c)
      PROVE  LikesInv'
  <2>. DEFINE u == call[c].user
  <2>1. /\ Exists /\ UNCHANGED <<visibility, likes>> /\ u \in Users
        /\ mark' = [mark EXCEPT ![u] = call[c].op]
        /\ call' = [call EXCEPT ![c] =
             [op |-> call[c].op, user |-> u, step |-> "written", seen |-> call[c].seen]]
        /\ call[c].step = "found" /\ call[c].op \in Vote
    BY <1>10 DEF WriteMark, Goto, At, TypeOK, Call
  <2>2. call[c].seen = mark[u] /\ mark[u] # call[c].op /\ LikesInv
    BY <1>10, <2>1 DEF FreshInv, At
  <2>3. c \notin LikesOwed /\ c \notin LikesTaken
    BY <2>1 DEF LikesOwed, LikesTaken, At
  <2>. DEFINE k == Cardinality(Marked("like"))
              o == Cardinality(LikesOwed)
              t == Cardinality(LikesTaken)
  <2>4. k \in Nat /\ o \in Nat /\ t \in Nat /\ likes = k - o + t /\ likes' = likes
    BY <2>1, <2>2, LikesCounted DEF LikesInv
  <2>5. CASE call[c].op = "like"
    <3>1. Marked("like")' = Marked("like") \cup {u} /\ u \notin Marked("like")
      BY <2>1, <2>2, <2>5 DEF Marked, TypeOK
    <3>2. LikesOwed' = LikesOwed \cup {c} /\ LikesTaken' = LikesTaken
      BY <2>1, <2>5 DEF LikesOwed, LikesTaken, At, TypeOK
    <3>3. Cardinality(Marked("like"))' = k + 1 /\ Cardinality(LikesOwed)' = o + 1
          /\ Cardinality(LikesTaken)' = t
      BY <2>3, <3>1, <3>2, LikesCounted, FS_AddElement
    <3>. HIDE DEF k, o, t
    <3>. QED
      BY <2>4, <3>3 DEF LikesInv
  <2>6. CASE call[c].op = "dislike" /\ mark[u] = "like"
    <3>1. Marked("like")' = Marked("like") \ {u} /\ u \in Marked("like")
      BY <2>1, <2>2, <2>6 DEF Marked, TypeOK
    <3>2. LikesOwed' = LikesOwed /\ LikesTaken' = LikesTaken \cup {c}
      BY <2>1, <2>2, <2>6 DEF LikesOwed, LikesTaken, At, TypeOK
    <3>3. Cardinality(Marked("like"))' = k - 1
      <4>1. IsFiniteSet(Marked("like"))
        BY LikesCounted
      <4>2. Cardinality(Marked("like") \ {u}) = k - 1
        <5>. HIDE DEF u
        <5>. QED
          BY <3>1, <4>1, FS_RemoveElement
      <4>. QED
        BY <3>1, <4>2
    <3>4. Cardinality(LikesOwed)' = o /\ Cardinality(LikesTaken)' = t + 1
      BY <2>3, <3>2, LikesCounted, FS_AddElement
    <3>. HIDE DEF k, o, t
    <3>. QED
      BY <2>4, <3>3, <3>4 DEF LikesInv
  <2>7. CASE call[c].op = "dislike" /\ mark[u] # "like"
    <3>1. Marked("like")' = Marked("like")
      BY <2>1, <2>2, <2>7 DEF Marked, TypeOK
    <3>2. LikesOwed' = LikesOwed /\ LikesTaken' = LikesTaken
      BY <2>1, <2>2, <2>7 DEF LikesOwed, LikesTaken, At, TypeOK
    <3>. QED
      BY <2>4, <3>1, <3>2 DEF LikesInv
  <2>. QED
    BY <2>1, <2>5, <2>6, <2>7 DEF Vote
<1>11. ASSUME NEW c \in Calls, CountVote(c)
      PROVE  LikesInv'
  <2>1. /\ Exists /\ UNCHANGED <<visibility, mark>>
        /\ call' = [call EXCEPT ![c] =
             [op |-> call[c].op, user |-> call[c].user, step |-> "done", seen |-> call[c].seen]]
        /\ call[c].step = "written" /\ call[c].op \in Vote
        /\ likes' = IF call[c].op = "like" THEN likes + 1
                    ELSE IF call[c].seen = "none" THEN likes ELSE likes - 1
    BY <1>11 DEF CountVote, Goto, At, TypeOK
  <2>2. call[c].seen # call[c].op /\ call[c].seen \in Mark /\ LikesInv
    BY <1>11, <2>1 DEF FreshInv, At, SeenInv
  <2>3. Marked("like")' = Marked("like")
    BY <2>1 DEF Marked
  <2>. DEFINE k == Cardinality(Marked("like"))
              o == Cardinality(LikesOwed)
              t == Cardinality(LikesTaken)
  <2>4. k \in Nat /\ o \in Nat /\ t \in Nat /\ likes = k - o + t
    BY <2>2, LikesCounted DEF LikesInv
  <2>5. CASE call[c].op = "like"
    <3>1. c \in LikesOwed /\ LikesOwed' = LikesOwed \ {c} /\ LikesTaken' = LikesTaken
      BY <2>1, <2>5 DEF LikesOwed, LikesTaken, At, TypeOK
    <3>2. Cardinality(LikesOwed)' = o - 1 /\ Cardinality(LikesTaken)' = t
          /\ Cardinality(Marked("like"))' = k
      BY <2>3, <3>1, LikesCounted, FS_RemoveElement
    <3>3. likes' = likes + 1
      BY <2>1, <2>5
    <3>. HIDE DEF k, o, t
    <3>. QED
      BY <2>4, <3>2, <3>3 DEF LikesInv
  <2>6. CASE call[c].op = "dislike" /\ call[c].seen = "like"
    <3>1. c \in LikesTaken /\ LikesTaken' = LikesTaken \ {c} /\ LikesOwed' = LikesOwed
      BY <2>1, <2>6 DEF LikesOwed, LikesTaken, At, TypeOK
    <3>2. Cardinality(LikesTaken)' = t - 1 /\ Cardinality(LikesOwed)' = o
          /\ Cardinality(Marked("like"))' = k
      BY <2>3, <3>1, LikesCounted, FS_RemoveElement
    <3>3. likes' = likes - 1
      BY <2>1, <2>6
    <3>. HIDE DEF k, o, t
    <3>. QED
      BY <2>4, <3>2, <3>3 DEF LikesInv
  <2>7. CASE call[c].op = "dislike" /\ call[c].seen = "none"
    <3>1. LikesTaken' = LikesTaken /\ LikesOwed' = LikesOwed
      BY <2>1, <2>7 DEF LikesOwed, LikesTaken, At, TypeOK
    <3>2. likes' = likes
      BY <2>1, <2>7
    <3>. QED
      BY <2>2, <2>3, <3>1, <3>2 DEF LikesInv
  <2>. QED
    BY <2>1, <2>2, <2>5, <2>6, <2>7 DEF Vote, Mark
<1>12. ASSUME NEW v \in Visibility, SetVisibility(v)
      PROVE  LikesInv'
  <2>1. Exists /\ UNCHANGED <<likes, mark, call>>
    BY <1>12 DEF SetVisibility
  <2>. QED
    BY <2>1 DEF LikesInv, Marked, LikesOwed, LikesTaken, At
<1>13. CASE Delete
  BY <1>13 DEF Delete, Exists
<1>14. CASE UNCHANGED vars
  BY <1>14 DEF vars, video, LikesInv, Exists, Marked, LikesOwed, LikesTaken, At
<1>. HIDE DEF LikesInv, Exists
<1>. QED
  BY <1>1, <1>2, <1>3, <1>4, <1>5, <1>6, <1>7, <1>8, <1>9, <1>10, <1>11, <1>12, <1>13, <1>14
  DEF Next, Step

(* When nobody is in flight and nothing was lost, nothing is owed. *)
LEMMA BetweenCalls ==
  ASSUME IInv, SequentialInv, OneAtATime
  PROVE  Exact
<1>. USE EngagementAssumption
<1>. SUFFICES ASSUME Exists, \A c \in Calls : ~ InFlight(c)
              PROVE  /\ likes = Cardinality(Marked("like"))
                     /\ dislikes = Cardinality(Marked("dislike"))
                     /\ subscribers = Cardinality(subscribed)
  BY DEF Exact
<1>1. \A c \in Calls : call[c].step # "written" /\ call[c].step # "lost"
  BY DEF InFlight, OneAtATime
<1>2. FirstVotes = {} /\ Joining = {} /\ Leaving = {} /\ LikesOwed = {} /\ LikesTaken = {}
  BY <1>1 DEF FirstVotes, Joining, Leaving, Owed, LikesOwed, LikesTaken, At
<1>3. Cardinality({}) = 0
  BY FS_EmptySet
<1>4. TypeOK /\ VotesAddUp /\ SubscribersAddUp /\ LikesInv
  BY DEF IInv, SequentialInv
<1>. DEFINE k == Cardinality(Marked("like"))
            m == Cardinality(Marked("dislike"))
            b == Cardinality(Users \ Marked("none"))
            s == Cardinality(subscribed)
<1>5. k \in Nat /\ m \in Nat /\ b = k + m
  <2>1. Users \ Marked("none") = Marked("like") \cup Marked("dislike")
    BY <1>4 DEF Marked, TypeOK, Mark
  <2>2. Marked("like") \cap Marked("dislike") = {}
    BY DEF Marked
  <2>3. IsFiniteSet(Marked("like")) /\ IsFiniteSet(Marked("dislike"))
    <3>1. Marked("like") \subseteq Users /\ Marked("dislike") \subseteq Users
      BY DEF Marked
    <3>. QED
      BY <3>1, FS_Subset
  <2>4. k \in Nat /\ m \in Nat
    BY <2>3, FS_CardinalityType
  <2>5. b = k + m - 0
    <3>1. Cardinality(Marked("like") \cup Marked("dislike")) =
            k + m - Cardinality(Marked("like") \cap Marked("dislike"))
      BY <2>3, FS_Union
    <3>. QED
      BY <1>3, <2>1, <2>2, <3>1
  <2>. HIDE DEF k, m, b
  <2>. QED
    BY <2>4, <2>5
<1>6. likes = k - 0 + 0 /\ likes + dislikes = b - 0 /\ subscribers = s - 0 + 0
  BY <1>2, <1>3, <1>4 DEF LikesInv, VotesAddUp, SubscribersAddUp
<1>7. s \in Nat /\ likes \in Int /\ dislikes \in Int
  BY <1>4, Counted DEF TypeOK
<1>. HIDE DEF k, m, b, s
<1>8. likes = k /\ dislikes = m /\ subscribers = s
  BY <1>5, <1>6, <1>7
<1>. QED
  BY <1>8 DEF k, m, s

(* As long as the calls of a user do not overlap and none fails between a row
   and its counter, each counter is exact whenever no call is at work
   (video.repository.ts:286, 326). *)
THEOREM SequentialCallsAreExact == Spec => SequentialIsExact
<1>1. Init => SequentialInv
  <2>. SUFFICES ASSUME Init PROVE SequentialInv
    OBVIOUS
  <2>1. LikesOwed = {} /\ LikesTaken = {} /\ Marked("like") = {}
    BY DEF Init, LikesOwed, LikesTaken, Marked, At, Idle
  <2>2. LikesInv
    BY <2>1, FS_EmptySet DEF Init, LikesInv
  <2>3. FreshInv
    BY DEF Init, FreshInv, At, Idle, Vote
  <2>. QED
    BY <2>2, <2>3 DEF SequentialInv
<1>2. IInv /\ SequentialInv /\ OneAtATime /\ OneAtATime' /\ [Next]_vars => SequentialInv'
  BY FreshStep, LikesStep DEF IInv, SequentialInv
<1>3. IInv /\ SequentialInv /\ OneAtATime => Exact
  BY BetweenCalls
<1>. QED
  BY <1>1, <1>2, <1>3, InvHolds, PTL DEF Spec, SequentialIsExact
=============================================================================
