----------------------------- MODULE Engagement -----------------------------
(***************************************************************************)
(* Likes, subscriptions, comments, views and watch history of one video    *)
(* and its channel: concurrent calls of VideoService, each a chain of      *)
(* awaits, over rows and counters that are written one after the other.    *)
(*                                                                         *)
(* A call appears here once its handler has begun; a call that a check     *)
(* refuses changes nothing and is left out.                                *)
(***************************************************************************)
EXTENDS Integers, FiniteSets

CONSTANTS
  Calls,  \* calls of the five operations
  Users,
  Owner   \* of the video, which is also the channel

ASSUME EngagementAssumption ==
  /\ IsFiniteSet(Calls)
  /\ IsFiniteSet(Users)
  /\ Owner \in Users

VARIABLES
  visibility,  \* of the Video row; "gone" when the video is deleted
  likes,       \* its counters videoLike, videoDislike and videoView
  dislikes,
  views,
  mark,        \* the LikeVideo row of each user
  comments,    \* the calls whose Comment row is there
  history,     \* the users with a WatchHistory row
  subscribed,  \* the users with a Subscribe row for the channel
  subscribers, \* subscribeCount of the channel
  call

video   == <<visibility, likes, dislikes, views, mark, comments, history>>
channel == <<subscribed, subscribers>>
vars    == <<video, channel, call>>

-----------------------------------------------------------------------------
(* The data *)

Visibility == {"DRAFT", "PUBLIC", "PRIVATE"}
Mark       == {"none", "like", "dislike"}
Op         == {"like", "dislike", "subscribe", "unsubscribe", "watch", "comment", "track"}

(* "lost": the row is written and its counter never will be. *)
Call == [op   : Op \cup {"none"},
         user : Users,
         step : {"idle", "checked", "found", "written", "done", "failed", "lost"},
         seen : Mark \cup {"subscribed", "unsubscribed"}]  \* existing

Idle == [op |-> "none", user |-> Owner, step |-> "idle", seen |-> "none"]

TypeOK ==
  /\ visibility \in Visibility \cup {"gone"}
  /\ likes \in Int /\ dislikes \in Int /\ views \in Nat /\ subscribers \in Int
  /\ mark \in [Users -> Mark]
  /\ comments \subseteq Calls
  /\ history \subseteq Users
  /\ subscribed \subseteq Users
  /\ call \in [Calls -> Call]

Init ==
  /\ visibility \in Visibility
  /\ likes = 0 /\ dislikes = 0 /\ views = 0 /\ subscribers = 0
  /\ mark = [u \in Users |-> "none"]
  /\ comments = {} /\ history = {} /\ subscribed = {}
  /\ call = [c \in Calls |-> Idle]

Exists == visibility # "gone"

At(c, ops, step) == call[c].op \in ops /\ call[c].step = step

Goto(c, step) == call' = [call EXCEPT ![c] =
  [op |-> call[c].op, user |-> call[c].user, step |-> step, seen |-> call[c].seen]]

-----------------------------------------------------------------------------
(* The checks of the service *)

(* findVideo is given the caller's id: it finds nobody else's video. *)
MayEngage(u) == u = Owner /\ visibility = "PUBLIC"

MayWatch(u) == Exists /\ (u = Owner \/ visibility = "PUBLIC")

MaySubscribe(u) == u # Owner

Begin(c, op, u) ==
  /\ call[c] = Idle
  /\ CASE op \in {"subscribe", "unsubscribe"} -> MaySubscribe(u)
       [] op = "watch" -> MayWatch(u)
       [] OTHER -> MayEngage(u)
  /\ call' = [call EXCEPT ![c] = [op |-> op, user |-> u, step |-> "checked", seen |-> "none"]]
  /\ UNCHANGED <<video, channel>>

-----------------------------------------------------------------------------
(* likeOrDislikeVideo: the row, then the counters *)

Vote == {"like", "dislike"}

FindMark(c) ==
  /\ At(c, Vote, "checked")
  /\ call' = [call EXCEPT ![c] =
       [op |-> call[c].op, user |-> call[c].user, seen |-> mark[call[c].user],
        step |-> IF mark[call[c].user] = call[c].op THEN "done" ELSE "found"]]
  /\ UNCHANGED <<video, channel>>

(* Mutant: create is an upsert. *)
WriteMarkUpsert(c) ==
  /\ At(c, Vote, "found") /\ Exists
  /\ mark' = [mark EXCEPT ![call[c].user] = call[c].op]
  /\ Goto(c, "written")
  /\ UNCHANGED <<visibility, likes, dislikes, views, comments, history, channel>>

(* create needs that there is no row (its key is the pair), update that there
   is one; otherwise they throw. *)
WriteMark(c) ==
  /\ At(c, Vote, "found") /\ Exists
  /\ mark[call[c].user] = "none" <=> call[c].seen = "none"
  /\ mark' = [mark EXCEPT ![call[c].user] = call[c].op]
  /\ Goto(c, "written")
  /\ UNCHANGED <<visibility, likes, dislikes, views, comments, history, channel>>

(* Mutant: changing one's mind takes nothing from the other counter. *)
CountVoteTwice(c) ==
  /\ At(c, Vote, "written") /\ Exists
  /\ likes' = likes + (IF call[c].op = "like" THEN 1 ELSE 0)
  /\ dislikes' = dislikes + (IF call[c].op = "dislike" THEN 1 ELSE 0)
  /\ Goto(c, "done")
  /\ UNCHANGED <<visibility, views, mark, comments, history, channel>>

(* increment and decrement are atomic in the database, by what the call saw. *)
CountVote(c) ==
  /\ At(c, Vote, "written") /\ Exists
  /\ LET flip == IF call[c].seen = "none" THEN 0 ELSE 1
     IN  IF call[c].op = "like"
         THEN likes' = likes + 1 /\ dislikes' = dislikes - flip
         ELSE dislikes' = dislikes + 1 /\ likes' = likes - flip
  /\ Goto(c, "done")
  /\ UNCHANGED <<visibility, views, mark, comments, history, channel>>

-----------------------------------------------------------------------------
(* subscribeChannel: the row, then the counter *)

Membership == {"subscribe", "unsubscribe"}

(* An unsubscription that finds no row goes on as a subscription. *)
FindSubscription(c) ==
  /\ At(c, Membership, "checked")
  /\ LET is == call[c].user \in subscribed
     IN  call' = [call EXCEPT ![c] =
           [op |-> call[c].op, user |-> call[c].user,
            seen |-> IF is THEN "subscribed" ELSE "unsubscribed",
            step |-> IF is /\ call[c].op = "subscribe" THEN "done" ELSE "found"]]
  /\ UNCHANGED <<video, channel>>

(* Mutant: the row is deleted or created whether it is there or not. *)
WriteSubscriptionAnyway(c) ==
  /\ At(c, Membership, "found")
  /\ subscribed' = IF call[c].seen = "subscribed" THEN subscribed \ {call[c].user}
                   ELSE subscribed \cup {call[c].user}
  /\ Goto(c, "written")
  /\ UNCHANGED <<video, subscribers>>

(* delete throws when the row is gone, create when it is there. *)
WriteSubscription(c) ==
  /\ At(c, Membership, "found")
  /\ call[c].seen = "subscribed" <=> call[c].user \in subscribed
  /\ subscribed' = IF call[c].seen = "subscribed" THEN subscribed \ {call[c].user}
                   ELSE subscribed \cup {call[c].user}
  /\ Goto(c, "written")
  /\ UNCHANGED <<video, subscribers>>

CountSubscription(c) ==
  /\ At(c, Membership, "written")
  /\ subscribers' = IF call[c].seen = "subscribed" THEN subscribers - 1 ELSE subscribers + 1
  /\ Goto(c, "done")
  /\ UNCHANGED <<video, subscribed>>

-----------------------------------------------------------------------------
(* The others write once *)

(* watchVideo: both writes are one transaction. *)
Watch(c) ==
  /\ At(c, {"watch"}, "checked") /\ Exists
  /\ views' = views + 1
  /\ history' = history \cup {call[c].user}
  /\ Goto(c, "done")
  /\ UNCHANGED <<visibility, likes, dislikes, mark, comments, channel>>

(* Mutant: the comment does not refer to the video's row. *)
CommentFreely(c) ==
  /\ At(c, {"comment"}, "checked")
  /\ comments' = comments \cup {c}
  /\ Goto(c, "done")
  /\ UNCHANGED <<visibility, likes, dislikes, views, mark, history, channel>>

Comment(c) ==
  /\ At(c, {"comment"}, "checked") /\ Exists
  /\ comments' = comments \cup {c}
  /\ Goto(c, "done")
  /\ UNCHANGED <<visibility, likes, dislikes, views, mark, history, channel>>

(* Mutant: the row is the call's and not the user's. *)
TrackEachCall(c) ==
  /\ At(c, {"track"}, "checked") /\ Exists
  /\ history' = history \cup {c}
  /\ Goto(c, "done")
  /\ UNCHANGED <<visibility, likes, dislikes, views, mark, comments, channel>>

Track(c) ==
  /\ At(c, {"track"}, "checked") /\ Exists
  /\ history' = history \cup {call[c].user}
  /\ Goto(c, "done")
  /\ UNCHANGED <<visibility, likes, dislikes, views, mark, comments, channel>>

(* An await throws, or the process dies at it. *)
Fail(c) ==
  /\ call[c].step \in {"checked", "found", "written"}
  /\ Goto(c, IF call[c].step = "written" THEN "lost" ELSE "failed")
  /\ UNCHANGED <<video, channel>>

-----------------------------------------------------------------------------
(* The owner *)

SetVisibility(v) ==
  /\ Exists /\ v \in {"PUBLIC", "PRIVATE"} \ {visibility}
  /\ visibility' = v
  /\ UNCHANGED <<likes, dislikes, views, mark, comments, history, channel, call>>

(* The rows that refer to the video go with it. *)
Delete ==
  /\ Exists
  /\ visibility' = "gone"
  /\ likes' = 0 /\ dislikes' = 0 /\ views' = 0
  /\ mark' = [u \in Users |-> "none"]
  /\ comments' = {} /\ history' = {}
  /\ UNCHANGED <<channel, call>>

-----------------------------------------------------------------------------
Step(c) ==
  \/ FindMark(c) \/ WriteMark(c) \/ CountVote(c)
  \/ FindSubscription(c) \/ WriteSubscription(c) \/ CountSubscription(c)
  \/ Watch(c) \/ Comment(c) \/ Track(c)
  \/ Fail(c)

Next ==
  \/ \E c \in Calls : Step(c) \/ \E op \in Op, u \in Users : Begin(c, op, u)
  \/ \E v \in Visibility : SetVisibility(v)
  \/ Delete

Spec == Init /\ [][Next]_vars

-----------------------------------------------------------------------------
(* Properties *)

InFlight(c) == call[c].step \in {"checked", "found", "written"}
Owed(c)     == call[c].step \in {"written", "lost"}  \* a row without its counter

Marked(m)    == {u \in Users : mark[u] = m}
FirstVotes   == {c \in Calls : call[c].op \in Vote /\ Owed(c) /\ call[c].seen = "none"}
Joining      == {c \in Calls : Owed(c) /\ call[c].seen = "unsubscribed"}
Leaving      == {c \in Calls : Owed(c) /\ call[c].seen = "subscribed"}

(* Likes and dislikes together are the rows but for the first votes whose
   counter is still owed: two tabs that change one vote at the same time may
   put a counter off, never the sum (video.repository.ts:286). *)
VotesAddUp ==
  Exists => likes + dislikes =
    Cardinality(Users \ Marked("none")) - Cardinality(FirstVotes)

(* The channel's counter is its rows but for the calls whose counter is owed:
   a double click or a retry never counts twice (video.repository.ts:326). *)
SubscribersAddUp ==
  subscribers = Cardinality(subscribed) - Cardinality(Joining) + Cardinality(Leaving)

(* A call that checked the video before it was deleted leaves no row behind. *)
NoOrphans ==
  ~ Exists => Marked("none") = Users /\ comments = {} /\ history = {}

(* As long as the calls of a user do not overlap and none fails halfway, each
   counter is exact between calls. *)
OneAtATime ==
  /\ \A c, d \in Calls : c # d /\ call[c].user = call[d].user => ~ (InFlight(c) /\ InFlight(d))
  /\ \A c \in Calls : call[c].step # "lost"
Exact ==
  Exists /\ (\A c \in Calls : ~ InFlight(c)) =>
    /\ likes = Cardinality(Marked("like"))
    /\ dislikes = Cardinality(Marked("dislike"))
    /\ subscribers = Cardinality(subscribed)
SequentialIsExact == []OneAtATime => []Exact
-----------------------------------------------------------------------------
(* The inductive invariant: a call that owes a counter saw what it replaced,
   and what was seen says which operation sees it. *)
SeenInv ==
  \A c \in Calls :
    /\ call[c].op \in Vote => call[c].seen \in Mark
    /\ call[c].op \in Membership /\ call[c].step \in {"found", "written", "lost"} =>
         call[c].seen \in {"subscribed", "unsubscribed"}
    /\ call[c].seen \in {"subscribed", "unsubscribed"} => call[c].op \in Membership

IInv == TypeOK /\ SeenInv /\ VotesAddUp /\ SubscribersAddUp /\ NoOrphans

(* Of calls that do not overlap: what a vote saw of the user's row is what is
   still there, and the likes are the rows but for what written votes owe. *)
LikesOwed  == {c \in Calls : At(c, {"like"}, "written")}
LikesTaken == {c \in Calls : At(c, {"dislike"}, "written") /\ call[c].seen = "like"}

FreshInv ==
  \A c \in Calls :
    /\ At(c, Vote, "found") => call[c].seen = mark[call[c].user]
    /\ At(c, Vote, "found") \/ At(c, Vote, "written") => call[c].seen # call[c].op
LikesInv ==
  likes = Cardinality(Marked("like")) - Cardinality(LikesOwed) + Cardinality(LikesTaken)

SequentialInv == Exists => FreshInv /\ LikesInv
=============================================================================
