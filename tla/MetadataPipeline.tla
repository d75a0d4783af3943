-------------------------- MODULE MetadataPipeline --------------------------
(***************************************************************************)
(* How a change of a video's title or description reaches the search index *)
(* and how its answer comes back: updateVideo, the broker's queues, the    *)
(* consumer and the dead-letter consumer of search_service, the answer     *)
(* consumer of api_service, and the deletion of the video.                 *)
(*                                                                         *)
(* One video: changes of different videos touch different rows and points. *)
(* The broker is reliable and its messages persistent; what fails is the   *)
(* processing of a message, a consumer process, or its connection.         *)
(***************************************************************************)
EXTENDS Naturals, SequencesExt

CONSTANTS
  Changes,     \* ids of the updateVideo calls, also their correlation ids
  None,        \* not a change
  MaxRetries,  \* MAX_RETRIES of the dead-letter consumer (3 in the code)
  MaxLosses    \* bound: deliveries that end without an ack or a reject

ASSUME PipelineAssumption ==
  /\ None \notin Changes
  /\ MaxRetries \in Nat \ {0}
  /\ MaxLosses \in Nat

VARIABLES
  row,       \* who last wrote each field of the Video row
  mproc,     \* status of the META processing rows
  call,      \* the updateVideo calls
  erase,     \* the deleteVideo call
  transfer,  \* queue video.metadata.transfer
  consumer,  \* the unacknowledged message of the consumer (prefetch 1)
  stray,     \* handlers still running although their delivery was lost
  index,     \* the change whose payload the video's point in Qdrant holds
  dead,      \* queue video.metadata.dead-letter
  retrier,   \* the unacknowledged message of the dead-letter consumer
  answers,   \* "succeeded" answers in queue video.metadata.response
  losses,    \* deliveries lost so far
  sent,      \* history: the changes are numbered as they are published
  answered   \* history: the changes whose success has been published

api    == <<row, mproc, call, erase>>
search == <<consumer, stray, index>>
retry  == <<dead, retrier>>
vars   == <<row, mproc, call, erase, transfer, consumer, stray, index, dead, retrier,
            answers, losses, sent, answered>>

-----------------------------------------------------------------------------
(* The data *)

Fields    == {"title", "desc"}
Content   == [Fields -> Changes \cup {None}]

Call      == [begun : BOOLEAN, fields : SUBSET Fields, left : SUBSET {"row", "publish"}]
Letter    == [msg : Changes, deaths : Nat]  \* a message with its x-death count
NoLetter  == [msg |-> None, deaths |-> 0]
Held      == Letter \cup {NoLetter}
Idle      == [letter |-> NoLetter, stage |-> "idle"]

TypeOK ==
  /\ row \in [content : Content, present : BOOLEAN]
  /\ mproc \in [Changes -> {"none", "PROCESSING", "COMPLETED"}]
  /\ call \in [Changes -> Call]
  /\ erase \in [begun : BOOLEAN, left : SUBSET {"row", "point"}]
  /\ transfer \in Seq(Letter)
  /\ consumer \in [letter : Held, stage : {"idle", "index", "answer", "ack"}]
  /\ stray \in SUBSET (Changes \X {"index", "answer"})
  /\ index \in Changes \cup {None}
  /\ dead \in Seq(Letter)
  /\ retrier \in [letter : Held, stage : {"idle", "wait", "ack"}]
  /\ answers \in [Changes -> Nat]
  /\ losses \in 0 .. MaxLosses
  /\ sent \in [last : Nat, at : [Changes -> Nat]]
  /\ answered \in SUBSET Changes

Init ==
  /\ row = [content |-> [f \in Fields |-> None], present |-> TRUE]
  /\ mproc = [u \in Changes |-> "none"]
  /\ call = [u \in Changes |-> [begun |-> FALSE, fields |-> {}, left |-> {}]]
  /\ erase = [begun |-> FALSE, left |-> {}]
  /\ transfer = <<>>
  /\ consumer = Idle
  /\ stray = {}
  /\ index = None
  /\ dead = <<>>
  /\ retrier = Idle
  /\ answers = [u \in Changes |-> 0]
  /\ losses = 0
  /\ sent = [last |-> 0, at |-> [u \in Changes |-> 0]]
  /\ answered = {}

-----------------------------------------------------------------------------
(* api_service: updateVideo, its publisher, the answers, deleteVideo *)

(* The row is committed; a change without fields carries only hashtags. *)
CommitRow(u, fs) ==
  /\ ~ call[u].begun
  /\ row.present
  /\ row' = [row EXCEPT !.content = [f \in Fields |-> IF f \in fs THEN u ELSE row.content[f]]]
  /\ call' = [call EXCEPT ![u] = [begun |-> TRUE, fields |-> fs, left |-> {"row", "publish"}]]
  /\ UNCHANGED <<mproc, erase, transfer, search, retry, answers, losses, sent, answered>>

(* The META row and the message, under Promise.all. *)
SendRow(u) ==
  /\ "row" \in call[u].left
  /\ row.present
  /\ mproc' = [mproc EXCEPT ![u] = "PROCESSING"]
  /\ call' = [call EXCEPT ![u].left = @ \ {"row"}]
  /\ UNCHANGED <<row, erase, transfer, search, retry, answers, losses, sent, answered>>

SendMessage(u) ==
  /\ "publish" \in call[u].left
  /\ transfer' = Append(transfer, [msg |-> u, deaths |-> 0])
  /\ sent' = [last |-> sent.last + 1, at |-> [sent.at EXCEPT ![u] = sent.last + 1]]
  /\ call' = [call EXCEPT ![u].left = @ \ {"publish"}]
  /\ UNCHANGED <<row, mproc, erase, search, retry, answers, losses, answered>>

SendFails(u, s) ==
  /\ s \in call[u].left
  /\ call' = [call EXCEPT ![u].left = @ \ {s}]
  /\ UNCHANGED <<row, mproc, erase, transfer, search, retry, answers, losses, sent, answered>>

(* Mutant: a missing row is created by the answer. *)
UpsertAnswer(u) ==
  /\ answers[u] > 0
  /\ mproc' = [mproc EXCEPT ![u] = "COMPLETED"]
  /\ answers' = [answers EXCEPT ![u] = @ - 1]
  /\ UNCHANGED <<row, call, erase, transfer, search, retry, losses, sent, answered>>

(* Mutant: the status of the upload, not the one of the row, is written. *)
WrongStatusAnswer(u) ==
  /\ answers[u] > 0
  /\ mproc[u] # "none"
  /\ mproc' = [mproc EXCEPT ![u] = "PROCESSED"]
  /\ answers' = [answers EXCEPT ![u] = @ - 1]
  /\ UNCHANGED <<row, call, erase, transfer, search, retry, losses, sent, answered>>

(* Mutant: a status the handler does not know. *)
AnswerIgnored(u) ==
  /\ answers[u] > 0
  /\ mproc[u] # "none"
  /\ answers' = [answers EXCEPT ![u] = @ - 1]
  /\ UNCHANGED <<row, mproc, call, erase, transfer, search, retry, losses, sent, answered>>

(* handleVideoMetadataRespone.  Without the row the update throws and the
   answer is requeued; answers are taken in any order (prefetch 10). *)
HandleAnswer(u) ==
  /\ answers[u] > 0
  /\ mproc[u] # "none"
  /\ mproc' = [mproc EXCEPT ![u] = "COMPLETED"]
  /\ answers' = [answers EXCEPT ![u] = @ - 1]
  /\ UNCHANGED <<row, call, erase, transfer, search, retry, losses, sent, answered>>

(* The api process dies between the update and the ack. *)
AnswerRepeats(u) ==
  /\ answers[u] > 0
  /\ mproc[u] # "none"
  /\ mproc' = [mproc EXCEPT ![u] = "COMPLETED"]
  /\ UNCHANGED <<row, call, erase, transfer, search, retry, answers, losses, sent, answered>>

(* deleteVideo: the row with its cascade and the point, under Promise.all. *)
DeleteFind ==
  /\ ~ erase.begun
  /\ row.present
  /\ erase' = [begun |-> TRUE, left |-> {"row", "point"}]
  /\ UNCHANGED <<row, mproc, call, transfer, search, retry, answers, losses, sent, answered>>

DeleteRow ==
  /\ "row" \in erase.left
  /\ row' = [row EXCEPT !.present = FALSE]
  /\ mproc' = [u \in Changes |-> "none"]
  /\ erase' = [erase EXCEPT !.left = @ \ {"row"}]
  /\ UNCHANGED <<call, transfer, search, retry, answers, losses, sent, answered>>

DeletePoint ==
  /\ "point" \in erase.left
  /\ index' = None
  /\ erase' = [erase EXCEPT !.left = @ \ {"point"}]
  /\ UNCHANGED <<row, mproc, call, transfer, consumer, stray, retry, answers, losses, sent, answered>>

DeleteFails(p) ==
  /\ p \in erase.left
  /\ erase' = [erase EXCEPT !.left = @ \ {p}]
  /\ UNCHANGED <<row, mproc, call, transfer, search, retry, answers, losses, sent, answered>>

-----------------------------------------------------------------------------
(* search_service: the consumer *)

Deliver ==
  /\ consumer.stage = "idle"
  /\ transfer # <<>>
  /\ consumer' = [letter |-> Head(transfer), stage |-> "index"]
  /\ transfer' = Tail(transfer)
  /\ UNCHANGED <<api, stray, index, retry, answers, losses, sent, answered>>

(* process_metadata replaces the whole point by what the payload carries:
   a field that is not in it is lost. *)
Point(u) == [f \in Fields |-> IF u # None /\ f \in call[u].fields THEN u ELSE None]

Index ==
  /\ consumer.stage = "index"
  /\ index' = consumer.letter.msg
  /\ consumer' = [consumer EXCEPT !.stage = "answer"]
  /\ UNCHANGED <<api, transfer, stray, retry, answers, losses, sent, answered>>

PublishAnswer(u) ==
  /\ answers' = [answers EXCEPT ![u] = @ + 1]
  /\ answered' = answered \cup {u}

Answer ==
  /\ consumer.stage = "answer"
  /\ PublishAnswer(consumer.letter.msg)
  /\ consumer' = [consumer EXCEPT !.stage = "ack"]
  /\ UNCHANGED <<api, transfer, stray, index, retry, losses, sent>>

AckMessage ==
  /\ consumer.stage = "ack"
  /\ consumer' = Idle
  /\ UNCHANGED <<api, transfer, stray, index, retry, answers, losses, sent, answered>>

(* Mutant: the transfer queue has no dead-letter exchange. *)
RejectDrops ==
  /\ consumer.stage \in {"index", "answer"}
  /\ consumer' = Idle
  /\ UNCHANGED <<api, transfer, stray, index, retry, answers, losses, sent, answered>>

(* The handler throws: process(requeue=False) rejects the message, and the
   broker dead-letters it and counts its death. *)
Reject ==
  /\ consumer.stage \in {"index", "answer"}
  /\ dead' = Append(dead, [msg |-> consumer.letter.msg, deaths |-> consumer.letter.deaths + 1])
  /\ consumer' = Idle
  /\ UNCHANGED <<api, transfer, stray, index, retrier, answers, losses, sent, answered>>

(* The process dies: the broker puts the message back where it was. *)
ConsumerCrash ==
  /\ losses < MaxLosses
  /\ consumer.stage # "idle"
  /\ transfer' = <<consumer.letter>> \o transfer
  /\ consumer' = Idle
  /\ losses' = losses + 1
  /\ UNCHANGED <<api, stray, index, retry, answers, sent, answered>>

(* The connection drops: the message goes back, its handler goes on. *)
ConnectionLost ==
  /\ losses < MaxLosses
  /\ consumer.stage \in {"index", "answer"}
  /\ transfer' = <<consumer.letter>> \o transfer
  /\ stray' = stray \cup {<<consumer.letter.msg, consumer.stage>>}
  /\ consumer' = Idle
  /\ losses' = losses + 1
  /\ UNCHANGED <<api, index, retry, answers, sent, answered>>

StrayIndex(u) ==
  /\ <<u, "index">> \in stray
  /\ index' = u
  /\ stray' = (stray \ {<<u, "index">>}) \cup {<<u, "answer">>}
  /\ UNCHANGED <<api, transfer, consumer, retry, answers, losses, sent, answered>>

StrayAnswer(u) ==
  /\ <<u, "answer">> \in stray
  /\ PublishAnswer(u)
  /\ stray' = stray \ {<<u, "answer">>}
  /\ UNCHANGED <<api, transfer, consumer, index, retry, losses, sent>>

StrayEnds(h) ==
  /\ h \in stray
  /\ stray' = stray \ {h}
  /\ UNCHANGED <<api, transfer, consumer, index, retry, answers, losses, sent, answered>>

-----------------------------------------------------------------------------
(* search_service: the dead-letter consumer *)

TakeDead ==
  /\ retrier.stage = "idle"
  /\ dead # <<>>
  /\ retrier' = [letter |-> Head(dead), stage |-> "wait"]
  /\ dead' = Tail(dead)
  /\ UNCHANGED <<api, transfer, search, answers, losses, sent, answered>>

(* Mutant: the message is republished to the exchange it came from. *)
RepublishToMain ==
  /\ transfer' = Append(transfer, retrier.letter)
  /\ retrier' = [retrier EXCEPT !.stage = "ack"]
  /\ UNCHANGED <<api, search, dead, answers, losses, sent, answered>>

(* After the delay, to the exchange that start_dlq_consumer binds: the
   dead-letter exchange, whose only queue is this one.  The headers are kept. *)
Republish ==
  /\ dead' = Append(dead, retrier.letter)
  /\ retrier' = [retrier EXCEPT !.stage = "ack"]
  /\ UNCHANGED <<api, transfer, search, answers, losses, sent, answered>>

(* The "failed" answer has a str for a body: building it throws, and the
   rejected message is dropped, for this queue has no dead-letter exchange. *)
GiveUp ==
  /\ retrier' = Idle
  /\ UNCHANGED <<api, transfer, search, dead, answers, losses, sent, answered>>

HandleDeadLetter ==
  /\ retrier.stage = "wait"
  /\ IF retrier.letter.deaths >= MaxRetries THEN GiveUp ELSE Republish

AckDead ==
  /\ retrier.stage = "ack"
  /\ retrier' = Idle
  /\ UNCHANGED <<api, transfer, search, dead, answers, losses, sent, answered>>

RetrierCrash ==
  /\ losses < MaxLosses
  /\ retrier.stage # "idle"
  /\ dead' = <<retrier.letter>> \o dead
  /\ retrier' = Idle
  /\ losses' = losses + 1
  /\ UNCHANGED <<api, transfer, search, answers, sent, answered>>

-----------------------------------------------------------------------------
(* The next-state relation *)

Healthy ==
  \/ \E u \in Changes :
       \/ \E fs \in SUBSET Fields : CommitRow(u, fs)
       \/ SendRow(u) \/ SendMessage(u) \/ HandleAnswer(u)
  \/ Deliver \/ Index \/ Answer \/ AckMessage

Deletion == DeleteFind \/ DeleteRow \/ DeletePoint

Failure ==
  \/ \E u \in Changes, s \in {"row", "publish"} : SendFails(u, s)
  \/ \E p \in {"row", "point"} : DeleteFails(p)
  \/ Reject
  \/ TakeDead \/ HandleDeadLetter \/ AckDead

Crash == ConsumerCrash \/ RetrierCrash \/ \E u \in Changes : AnswerRepeats(u)

Disconnection ==
  \/ ConnectionLost
  \/ \E u \in Changes : StrayIndex(u) \/ StrayAnswer(u)
  \/ \E h \in stray : StrayEnds(h)

Next == Healthy \/ Deletion \/ Failure \/ Crash \/ Disconnection

Spec == Init /\ [][Next]_vars

(* Both consumers and the calls in flight make progress; nothing has to fail. *)
Progress ==
  /\ WF_vars(Deliver) /\ WF_vars(Index) /\ WF_vars(Answer) /\ WF_vars(AckMessage)
  /\ WF_vars(TakeDead) /\ WF_vars(HandleDeadLetter) /\ WF_vars(AckDead)
  /\ \A u \in Changes : WF_vars(SendRow(u)) /\ WF_vars(SendMessage(u)) /\ WF_vars(HandleAnswer(u))

FairSpec == Spec /\ Progress

-----------------------------------------------------------------------------
(* Properties *)

Published(u) == sent.at[u] > 0

(* The index goes back to an older change only by a handler that outlives its
   delivery, although messages are redelivered after crashes and rejected ones
   are retried: with prefetch 1 they are indexed in the order of publication. *)
IndexMovesForward ==
  [][index # None /\ index' # None =>
       sent.at[index] =< sent.at[index'] \/ stray' # stray]_index

(* A published message is answered or somewhere between the queues: neither a
   crash nor a lost connection nor a failing handler loses it. *)
InFlight(u) ==
  \/ \E l \in ToSet(transfer) \cup ToSet(dead) : l.msg = u
  \/ consumer.letter.msg = u
  \/ retrier.letter.msg = u
NothingLost == \A u \in Changes : Published(u) => u \in answered \/ InFlight(u)

(* The pipeline is what VideoLifecycle takes it for. *)
MessageStatus ==
  [u \in Changes |-> IF u \in answered THEN "succeeded"
                     ELSE IF Published(u) THEN "queued" ELSE "none"]
Channel == INSTANCE MetadataChannel WITH message <- MessageStatus, row <- mproc
ImplementsChannel == Channel!ChannelSpec

(* A META row does not stay PROCESSING once its message is published, unless the
   consumer rejects that message: the answer may come before the row or after
   the deletion, and other messages circulate among the dead letters. *)
Rejected(u) == (\E l \in ToSet(dead) : l.msg = u) \/ retrier.letter.msg = u
EveryChangeSettles ==
  \A u \in Changes : Published(u) ~> mproc[u] # "PROCESSING" \/ Rejected(u)

(* Why the rejected are excepted: with the code's limit a message that has been
   rejected stays among the dead letters for ever (dlq_consumer.py:46). *)
RejectedForGood == [][\A u \in Changes : Rejected(u) => Rejected(u)']_vars

(* A failed message does not loop (docs/process_docs.md:520). *)
DeadLettersSettle ==
  \A u \in Changes : (\E l \in ToSet(dead) : l.msg = u)
    ~> (\A l \in ToSet(dead) : l.msg # u) /\ retrier.letter.msg # u

-----------------------------------------------------------------------------
(* The inductive invariants behind the safety properties *)

(* A consumer holds a letter exactly while it is not idle. *)
HeldInv ==
  /\ consumer.stage = "idle" <=> consumer.letter = NoLetter
  /\ retrier.stage = "idle" <=> retrier.letter = NoLetter

(* What is about to be acknowledged has been passed on. *)
AckInv ==
  /\ consumer.stage = "ack" => consumer.letter.msg \in answered
  /\ retrier.stage = "ack" => retrier.letter \in ToSet(dead)

(* A branch of Promise.all that is still to run has left no trace. *)
CallInv ==
  \A u \in Changes :
    /\ ~ call[u].begun => call[u].left = {} /\ mproc[u] = "none" /\ ~ Published(u)
    /\ "row" \in call[u].left => mproc[u] = "none"
    /\ "publish" \in call[u].left => ~ Published(u)

(* Only published messages are handled, and only answers that the consumer
   has published come in. *)
AnswerInv ==
  /\ \A l \in ToSet(transfer) : Published(l.msg)
  /\ consumer.stage # "idle" => Published(consumer.letter.msg)
  /\ \A h \in stray : Published(h[1])
  /\ \A u \in Changes : answers[u] > 0 => u \in answered
  /\ \A u \in answered : Published(u)
  /\ index # None => Published(index)

(* A message dies at most once: it never comes back from the dead letters. *)
DeathInv ==
  /\ \A l \in ToSet(transfer) : l.deaths = 0
  /\ consumer.letter.deaths = 0
  /\ \A l \in ToSet(dead) : l.deaths = 1
  /\ retrier.stage # "idle" => retrier.letter.deaths = 1

PipeInv == TypeOK /\ HeldInv /\ AckInv /\ CallInv /\ AnswerInv /\ DeathInv

(* Messages wait in the order of their publication, behind the one in hand,
   nothing newer than them has been indexed, and no stray handler has a newer
   one. *)
OrderInv ==
  /\ \A u \in Changes : sent.at[u] =< sent.last
  /\ \A i, j \in 1 .. Len(transfer) :
       i < j => sent.at[transfer[i].msg] < sent.at[transfer[j].msg]
  /\ \A l \in ToSet(transfer) :
       /\ consumer.stage # "idle" => sent.at[consumer.letter.msg] < sent.at[l.msg]
       /\ index # None => sent.at[index] =< sent.at[l.msg]
  /\ index # None /\ consumer.stage # "idle" => sent.at[index] =< sent.at[consumer.letter.msg]
  /\ \A h \in stray :
       /\ \A l \in ToSet(transfer) : sent.at[h[1]] =< sent.at[l.msg]
       /\ consumer.stage # "idle" => sent.at[h[1]] =< sent.at[consumer.letter.msg]
=============================================================================
