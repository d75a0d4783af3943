--------------------------- MODULE MetadataChannel ---------------------------
(***************************************************************************)
(* The protocol between an updateVideo call of api_service and the search  *)
(* service, per change: the message, its answer, and the META row that the *)
(* answer is written to.  VideoLifecycle uses the search service through   *)
(* this protocol, and MetadataPipeline implements it.                      *)
(***************************************************************************)
CONSTANT Changes

VARIABLES
  message,  \* "none", "queued", answered "succeeded" or "failed", or "done"
  row       \* status of the META processing row

cvars == <<message, row>>

ChannelInit ==
  /\ message = [u \in Changes |-> "none"]
  /\ row = [u \in Changes |-> "none"]

CreateRow(u) ==
  /\ row[u] = "none"
  /\ row' = [row EXCEPT ![u] = "PROCESSING"]
  /\ UNCHANGED message

Send(u) ==
  /\ message[u] = "none"
  /\ message' = [message EXCEPT ![u] = "queued"]
  /\ UNCHANGED row

Reply(u, outcome) ==
  /\ message[u] = "queued"
  /\ message' = [message EXCEPT ![u] = outcome]
  /\ UNCHANGED row

(* The answer, which may come again, is written to a row that exists. *)
Settle(u) ==
  /\ \/ message[u] = "succeeded" /\ row' = [row EXCEPT ![u] = "COMPLETED"]
     \/ message[u] = "failed" /\ row' = [row EXCEPT ![u] = "FAILED"]
  /\ row[u] # "none"
  /\ message' \in {message, [message EXCEPT ![u] = "done"]}

(* The rows go with the video. *)
Cascade ==
  /\ row' = [u \in Changes |-> "none"]
  /\ UNCHANGED message

ChannelNext ==
  \/ \E u \in Changes :
       \/ CreateRow(u) \/ Send(u) \/ Settle(u)
       \/ \E outcome \in {"succeeded", "failed"} : Reply(u, outcome)
  \/ Cascade

ChannelSpec == ChannelInit /\ [][ChannelNext]_cvars
=============================================================================
