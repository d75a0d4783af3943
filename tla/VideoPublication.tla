-------------------------- MODULE VideoPublication --------------------------
(***************************************************************************)
(* What api_service promises of one video, without its calls, jobs and     *)
(* messages: a video can be published only once it is playable and         *)
(* described, a publication is never withdrawn, and a deleted video never  *)
(* comes back.  VideoLifecycle implements it.                              *)
(***************************************************************************)
VARIABLES
  row,        \* "absent", "present" or "deleted"
  playable,   \* the row has the paths of a transcoded rendition
  described,  \* a metadata update has been indexed by the search service
  published   \* the service has made the video AVAILABLE

pvars == <<row, playable, described, published>>

PubInit == row = "absent" /\ ~ playable /\ ~ described /\ ~ published

Create ==
  /\ row = "absent"
  /\ row' = "present"
  /\ UNCHANGED <<playable, described, published>>

Render ==
  /\ row = "present"
  /\ playable' = TRUE
  /\ UNCHANGED <<row, described, published>>

Describe ==
  /\ row = "present"
  /\ described' = TRUE
  /\ UNCHANGED <<row, playable, published>>

Announce ==
  /\ row = "present"
  /\ playable /\ described
  /\ published' = TRUE
  /\ UNCHANGED <<row, playable, described>>

Delete ==
  /\ row = "present"
  /\ row' = "deleted"
  /\ ~ playable' /\ ~ described' /\ ~ published'

PubNext == Create \/ Render \/ Describe \/ Announce \/ Delete

PubSpec == PubInit /\ [][PubNext]_pvars
=============================================================================
