------------------------ MODULE MCTranscodeWorkspace ------------------------
(* Small instances of TranscodeWorkspace for TLC. *)
EXTENDS TranscodeWorkspace

Source(audio, w, h, seconds) ==
  [video |-> TRUE, audio |-> audio, w |-> w, h |-> h, format |-> seconds, stream |-> 0]

(* One of 360p with sound, and a silent one in two tiers that is too short for
   a thumbnail of its own. *)
MCSources == {Source(TRUE, 640, 360, 9), Source(FALSE, 1000, 480, 3)}
=============================================================================
