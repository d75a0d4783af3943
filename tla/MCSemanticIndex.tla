--------------------------- MODULE MCSemanticIndex ---------------------------
(* Small instances of SemanticIndex for TLC. *)
EXTENDS SemanticIndex

Said(pause, length, noise, blank) ==
  [pause |-> pause, length |-> length, noise |-> noise, blank |-> blank]

(* Short and clear, long and noisy after a pause, and blank. *)
MCUtterances ==
  {Said(0, 1, 0, FALSE), Said(1, 2, 100, FALSE), Said(0, 1, 0, TRUE), Said(2, 1, 20, FALSE)}
=============================================================================
