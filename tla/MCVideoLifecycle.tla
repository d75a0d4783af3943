-------------------------- MODULE MCVideoLifecycle --------------------------
(* Small instances of VideoLifecycle for TLC. *)
EXTENDS VideoLifecycle, TLC

Symmetric == Permutations(Jobs) \cup Permutations(Updates)
=============================================================================
