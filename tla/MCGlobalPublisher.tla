--------------------------- MODULE MCGlobalPublisher ---------------------------
(* Small instances of the shared publisher for TLC. *)
EXTENDS GlobalPublisherProps, TLC

(* Publishers, calls and events are interchangeable. *)
MCSymmetry ==
  Permutations(Publishers) \cup Permutations(Tracks) \cup
  Permutations(Closers) \cup Permutations(Events)
=============================================================================
