------------------------------ MODULE MCPublisher ------------------------------
(* Small instances of the publisher for TLC. *)
EXTENDS PublisherProps, TLC

(* Threads and exporters are interchangeable, and so are the events that   *)
(* carry a project ID.                                                     *)
MCSymmetry ==
  Permutations(Producers) \cup Permutations(Workers) \cup
  Permutations(Closers) \cup Permutations(Exporters) \cup
  Permutations(Events \ TelemetryOnly)
=============================================================================
