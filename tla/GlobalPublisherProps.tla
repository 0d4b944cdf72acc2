-------------------------- MODULE GlobalPublisherProps --------------------------
(***************************************************************************)
(* The correctness properties of the shared publisher's life cycle.        *)
(***************************************************************************)
EXTENDS GlobalPublisher

(* The type invariant. *)
TypeOK ==
  /\ globalPub \in Publishers \cup {None}
  /\ hooks \in [Publishers -> SUBSET Redacting]
  /\ exporters \in [Publishers -> SUBSET Exporting]
  /\ intake \in [Publishers -> {"unborn", "open", "closed"}]
  /\ report \in [Publishers -> {"none", "drained", "deadline"}]
  /\ registry \in SUBSET Servers
  /\ trackPc \in [Tracks -> {"idle", "register", "init", "found", "installed"}]
  /\ trackOf \in [Tracks -> Servers \cup {None}]
  /\ closure \in [Tracks -> Publishers \cup {None}]
  /\ fnOnce \in [Tracks -> {"fresh", "running", "done"}]
  /\ closePc \in [Closers ->
       {"idle", "blocked", "take", "close", "drain", "ok", "failed"}]
  /\ closeFn \in [Closers -> Tracks \cup {None}]
  /\ taken \in [Closers -> Publishers \cup {None}]
  /\ fate \in [Events -> Fates]
  /\ owner \in [Events -> Servers \cup {None}]
  /\ via \in [Events -> Publishers \cup {None}]
  /\ fed \in [Events -> SUBSET (Exporting \cup {None})]

(* No publisher is orphaned with its five workers running: one whose       *)
(* channel is open is the global one, or is in the hands of exactly one    *)
(* shutdown that has yet to close it (GetOrInit, ShutdownGlobal: both swap *)
(* globalPub under globalMu).                                              *)
NoOrphanedPublisher ==
  \A p \in Publishers :
    /\ intake[p] = "open" =>
         \/ globalPub = p
         \/ \E c \in Closers : taken[c] = p /\ closePc[c] = "close"
    /\ globalPub = p => intake[p] = "open" /\ \A c \in Closers : taken[c] # p
    /\ \A c, d \in Closers : taken[c] = p /\ taken[d] = p => c = d

(* The shutdown that took the publisher and returns nil has seen every     *)
(* event settled that any Track's closure or custom event had put into it, *)
(* and none can follow.                                                    *)
TakerDrains ==
  \A c \in Closers :
    closePc[c] = "ok" /\ taken[c] # None =>
      \A e \in Events : via[e] = taken[c] => fate[e] # "taken"

(* What an event that was taken waits for: its publisher is open, or       *)
(* another shutdown than c drains it, or gave it up at the deadline.       *)
InOtherHands(c, e) ==
  \/ intake[via[e]] # "closed"
  \/ \E d \in Closers \ {c} : taken[d] = via[e] /\ closePc[d] \in {"drain", "failed"}

(* "to ensure all queued events are published" (mcpcat.go:97), in general: *)
(* once a shutdown has returned nil, whether or not it found a publisher,  *)
(* an event that is still queued in a closed publisher is one that another *)
(* shutdown took, which is draining it still or gave up at its deadline.   *)
PublishedUnlessElsewhere ==
  \A c \in Closers : closePc[c] = "ok" =>
    \A e \in Events : fate[e] = "taken" => InOtherHands(c, e)

(* Whoever waits for a Track's shutdown function waits for a call that is  *)
(* running it, and the function takes at most one publisher in its life:   *)
(* called again after a later Track or custom event has built another, it  *)
(* leaves that one running (newShutdownFn's sync.Once).                    *)
InFn(c) == closePc[c] \in {"take", "close", "drain"}
FnShutsDownOnce ==
  \A c, d \in Closers :
    /\ closePc[c] = "blocked" =>
         \/ fnOnce[closeFn[c]] = "done"
         \/ \E b \in Closers : closeFn[b] = closeFn[c] /\ InFn(b)
    /\ closeFn[c] # None /\ closeFn[d] = closeFn[c] /\ taken[c] # None /\ taken[d] # None
         => c = d

(* A closure of a Track that outlived its publisher, and a custom event    *)
(* that chose its publisher just before a shutdown took it, do not get     *)
(* their event into a publisher nobody drains any more.                    *)
TakenByLivePublisher ==
  [][\A e \in Events : fate[e] # "taken" /\ fate'[e] = "taken" =>
       \/ globalPub = via'[e]
       \/ \E c \in Closers : taken[c] = via'[e] /\ closePc[c] = "close"]_vars

(* Who has asked GetOrInit for this publisher: the servers of the Tracks   *)
(* that captured it and of the events that went its way, None among them   *)
(* for callers without options.                                            *)
Users(p) ==
  {trackOf[t] : t \in {u \in Tracks : closure[u] = p}} \cup
  {owner[e] : e \in {d \in Events : via[d] = p}}

(* A publisher feeds the exporters of one of those who use it and list     *)
(* exporters: a Track or a custom event without any leaves those of the    *)
(* others alone (GetOrInit replaces the manager "when exporter configs are *)
(* provided").  So an event of a server that lists exporters gets to its   *)
(* own, unless another server that lists some, even unusable ones, shares  *)
(* the publisher - whatever was called between its capture and its export. *)
ExportedAsConfigured ==
  \A e \in Events : fed[e] # {None} =>
    \/ owner[e] \notin Configuring /\ fed[e] = {}
    \/ \E s \in Users(via[e]) \cap Configuring : fed[e] = {s} \cap Exporting

(* Every publisher of the process is used as EventDelivery specifies it. *)
Outcome(f) == IF f = "chosen" THEN "new" ELSE f
Delivery(p) == INSTANCE EventDelivery WITH
  outcome <- [e \in Events |-> IF via[e] = p THEN Outcome(fate[e]) ELSE "new"],
  intake <- IF intake[p] = "closed" THEN "closed" ELSE "open",
  report <- report[p]
ImplementsDelivery ==
  /\ \A p \in Publishers : Delivery(p)!Init
  /\ [][\A p \in Publishers : UNCHANGED Delivery(p)!vars \/ Delivery(p)!Next]_vars

-----------------------------------------------------------------------------
(* What the documentation says and the code does not do.                   *)

(* mcpgo.go:109: "RedactSensitiveInformation redacts sensitive data before *)
(* sending to AgentCat".  GetOrInit hands out the publisher there is,      *)
(* which runs the hooks of the caller it was built for.                    *)
RedactionHonoured ==
  \A e \in Events :
    fate[e] \in {"taken", "delivered"} /\ owner[e] \in Redacting =>
      owner[e] \in hooks[via[e]]

(* mcpgo.go:132: "Exporters configure telemetry exporters that receive     *)
(* every captured event".  A server tracked later, or a custom event for   *)
(* one, whose options list exporters, replaces those of the others.        *)
ExportersReceiveTheirEvents ==
  \A e \in Events :
    fed[e] # {None} /\ owner[e] \in Exporting => owner[e] \in fed[e]

(* custom_event.go:125: "For tracked servers, reuse the server's redaction, *)
(* API base URL, and exporter configuration".  The publisher is shared, and *)
(* has the hooks of the first to ask for it and the exporters of the last.  *)
OptionsHonoured == RedactionHonoured /\ ExportersReceiveTheirEvents

(* mcpcat.go:97: Shutdown is to be called "to ensure all queued events are *)
(* published before exit".  A Shutdown that finds the publisher taken by   *)
(* another one returns nil while that one is still draining.               *)
ShutdownEnsuresPublished ==
  [][\A c \in Closers : closePc[c] # "ok" /\ closePc'[c] = "ok" =>
       \A e \in Events : fate[e] = "taken" => intake[via[e]] # "closed"]_vars
=============================================================================
