---------------------------- MODULE GlobalPublisher ----------------------------
(***************************************************************************)
(* The one publisher a process shares, and its users.  Track gives every   *)
(* server a closure over the publisher GetOrInit returned at that time;    *)
(* PublishCustomEvent looks the publisher up anew for every event;         *)
(* agentcat.Shutdown and the shutdown function of any Track take the       *)
(* publisher away for everybody, after which GetOrInit builds another one. *)
(*                                                                         *)
(* A publisher is what EventDelivery says of it: Publisher.tla implements  *)
(* that specification.                                                     *)
(***************************************************************************)
EXTENDS Naturals, FiniteSets

CONSTANTS
  Servers,    \* the customer's MCP servers
  Redacting,  \* those whose options have a redaction hook
  Configuring, \* those whose options list exporters,
  Exporting,  \* and those of which at least one of the list initializes
  Tracks,     \* calls of Track, and the closures they install
  Closers,    \* calls of a shutdown function
  Events,
  Publishers, \* publishers New may ever build
  None        \* nil

ASSUME GlobalAssumption ==
  /\ Redacting \subseteq Servers
  /\ Exporting \subseteq Configuring /\ Configuring \subseteq Servers
  /\ None \notin Servers \cup Tracks \cup Publishers

(* Each publisher but the last was taken by a shutdown, so as many are     *)
(* enough.                                                                 *)
ASSUME EnoughPublishers ==
  IsFiniteSet(Closers) => Cardinality(Publishers) > Cardinality(Closers)

VARIABLES
  globalPub, \* under globalMu
  hooks,     \* of each publisher: the server whose hooks it runs, if any
  exporters, \* of each publisher: the server whose exporters it feeds, if any
             \* (an empty manager feeds none, like no manager)
  intake,    \* of each publisher: "unborn", "open" or "closed"
  report,    \* of each publisher's Shutdown: "none", "drained", "deadline"
  registry,  \* the servers that have an instance
  trackPc, trackOf, \* where each Track stands, and its server
  closure,   \* the publisher captured by the closure of each Track
  fnOnce,    \* sync.Once of the shutdown function each Track returned
  closePc, closeFn, \* where each shutdown stands, and whose function it is
  taken,     \* the publisher each shutdown took
  fate, owner, via, \* of each event: what became of it, its server, its publisher
  fed        \* of each event: whose exporters got it; {None} before the fan-out

pubVars   == <<globalPub, hooks, exporters, intake>>
trackVars == <<registry, trackPc, trackOf, closure>>
eventVars == <<fate, owner, via, fed>>
closeVars == <<fnOnce, closePc, closeFn, taken, report>>
vars == <<pubVars, trackVars, eventVars, closeVars>>

Fates == {"new", "chosen", "refused", "taken", "delivered", "lost"}

Init ==
  /\ globalPub = None
  /\ hooks = [p \in Publishers |-> {}]
  /\ exporters = [p \in Publishers |-> {}]
  /\ intake = [p \in Publishers |-> "unborn"]
  /\ report = [p \in Publishers |-> "none"]
  /\ registry = {}
  /\ trackPc = [t \in Tracks |-> "idle"] /\ trackOf = [t \in Tracks |-> None]
  /\ closure = [t \in Tracks |-> None]
  /\ fnOnce = [t \in Tracks |-> "fresh"]
  /\ closePc = [c \in Closers |-> "idle"] /\ closeFn = [c \in Closers |-> None]
  /\ taken = [c \in Closers |-> None]
  /\ fate = [e \in Events |-> "new"] /\ owner = [e \in Events |-> None]
  /\ via = [e \in Events |-> None]
  /\ fed = [e \in Events |-> {None}]

-----------------------------------------------------------------------------
(* GetOrInit, under globalMu, for the options of server s; None stands for *)
(* a caller without options.                                               *)

(* Fault: a caller with exporters of its own gets a publisher of its own. *)
GetOrInitRebuilds(s, p) ==
  /\ \/ intake[p] = "unborn" /\ (globalPub = None \/ s \in Configuring)
     \/ globalPub = p /\ s \notin Configuring
  /\ globalPub' = p
  /\ intake' = [intake EXCEPT ![p] = "open"]
  /\ hooks' = IF globalPub = p THEN hooks
              ELSE [hooks EXCEPT ![p] = {s} \cap Redacting]
  /\ exporters' = [exporters EXCEPT ![p] = @ \cup ({s} \cap Exporting)]

(* Fault: the manager is replaced whether or not exporters are given. *)
GetOrInitResets(s, p) ==
  /\ \/ globalPub = None /\ intake[p] = "unborn"
     \/ globalPub = p
  /\ globalPub' = p
  /\ intake' = [intake EXCEPT ![p] = "open"]
  /\ hooks' = IF globalPub = p THEN hooks
              ELSE [hooks EXCEPT ![p] = {s} \cap Redacting]
  /\ exporters' = [exporters EXCEPT ![p] = {s} \cap Exporting]

(* Fault: options without hooks are taken for hooks. *)
NewNilHooks(s, p) ==
  /\ globalPub = None /\ intake[p] = "unborn"
  /\ globalPub' = p
  /\ intake' = [intake EXCEPT ![p] = "open"]
  /\ hooks' = [hooks EXCEPT ![p] = {s}]
  /\ exporters' = [exporters EXCEPT ![p] = {s} \cap Exporting]

(* NewManager keeps those of the configured exporters that initialize, *)
(* which may be none.                                                  *)
New(s, p) ==
  /\ globalPub = None /\ intake[p] = "unborn"
  /\ globalPub' = p
  /\ intake' = [intake EXCEPT ![p] = "open"]
  /\ hooks' = [hooks EXCEPT ![p] = {s} \cap Redacting]
  /\ exporters' = [exporters EXCEPT ![p] = {s} \cap Exporting]

(* What exists already keeps its hooks; a list of exporters replaces the   *)
(* manager it has, even when none of the list initializes.                 *)
Reuse(s, p) ==
  /\ globalPub = p
  /\ exporters' = IF s \in Configuring
                  THEN [exporters EXCEPT ![p] = {s} \cap Exporting]
                  ELSE exporters
  /\ UNCHANGED <<globalPub, intake, hooks>>

GetOrInit(s, p) == New(s, p) \/ Reuse(s, p)

-----------------------------------------------------------------------------
(* Track.                                                                  *)

(* GetInstance: a server that is found has nothing installed again. *)
TrackCall(t, s) ==
  /\ trackPc[t] = "idle"
  /\ trackOf' = [trackOf EXCEPT ![t] = s]
  /\ trackPc' = [trackPc EXCEPT
       ![t] = IF s \in registry THEN "found" ELSE "register"]
  /\ UNCHANGED <<pubVars, registry, closure, eventVars, closeVars>>

TrackRegister(t) ==
  /\ trackPc[t] = "register"
  /\ registry' = registry \cup {trackOf[t]}
  /\ trackPc' = [trackPc EXCEPT ![t] = "init"]
  /\ UNCHANGED <<pubVars, trackOf, closure, eventVars, closeVars>>

(* InitPublisher, and the middleware that uses its closure. *)
InitPublisher(t, p) ==
  /\ trackPc[t] = "init"
  /\ GetOrInit(trackOf[t], p)
  /\ closure' = [closure EXCEPT ![t] = p]
  /\ trackPc' = [trackPc EXCEPT ![t] = "installed"]
  /\ UNCHANGED <<registry, trackOf, eventVars, closeVars>>

-----------------------------------------------------------------------------
(* Events.                                                                 *)

(* Fault: a closed publisher takes events. *)
PublishUnchecked(e, p) ==
  /\ intake[p] # "unborn"
  /\ fate' = [fate EXCEPT ![e] = "taken"]

(* Publish refuses when the publisher is closed or its channel is full. *)
Publish(e, p) ==
  \E f \in {"taken", "refused"} :
    /\ f = "taken" => intake[p] = "open"
    /\ fate' = [fate EXCEPT ![e] = f]

(* A tool call on a tracked server publishes through the Track's closure. *)
ToolCall(t, e) ==
  /\ trackPc[t] = "installed" /\ fate[e] = "new"
  /\ owner' = [owner EXCEPT ![e] = trackOf[t]]
  /\ via' = [via EXCEPT ![e] = closure[t]]
  /\ Publish(e, closure[t])
  /\ UNCHANGED <<pubVars, trackVars, fed, closeVars>>

(* PublishCustomEvent, for a tracked server or (None) a session ID string. *)
(* A call it refuses, or one for a server that disabled tracing, changes   *)
(* nothing.                                                                *)
CustomEvent(e, s, p) ==
  /\ fate[e] = "new" /\ s \in registry \cup {None}
  /\ GetOrInit(s, p)
  /\ owner' = [owner EXCEPT ![e] = s]
  /\ via' = [via EXCEPT ![e] = p]
  /\ fate' = [fate EXCEPT ![e] = "chosen"]
  /\ UNCHANGED <<trackVars, fed, closeVars>>

CustomPublish(e) ==
  /\ fate[e] = "chosen"
  /\ Publish(e, via[e])
  /\ UNCHANGED <<pubVars, trackVars, owner, via, fed, closeVars>>

(* A worker of the publisher hands the event to the manager there is then. *)
ExportAsync(e) ==
  /\ fate[e] = "taken" /\ fed[e] = {None}
  /\ fed' = [fed EXCEPT ![e] = exporters[via[e]]]
  /\ UNCHANGED <<pubVars, trackVars, fate, owner, via, closeVars>>

(* The worker is done with the event: sent, given up after its retries, or *)
(* dropped by its hooks before the fan-out.                                *)
Settle(e, f) ==
  /\ fate[e] = "taken" /\ (f = "delivered" => fed[e] # {None})
  /\ fate' = [fate EXCEPT ![e] = f]
  /\ UNCHANGED <<pubVars, trackVars, owner, via, fed, closeVars>>

-----------------------------------------------------------------------------
(* Shutdown: directly, or by the shutdown function a Track returned.       *)

ShutdownCall(c) ==
  /\ closePc[c] = "idle"
  /\ closePc' = [closePc EXCEPT ![c] = "take"]
  /\ UNCHANGED <<pubVars, trackVars, eventVars, fnOnce, closeFn, taken, report>>

ShutdownFnCall(c, t) ==
  /\ closePc[c] = "idle" /\ trackPc[t] \in {"installed", "found"}
  /\ closeFn' = [closeFn EXCEPT ![c] = t]
  /\ closePc' = [closePc EXCEPT
       ![c] = IF fnOnce[t] = "fresh" THEN "take" ELSE "blocked"]
  /\ fnOnce' = [fnOnce EXCEPT ![t] = IF @ = "fresh" THEN "running" ELSE @]
  /\ UNCHANGED <<pubVars, trackVars, eventVars, taken, report>>

(* The call returns nil or an error, and with it the once of its function. *)
Return(c, pc) ==
  /\ closePc' = [closePc EXCEPT ![c] = pc]
  /\ fnOnce' = [t \in Tracks |-> IF t = closeFn[c] THEN "done" ELSE fnOnce[t]]
  /\ UNCHANGED <<trackVars, eventVars, closeFn>>

(* A call that came while the function ran, or later, returns nil. *)
ShutdownFnUnblocked(c) ==
  /\ closePc[c] = "blocked" /\ fnOnce[closeFn[c]] = "done"
  /\ Return(c, "ok")
  /\ UNCHANGED <<pubVars, taken, report>>

(* Fault: globalPub is not reset. *)
TakeGlobalKeeps(c) ==
  /\ closePc[c] = "take" /\ globalPub # None
  /\ taken' = [taken EXCEPT ![c] = globalPub]
  /\ closePc' = [closePc EXCEPT ![c] = "close"]
  /\ UNCHANGED <<pubVars, trackVars, eventVars, fnOnce, closeFn, report>>

(* ShutdownGlobal takes the publisher under globalMu ... *)
TakeGlobal(c) ==
  /\ closePc[c] = "take" /\ globalPub # None
  /\ taken' = [taken EXCEPT ![c] = globalPub]
  /\ globalPub' = None
  /\ closePc' = [closePc EXCEPT ![c] = "close"]
  /\ UNCHANGED <<hooks, exporters, intake, trackVars, eventVars, fnOnce,
                 closeFn, report>>

(* ... and returns nil at once if there is none, ... *)
TakeNothing(c) ==
  /\ closePc[c] = "take" /\ globalPub = None
  /\ Return(c, "ok")
  /\ UNCHANGED <<pubVars, taken, report>>

(* ... or shuts it down: the intake closes, ... *)
CloseIntake(c) ==
  /\ closePc[c] = "close"
  /\ intake' = [intake EXCEPT ![taken[c]] = "closed"]
  /\ closePc' = [closePc EXCEPT ![c] = "drain"]
  /\ UNCHANGED <<globalPub, hooks, exporters, trackVars, eventVars, fnOnce,
                 closeFn, taken, report>>

(* Fault: whether the workers are done is not waited for. *)
DrainForgotten(c, r) ==
  /\ closePc[c] = "drain"
  /\ report' = [report EXCEPT ![taken[c]] = r]
  /\ Return(c, IF r = "drained" THEN "ok" ELSE "failed")
  /\ UNCHANGED <<pubVars, taken>>

(* ... and the workers drain the channel, or the deadline passes. *)
Drain(c, r) ==
  /\ closePc[c] = "drain"
  /\ r = "drained" => \A e \in Events : via[e] = taken[c] => fate[e] # "taken"
  /\ report' = [report EXCEPT ![taken[c]] = r]
  /\ Return(c, IF r = "drained" THEN "ok" ELSE "failed")
  /\ UNCHANGED <<pubVars, taken>>

-----------------------------------------------------------------------------
Terminated ==
  /\ \A t \in Tracks : trackPc[t] \in {"found", "installed"}
  /\ \A c \in Closers : closePc[c] \in {"ok", "failed"}
  /\ \A e \in Events : fate[e] \in {"refused", "delivered", "lost"}
  /\ UNCHANGED vars

TrackStep(t) ==
  \/ \E s \in Servers : TrackCall(t, s)
  \/ TrackRegister(t)
  \/ \E p \in Publishers : InitPublisher(t, p)

CloserStep(c) ==
  \/ ShutdownCall(c) \/ \E t \in Tracks : ShutdownFnCall(c, t)
  \/ ShutdownFnUnblocked(c) \/ TakeGlobal(c) \/ TakeNothing(c)
  \/ CloseIntake(c) \/ \E r \in {"drained", "deadline"} : Drain(c, r)

EventStep(e) ==
  \/ \E t \in Tracks : ToolCall(t, e)
  \/ \E s \in Servers \cup {None}, p \in Publishers : CustomEvent(e, s, p)
  \/ CustomPublish(e) \/ ExportAsync(e)
  \/ \E f \in {"delivered", "lost"} : Settle(e, f)

Next ==
  \/ \E t \in Tracks : TrackStep(t)
  \/ \E c \in Closers : CloserStep(c)
  \/ \E e \in Events : EventStep(e)
  \/ Terminated

Spec == Init /\ [][Next]_vars
=============================================================================
