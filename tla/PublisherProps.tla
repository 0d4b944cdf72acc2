---------------------------- MODULE PublisherProps ----------------------------
(***************************************************************************)
(* The correctness properties of the publisher.                            *)
(***************************************************************************)
EXTENDS Publisher

(* The type invariant. *)
TypeOK ==
  /\ queue \in Seq(Events) /\ closed \in BOOLEAN
  /\ closeMu \in Producers \cup {None}
  /\ telemetry \in Managers \cup {None} /\ inflight \in SUBSET Exports
  /\ offer \in [Producers -> Events \cup {None}]
  /\ pubPc \in [Producers -> PubPcs]
  /\ workPc \in [Workers -> WorkPcs]
  /\ work \in [Workers -> Events \cup {None}]
  /\ attempt \in [Workers -> 0 .. MaxRetries]
  /\ shutdownCh \in BOOLEAN /\ once \in {"fresh", "running", "done"}
  /\ closePc \in [Closers -> ClosePcs]
  /\ expired \in BOOLEAN /\ verdict \in {"none", "drained", "deadline"}
  /\ fate \in [Events -> Fates]
  /\ stages \in [Events -> SUBSET Stages]

(* Publish never sends on the closed channel and Shutdown never closes it  *)
(* twice: either would panic in the goroutine of a customer's request.     *)
(* (Publish, Shutdown: "so no concurrent Publish can write to the closed   *)
(* channel".)                                                              *)
NoChannelPanic ==
  /\ \A p \in Producers : pubPc[p] = "sending" => ~closed
  /\ \A c \in Closers : closePc[c] = "close" => ~closed

InChannel == {queue[i] : i \in 1 .. Len(queue)}
InHand == {work[w] : w \in Workers} \ {None}

(* No event is lost or doubled on its way: the accepted events whose fate  *)
(* is open are those in the channel and those with a worker, each in       *)
(* exactly one place.                                                      *)
Accounting ==
  /\ \A e \in Events : fate[e] = "accepted" <=> e \in InChannel \cup InHand
  /\ \A i, j \in 1 .. Len(queue) : queue[i] = queue[j] => i = j
  /\ \A v, w \in Workers : work[v] = work[w] /\ work[v] # None => v = w
  /\ InChannel \cap InHand = {}

(* The events that may have left the process: an export of them runs, or a *)
(* worker is in its send loop, or the API has them.                        *)
Leaving(e) ==
  \/ \E x \in inflight : x.event = e
  \/ \E w \in Workers : work[w] = e /\ workPc[w] \in {"send", "backoff"}
  \/ fate[e] \in {"delivered", "telemetryOnly", "abandoned", "gaveUp"}

(* No event leaves the process before both of the customer's configured    *)
(* redaction hooks have run on it, and string redaction has run before     *)
(* sanitization or truncation rewrote the strings (publishEvent's order).  *)
RedactedBeforeLeaving ==
  \A e \in Events :
    Leaving(e) \/ stages[e] \cap {"sanitize", "truncate"} # {}
      => HooksGiven \subseteq stages[e]

(* Shutdown returns without an error only when every accepted event has    *)
(* met its fate and no worker runs (wg.Wait before close(done)).           *)
DrainedMeansSettled ==
  verdict = "drained" =>
    /\ AllExited /\ queue = <<>>
    /\ \A e \in Events : fate[e] # "accepted"

(* When Shutdown returns before its deadline, no export of the installed   *)
(* manager is still running (tm.Wait).                                     *)
ExportsAwaited ==
  once = "done" /\ ~expired => \A x \in inflight : x.manager # telemetry

(* The inductive invariant behind the safety properties, in named parts.   *)

(* A Publish call has an event of its own, and holds the mutex from the    *)
(* check of p.closed to the send.                                          *)
CallStates ==
  /\ \A p \in Producers :
       /\ pubPc[p] \in {"locked", "sending"} <=> closeMu = p
       /\ offer[p] # None <=> pubPc[p] # "idle"
       /\ offer[p] # None => fate[offer[p]] = "offered"
       /\ pubPc[p] = "sending" => ~closed
  /\ \A p, q \in Producers : offer[p] = offer[q] /\ offer[p] # None => p = q

(* A worker has an event exactly while it publishes one, and has exited    *)
(* only from the closed and empty channel.                                 *)
WorkerStates ==
  \A w \in Workers :
    /\ work[w] # None <=> workPc[w] \notin {"receive", "exited"}
    /\ workPc[w] = "exited" => closed /\ queue = <<>>

(* One Shutdown call at a time is in the body of shutdownOnce, and where   *)
(* it stands says what it has done.                                        *)
InBody(c) == closePc[c] \in {"close", "signal", "drain", "await"}
ShutdownStates ==
  /\ \A c, d \in Closers : InBody(c) /\ InBody(d) => c = d
  /\ \A c \in Closers :
       /\ InBody(c) => once = "running"
       /\ closePc[c] = "close" => ~closed
       /\ closePc[c] \in {"signal", "drain", "await"} => closed
       /\ closePc[c] \in {"close", "signal", "drain"} => verdict = "none"
       /\ closePc[c] = "await" => verdict # "none"
       /\ once = "fresh" => closePc[c] = "idle"
  /\ once = "fresh" => ~closed /\ verdict = "none"
  /\ once = "done" => verdict # "none"
  /\ verdict # "none" => closed
  /\ verdict = "drained" => AllExited
  /\ verdict = "deadline" => expired

(* How far through the pipeline an event is follows from where it is. *)
StagesAt(w, applied) ==
  /\ workPc[w] = "redactEvent" => applied = {}
  /\ workPc[w] = "redact" => applied = HooksGiven \cap {"redactEvent"}
  /\ workPc[w] \in {"sanitize", "truncate", "export", "send", "backoff"}
       => HooksGiven \subseteq applied
PipelineStates ==
  /\ \A e \in Events : fate[e] \in {"new", "offered"} => stages[e] = {}
  /\ \A i \in 1 .. Len(queue) : stages[queue[i]] = {}
  /\ \A w \in Workers : work[w] # None => StagesAt(w, stages[work[w]])
  /\ RedactedBeforeLeaving

IInv ==
  /\ TypeOK /\ CallStates /\ WorkerStates /\ ShutdownStates
  /\ Accounting /\ PipelineStates /\ ExportsAwaited

(* Once the channel is closed no event is ever accepted again, whatever    *)
(* the Publish calls that were under way then do.                          *)
NothingAcceptedAfterClose ==
  [][\A e \in Events :
       closed /\ fate'[e] = "accepted" => fate[e] = "accepted"]_vars

(* If the customer's hooks return, an event that was accepted is           *)
(* eventually delivered or given up on, even when Shutdown's deadline      *)
(* passes first: the workers go on draining the channel.                   *)
AcceptedIsSettled ==
  HooksReturn =>
    \A e \in Events : fate[e] = "accepted" ~> fate[e] \in Resolved

(* Publish returns, even with every worker stuck in a customer's hook: it  *)
(* waits for no room in the channel and for no Shutdown that is draining.  *)
PublishReturns == \A p \in Producers : pubPc[p] # "idle" ~> pubPc[p] = "idle"

(* Every Shutdown call returns, the one that runs the body and those that  *)
(* wait behind it, even with a worker stuck in a customer's hook.          *)
ShutdownTerminates ==
  \A c \in Closers : closePc[c] # "idle" ~> closePc[c] = "returned"

(* After a shutdown no goroutine of the publisher is left behind, unless a *)
(* hook never returns.                                                     *)
WorkersStop == HooksReturn => (closed ~> (AllExited /\ inflight = {}))

(* The publisher implements EventDelivery. *)
Outcome(f) ==
  CASE f \in {"new", "offered"} -> "new"
    [] f = "rejected" -> "refused"
    [] f = "accepted" -> "taken"
    [] f \in {"delivered", "telemetryOnly"} -> "delivered"
    [] OTHER -> "lost"

Delivery == INSTANCE EventDelivery WITH
  outcome <- [e \in Events |-> Outcome(fate[e])],
  intake <- IF closed THEN "closed" ELSE "open",
  report <- verdict

(* Every behaviour of the publisher is one EventDelivery allows, including *)
(* its promise that what was taken is settled and a shutdown reports.      *)
ImplementsDelivery == Delivery!Spec /\ (HooksReturn => Delivery!Fairness)

-----------------------------------------------------------------------------
(* What the documentation says and the code does not do.                   *)

(* publisher.go:352: Shutdown gives "in-flight telemetry exports a chance  *)
(* to finish within the same shutdown deadline".  Exports of a manager     *)
(* that GetOrInit has replaced are not waited for.                         *)
EveryExportAwaited == once = "done" /\ ~expired => inflight = {}
=============================================================================
