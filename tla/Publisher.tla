------------------------------ MODULE Publisher ------------------------------
(***************************************************************************)
(* internal/publisher: the asynchronous event publisher that every tracked *)
(* server of a process shares.  Request goroutines call Publish, which     *)
(* offers an event to a bounded channel without blocking; a pool of        *)
(* workers drains the channel, runs each event through the redaction,      *)
(* sanitization and truncation pipeline, hands it to the telemetry         *)
(* exporters and sends it to the API with bounded retries; Shutdown closes *)
(* the channel, interrupts retry backoffs and waits, under a deadline, for *)
(* the workers and then for the telemetry exports.                         *)
(*                                                                         *)
(* One action is one step between two synchronisation points of the Go     *)
(* code: a mutex or channel operation, a call into customer code, a send   *)
(* attempt.  Logging is left out.                                          *)
(***************************************************************************)
EXTENDS Naturals, Sequences, FiniteSets

CONSTANTS
  Events,        \* events ever built; each is published by at most one call
  TelemetryOnly, \* the events whose ProjectId is "" (no API send)
  Producers,     \* request goroutines calling Publish
  Workers,       \* MaxWorkers publisher goroutines
  Closers,       \* goroutines calling Shutdown
  HooksGiven,    \* which of redactEventFn and redactFn New was given
  Managers,      \* telemetry managers ever built by NewManager
  Exporters,     \* exporters of a manager
  QueueSize,     \* capacity of the channel
  MaxRetries,    \* retries after a failed first attempt
  None           \* nil

ASSUME PublisherAssumption ==
  /\ TelemetryOnly \subseteq Events
  /\ HooksGiven \subseteq {"redactEvent", "redact"}
  /\ QueueSize \in Nat \ {0}
  /\ MaxRetries \in Nat
  /\ Workers # {}
  /\ None \notin Events \cup Managers \cup Producers

VARIABLES
  queue,      \* the buffered channel
  closed,     \* p.closed, set and close(p.queue) run in one critical section
  closeMu,    \* the producer holding p.closeMu, or None
  shutdownCh, \* close(p.shutdownCh) has run
  telemetry,  \* p.telemetry: the installed manager, or None
  inflight,   \* export goroutines that have not ended
  offer,      \* the event each producer is publishing, or None
  pubPc,      \* where its Publish call stands
  workPc,     \* where each worker stands
  work,       \* the event it is publishing, or None
  attempt,    \* loop counter of its send loop
  once,       \* p.shutdownOnce: "fresh", "running" or "done"
  closePc,    \* where each Shutdown call stands
  expired,    \* the deadline of the running Shutdown has passed
  verdict,    \* what its wait for the workers saw, or "none"
  fate,       \* history: what has become of each event
  stages      \* history: pipeline stages applied to each event

pubVars   == <<offer, pubPc>>
workVars  == <<workPc, work, attempt>>
closeVars == <<shutdownCh, once, closePc, expired, verdict>>
teleVars  == <<telemetry, inflight>>
vars == <<queue, closed, closeMu, teleVars, pubVars, workVars,
          closeVars, fate, stages>>

Stages == {"redactEvent", "redact", "sanitize", "truncate"}

(* Fates an accepted event can end in, and all fates. *)
Resolved == {"delivered", "telemetryOnly", "redactedAway", "abandoned",
             "gaveUp", "panicked"}
Fates    == {"new", "offered", "rejected", "accepted"} \cup Resolved

PubPcs   == {"idle", "lock", "locked", "sending"}
WorkPcs  == {"receive", "redactEvent", "redact", "sanitize", "truncate",
             "export", "send", "backoff", "exited"}
ClosePcs == {"idle", "blocked", "close", "signal", "drain", "await",
             "returned"}

Exports == [manager : Managers, exporter : Exporters, event : Events]

(* New: an empty channel, idle workers, exporters if any are configured. *)
Init ==
  /\ queue = <<>> /\ closed = FALSE /\ closeMu = None
  /\ telemetry \in Managers \cup {None} /\ inflight = {}
  /\ offer = [p \in Producers |-> None]
  /\ pubPc = [p \in Producers |-> "idle"]
  /\ workPc = [w \in Workers |-> "receive"]
  /\ work = [w \in Workers |-> None]
  /\ attempt = [w \in Workers |-> 0]
  /\ shutdownCh = FALSE /\ once = "fresh"
  /\ closePc = [c \in Closers |-> "idle"]
  /\ expired = FALSE /\ verdict = "none"
  /\ fate = [e \in Events |-> "new"]
  /\ stages = [e \in Events |-> {}]

-----------------------------------------------------------------------------
(* Publish.  closeMu is held from the check of p.closed to the send.       *)
(*                                                                         *)
(* Here and below, a definition marked "Fault" is what a bug would make of *)
(* the definition it precedes; the specification does not use it.          *)

PublishCall(p, e) ==
  /\ pubPc[p] = "idle" /\ fate[e] = "new"
  /\ offer' = [offer EXCEPT ![p] = e]
  /\ pubPc' = [pubPc EXCEPT ![p] = "lock"]
  /\ fate' = [fate EXCEPT ![e] = "offered"]
  /\ UNCHANGED <<queue, closed, closeMu, teleVars, workVars, closeVars, stages>>

PublishGoto(p, pc) ==
  /\ pubPc' = [pubPc EXCEPT ![p] = pc]
  /\ UNCHANGED <<queue, closed, teleVars, offer, workVars, closeVars, fate,
                 stages>>

PublishLock(p) ==
  /\ pubPc[p] = "lock" /\ closeMu = None
  /\ closeMu' = p
  /\ PublishGoto(p, "locked")

(* Fault: the closed flag is not looked at. *)
PublishUnchecked(p) ==
  /\ pubPc[p] = "locked"
  /\ PublishGoto(p, "sending")
  /\ UNCHANGED closeMu

PublishOpen(p) ==
  /\ pubPc[p] = "locked" /\ ~closed
  /\ PublishGoto(p, "sending")
  /\ UNCHANGED closeMu

PublishReturn(p, outcome) ==
  /\ closeMu' = None
  /\ offer' = [offer EXCEPT ![p] = None]
  /\ pubPc' = [pubPc EXCEPT ![p] = "idle"]
  /\ fate' = [fate EXCEPT ![offer[p]] = outcome]
  /\ UNCHANGED <<closed, teleVars, workVars, closeVars, stages>>

PublishSend(p) ==
  /\ pubPc[p] = "sending" /\ Len(queue) < QueueSize
  /\ queue' = Append(queue, offer[p])
  /\ PublishReturn(p, "accepted")

(* Fault: the path of the full channel returns without unlocking. *)
PublishRejectLocked(p) ==
  /\ \/ pubPc[p] = "locked" /\ closed
     \/ pubPc[p] = "sending" /\ Len(queue) = QueueSize
  /\ offer' = [offer EXCEPT ![p] = None]
  /\ fate' = [fate EXCEPT ![offer[p]] = "rejected"]
  /\ pubPc' = [pubPc EXCEPT ![p] = "idle"]
  /\ UNCHANGED <<queue, closed, closeMu, teleVars, workVars, closeVars, stages>>

(* Shutting down, or the channel is full: the newest event is dropped. *)
PublishReject(p) ==
  /\ \/ pubPc[p] = "locked" /\ closed
     \/ pubPc[p] = "sending" /\ Len(queue) = QueueSize
  /\ PublishReturn(p, "rejected")
  /\ UNCHANGED queue

-----------------------------------------------------------------------------
(* Workers: `for event := range p.queue { p.safePublishEvent(event) }`.    *)

WorkerGoto(w, pc) ==
  /\ workPc' = [workPc EXCEPT ![w] = pc]
  /\ UNCHANGED <<closed, closeMu, telemetry, pubVars, closeVars>>

Receive(w) ==
  /\ workPc[w] = "receive" /\ queue # <<>>
  /\ queue' = Tail(queue)
  /\ work' = [work EXCEPT ![w] = Head(queue)]
  /\ WorkerGoto(w, "redactEvent")
  /\ UNCHANGED <<inflight, attempt, fate, stages>>

(* Fault: the worker stops at the shutdown signal instead of draining. *)
WorkerExitUndrained(w) ==
  /\ workPc[w] = "receive" /\ shutdownCh
  /\ WorkerGoto(w, "exited")
  /\ UNCHANGED <<queue, inflight, work, attempt, fate, stages>>

(* range ends only on a channel that is both closed and empty. *)
WorkerExit(w) ==
  /\ workPc[w] = "receive" /\ queue = <<>> /\ closed
  /\ WorkerGoto(w, "exited")
  /\ UNCHANGED <<queue, inflight, work, attempt, fate, stages>>

(* publishEvent returned, or was recovered: the event's fate is settled. *)
Settle(w, outcome) ==
  /\ WorkerGoto(w, "receive")
  /\ fate' = [fate EXCEPT ![work[w]] = outcome]
  /\ work' = [work EXCEPT ![w] = None]
  /\ attempt' = [attempt EXCEPT ![w] = 0]
  /\ UNCHANGED <<queue, stages>>

(* A stage leaves the event with the worker and moves on to pc. *)
Stage(w, applied, pc) ==
  /\ stages' = [stages EXCEPT ![work[w]] = @ \cup applied]
  /\ WorkerGoto(w, pc)
  /\ UNCHANGED <<queue, inflight, work, attempt, fate>>

(* The event-level hook keeps the event, ... *)
ApplyEventRedaction(w) ==
  /\ workPc[w] = "redactEvent"
  /\ Stage(w, HooksGiven \cap {"redactEvent"}, "redact")

(* Fault: an event whose hook failed is published as it is. *)
EventRedactionFailsOpen(w) ==
  /\ workPc[w] = "redactEvent" /\ "redactEvent" \in HooksGiven
  /\ Stage(w, {}, "redact")

(* ... or returns nil or an error, or panics: the event is dropped. *)
EventRedactionDrops(w) ==
  /\ workPc[w] = "redactEvent" /\ "redactEvent" \in HooksGiven
  /\ Settle(w, "redactedAway")
  /\ UNCHANGED inflight

(* A panic of redactFn is caught per string, so the stage completes. *)
RedactEvent(w) ==
  /\ workPc[w] = "redact"
  /\ Stage(w, HooksGiven \cap {"redact"}, "sanitize")

(* runStage: a panic in the stage leaves the event as far as it got, and   *)
(* the pipeline goes on.                                                   *)
RunStage(w, stage, next) ==
  /\ workPc[w] = stage
  /\ Stage(w, {stage}, next)

(* ExportAsync loads the manager once and starts a goroutine for each of   *)
(* its exporters.                                                          *)
Fanout(e) ==
  inflight \cup [manager : {telemetry} \ {None}, exporter : Exporters,
                 event : {e}]

ExportAsync(w) ==
  /\ workPc[w] = "export" /\ work[w] \notin TelemetryOnly
  /\ inflight' = Fanout(work[w])
  /\ WorkerGoto(w, "send")
  /\ UNCHANGED <<queue, work, attempt, fate, stages>>

(* Without a project ID nothing is sent to the API. *)
ExportOnly(w) ==
  /\ workPc[w] = "export" /\ work[w] \in TelemetryOnly
  /\ inflight' = Fanout(work[w])
  /\ Settle(w, "telemetryOnly")

SendSucceeds(w) ==
  /\ workPc[w] = "send"
  /\ Settle(w, "delivered")
  /\ UNCHANGED inflight

(* Fault: one attempt too many. *)
SendFailsOnceMore(w) ==
  /\ workPc[w] = "send" /\ attempt[w] <= MaxRetries
  /\ attempt' = [attempt EXCEPT ![w] = @ + 1]
  /\ WorkerGoto(w, "backoff")
  /\ UNCHANGED <<queue, inflight, work, fate, stages>>

(* Fault: the attempts are not counted. *)
SendFailsUncounted(w) ==
  /\ workPc[w] = "send"
  /\ WorkerGoto(w, "backoff")
  /\ UNCHANGED <<queue, inflight, work, attempt, fate, stages>>

(* Fault: the event goes back to the channel as well as into the backoff. *)
SendFailsRequeued(w) ==
  /\ workPc[w] = "send" /\ attempt[w] < MaxRetries
  /\ attempt' = [attempt EXCEPT ![w] = @ + 1]
  /\ queue' = Append(queue, work[w])
  /\ WorkerGoto(w, "backoff")
  /\ UNCHANGED <<inflight, work, fate, stages>>

SendFails(w) ==
  /\ workPc[w] = "send" /\ attempt[w] < MaxRetries
  /\ attempt' = [attempt EXCEPT ![w] = @ + 1]
  /\ WorkerGoto(w, "backoff")
  /\ UNCHANGED <<queue, inflight, work, fate, stages>>

GiveUp(w) ==
  /\ workPc[w] = "send" /\ attempt[w] >= MaxRetries
  /\ Settle(w, "gaveUp")
  /\ UNCHANGED inflight

(* The select between the backoff timer and shutdownCh: when both are      *)
(* ready Go picks either.                                                  *)
BackoffElapses(w) ==
  /\ workPc[w] = "backoff"
  /\ WorkerGoto(w, "send")
  /\ UNCHANGED <<queue, inflight, work, attempt, fate, stages>>

AbandonRetries(w) ==
  /\ workPc[w] = "backoff" /\ shutdownCh
  /\ Settle(w, "abandoned")
  /\ UNCHANGED inflight

(* safePublishEvent: a panic outside the guarded stages drops the event    *)
(* and keeps the worker.                                                   *)
RecoverPanic(w) ==
  /\ workPc[w] \in {"redact", "export", "send"}
  /\ Settle(w, "panicked")
  /\ UNCHANGED inflight

-----------------------------------------------------------------------------
(* Telemetry.                                                              *)

(* An Export call ended: success, error or recovered panic. *)
ExportEnds(x) ==
  /\ inflight' = inflight \ {x}
  /\ UNCHANGED <<queue, closed, closeMu, telemetry, pubVars, workVars,
                 closeVars, fate, stages>>

(* GetOrInit on an existing publisher, with exporters configured, replaces *)
(* the installed manager by a fresh one.  A publisher stops being the one  *)
(* GetOrInit finds before it is shut down.  Managers bounds replacements:  *)
(* a model value stands for a fresh manager again once its exports ended.  *)
SetTelemetryManager(m) ==
  /\ once = "fresh" /\ m # telemetry
  /\ \A x \in inflight : x.manager # m
  /\ telemetry' = m
  /\ UNCHANGED <<queue, closed, closeMu, inflight, pubVars, workVars,
                 closeVars, fate, stages>>

-----------------------------------------------------------------------------
(* Shutdown.                                                               *)

CloserGoto(c, pc) ==
  /\ closePc' = [closePc EXCEPT ![c] = pc]
  /\ UNCHANGED <<queue, closeMu, teleVars, pubVars, workVars, expired,
                 fate, stages>>

(* shutdownOnce.Do: the first caller runs the body, every other waits until *)
(* that body has ended and returns nil.                                     *)
ShutdownEnter(c) ==
  /\ closePc[c] = "idle"
  /\ once' = IF once = "fresh" THEN "running" ELSE once
  /\ CloserGoto(c, IF once = "fresh" THEN "close" ELSE "blocked")
  /\ UNCHANGED <<closed, shutdownCh, verdict>>

ShutdownUnblocked(c) ==
  /\ closePc[c] = "blocked" /\ once = "done"
  /\ CloserGoto(c, "returned")
  /\ UNCHANGED <<closed, shutdownCh, once, verdict>>

(* Fault: the channel is closed without taking closeMu. *)
ShutdownCloseUnlocked(c) ==
  /\ closePc[c] = "close"
  /\ closed' = TRUE
  /\ CloserGoto(c, "signal")
  /\ UNCHANGED <<shutdownCh, once, verdict>>

(* closeMu.Lock(); closed = true; close(queue); closeMu.Unlock() *)
ShutdownClose(c) ==
  /\ closePc[c] = "close" /\ closeMu = None
  /\ closed' = TRUE
  /\ CloserGoto(c, "signal")
  /\ UNCHANGED <<shutdownCh, once, verdict>>

ShutdownSignal(c) ==
  /\ closePc[c] = "signal"
  /\ shutdownCh' = TRUE
  /\ CloserGoto(c, "drain")
  /\ UNCHANGED <<closed, once, verdict>>

AllExited == \A w \in Workers : workPc[w] = "exited"

(* Fault: the drain is not bounded by the deadline. *)
ShutdownDrainUnbounded(c) ==
  /\ closePc[c] = "drain" /\ AllExited
  /\ verdict' = "drained"
  /\ CloserGoto(c, "await")
  /\ UNCHANGED <<closed, shutdownCh, once>>

(* Fault: an empty channel is taken for a finished drain. *)
ShutdownDrainEmpty(c) ==
  /\ closePc[c] = "drain"
  /\ \/ queue = <<>> /\ verdict' = "drained"
     \/ expired /\ verdict' = "deadline"
  /\ CloserGoto(c, "await")
  /\ UNCHANGED <<closed, shutdownCh, once>>

(* The select between wg.Wait() having returned and ctx.Done(): at the     *)
(* deadline the error is kept and the workers go on.                       *)
ShutdownDrain(c) ==
  /\ closePc[c] = "drain"
  /\ \/ AllExited /\ verdict' = "drained"
     \/ expired /\ verdict' = "deadline"
  /\ CloserGoto(c, "await")
  /\ UNCHANGED <<closed, shutdownCh, once>>

(* Fault: the exports are not waited for. *)
ShutdownForgetsExports(c) ==
  /\ closePc[c] = "await"
  /\ once' = "done"
  /\ CloserGoto(c, "returned")
  /\ UNCHANGED <<closed, shutdownCh, verdict>>

(* telemetry.Load().Wait(ctx), if there is a manager; the once body ends. *)
ShutdownReturns(c) ==
  /\ closePc[c] = "await"
  /\ (\A x \in inflight : x.manager # telemetry) \/ expired
  /\ once' = "done"
  /\ CloserGoto(c, "returned")
  /\ UNCHANGED <<closed, shutdownCh, verdict>>

(* A context without a deadline gets one of five seconds, so every running *)
(* Shutdown has one.                                                       *)
DeadlineExpires ==
  /\ once = "running" /\ ~expired
  /\ expired' = TRUE
  /\ UNCHANGED <<queue, closed, closeMu, teleVars, pubVars, workVars,
                 shutdownCh, once, closePc, verdict, fate, stages>>

-----------------------------------------------------------------------------
PublishStep(p) ==
  PublishLock(p) \/ PublishOpen(p) \/ PublishSend(p) \/ PublishReject(p)

(* The worker is in a redaction hook the customer configured. *)
RunHook(w) ==
  /\ workPc[w] \in HooksGiven
  /\ ApplyEventRedaction(w) \/ EventRedactionDrops(w) \/ RedactEvent(w)

WorkerStep(w) ==
  \/ Receive(w) \/ WorkerExit(w)
  \/ ApplyEventRedaction(w) \/ EventRedactionDrops(w) \/ RedactEvent(w)
  \/ RunStage(w, "sanitize", "truncate") \/ RunStage(w, "truncate", "export")
  \/ ExportAsync(w) \/ ExportOnly(w)
  \/ SendSucceeds(w) \/ SendFails(w) \/ GiveUp(w)
  \/ BackoffElapses(w) \/ AbandonRetries(w)
  \/ RecoverPanic(w)

(* The steps of a Shutdown call that has begun. *)
CloserStep(c) ==
  \/ ShutdownUnblocked(c) \/ ShutdownClose(c) \/ ShutdownSignal(c)
  \/ ShutdownDrain(c) \/ ShutdownReturns(c)

(* The publisher has come to rest for good: nothing is left to do. *)
Terminated ==
  /\ \A e \in Events : fate[e] \in Resolved \cup {"rejected"}
  /\ \A c \in Closers : closePc[c] = "returned"
  /\ AllExited /\ inflight = {}
  /\ UNCHANGED vars

Next ==
  \/ \E p \in Producers, e \in Events : PublishCall(p, e)
  \/ \E p \in Producers : PublishStep(p)
  \/ \E w \in Workers : WorkerStep(w)
  \/ \E x \in inflight : ExportEnds(x)
  \/ \E m \in Managers : SetTelemetryManager(m)
  \/ \E c \in Closers : ShutdownEnter(c) \/ CloserStep(c)
  \/ DeadlineExpires
  \/ Terminated

Spec == Init /\ [][Next]_vars

(* The SDK's own goroutines keep running: Go hands the mutex over fairly,  *)
(* send attempts (RequestTimeout), exports (HTTP timeouts) and backoffs    *)
(* end, deadlines pass.  Nobody has to call Publish or Shutdown, and a     *)
(* customer's redaction hook may hang.                                     *)
Fairness ==
  /\ \A p \in Producers : SF_vars(PublishLock(p)) /\ WF_vars(PublishStep(p))
  /\ \A w \in Workers : WF_vars(WorkerStep(w) /\ workPc[w] \notin HooksGiven)
  /\ \A x \in Exports : WF_vars(x \in inflight /\ ExportEnds(x))
  /\ \A c \in Closers : SF_vars(ShutdownClose(c)) /\ WF_vars(CloserStep(c))
  /\ WF_vars(DeadlineExpires)

(* The hooks do return. *)
HooksReturn == \A w \in Workers : WF_vars(RunHook(w))

FairSpec == Spec /\ Fairness
=============================================================================
