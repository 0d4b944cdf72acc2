-------------------------------- MODULE Outbound --------------------------------
(***************************************************************************)
(* What leaves the process besides the events themselves: the exports of    *)
(* TelemetryManager, whose failures are logged and so come into the buffer  *)
(* of Diagnostics, and Shutdown, which waits for the one and flushes the    *)
(* other.  The publisher's own shutdown is Publisher's; here its workers    *)
(* only finish with their events or outlive the deadline.                   *)
(***************************************************************************)
EXTENDS Diagnostics, TelemetryManager

(* A Track and an export log a record each, which bears its caller's name. *)
ASSUME CallersAssumption == Starters \cap Exports = {}

VARIABLES
  shutdown, \* where agentcat.Shutdown stands
  expired,  \* its deadline has passed
  late      \* a worker was still at its event when the exports were waited for

shutdownVars == <<shutdown, expired, late>>
outboundVars == <<diagnosticsVars, telemetryVars, shutdownVars>>

OutboundInit ==
  /\ DiagnosticsInit /\ TelemetryInit
  /\ shutdown = "open" /\ expired = FALSE /\ late = FALSE

WorkersDone == \A e \in Events : worker[e] # "exporting"

(* The warning of an export that failed or panicked. *)
Warn(g) ==
  /\ export[g].at = "warning" /\ Log(g)
  /\ Goes(g, IF g \in arming' THEN "arming" ELSE "finishing")
  /\ UNCHANGED <<exporters, counter, waiters, fanned, worker, waiting, crashed, shutdownVars>>

Warned(g) ==
  /\ Arm(g) /\ Goes(g, "finishing")
  /\ UNCHANGED <<exporters, counter, waiters, fanned, worker, waiting, crashed, shutdownVars>>

BeginShutdown ==
  /\ shutdown = "open" /\ shutdown' = "draining"
  /\ UNCHANGED <<expired, late, diagnosticsVars, telemetryVars>>

Expire ==
  /\ shutdown \in {"draining", "waiting"} /\ ~expired
  /\ expired' = TRUE
  /\ UNCHANGED <<shutdown, late, diagnosticsVars, telemetryVars>>

Proceed ==
  /\ shutdown = "draining" /\ shutdown' = "waiting"
  /\ waiting' = "started" /\ late' = ~WorkersDone
  /\ UNCHANGED <<expired, exporters, counter, waiters, fanned, worker, export, crashed>>
  /\ UNCHANGED diagnosticsVars

(* Fault: the exports are waited for while the workers still drain. *)
WaitForExportsAtOnce == Proceed

(* Publisher.Shutdown: the workers finish, or the deadline passes. *)
WaitForExports == (WorkersDone \/ expired) /\ Proceed

(* Fault: nobody waits for the exports. *)
ReturnFromWaitAtOnce ==
  /\ shutdown = "waiting"
  /\ shutdown' = "flushing"
  /\ UNCHANGED <<expired, late, diagnosticsVars, telemetryVars>>

(* Wait returns when its goroutine is done or the deadline passes. *)
ReturnFromWait ==
  /\ shutdown = "waiting" /\ (waiting = "closed" \/ expired)
  /\ shutdown' = "flushing"
  /\ UNCHANGED <<expired, late, diagnosticsVars, telemetryVars>>

(* diagnostics.Flush, called by Shutdown itself, which waits for the answer. *)
ShutdownFlush ==
  /\ shutdown = "flushing" /\ shutdown' = "posting"
  /\ TakeBuffer("shutdown") /\ UNCHANGED timers
  /\ UNCHANGED <<expired, late, telemetryVars>>

Return ==
  /\ shutdown = "posting" /\ \A b \in posting : b.by # "shutdown"
  /\ shutdown' = "returned"
  /\ UNCHANGED <<expired, late, diagnosticsVars, telemetryVars>>

OutboundNext ==
  /\ ~crashed
  /\ \/ DiagnosticsNext /\ UNCHANGED <<telemetryVars, shutdownVars>>
     \/ TelemetryNext /\ UNCHANGED <<diagnosticsVars, shutdownVars>>
     \/ \E g \in Exports : Warn(g) \/ Warned(g)
     \/ BeginShutdown \/ Expire \/ WaitForExports
     \/ ReturnFromWait \/ ShutdownFlush \/ Return

OutboundSpec == OutboundInit /\ [][OutboundNext]_outboundVars
=============================================================================
