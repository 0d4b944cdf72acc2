------------------------------ MODULE OutboundProps ------------------------------
(* What the exports, the diagnostics and Shutdown owe. *)
EXTENDS Outbound, FiniteSets

Logged == Starters \cup Exports
InBuffer == ToSet(buffer)
InBatches == UNION {ToSet(b.records) : b \in posting}

(* Every variable has its type. *)
OutboundTypeOK ==
  /\ starting \in [Starters -> {"claim", "attributes", "sink", "beacon", "done"}]
  /\ <<initialized, enabled, attributes, sink, flushPending>> \in BOOLEAN \X BOOLEAN
       \X BOOLEAN \X BOOLEAN \X BOOLEAN
  /\ InBuffer \subseteq Logged /\ Len(buffer) <= MaxBuffer
  /\ arming \subseteq Logged /\ timers \in Nat
  /\ \A b \in posting : b.by \in {"timer", "shutdown"} /\ ToSet(b.records) \subseteq Logged
  /\ posted \cup overflowed \cup unheard \subseteq Logged
  /\ counter \in Int /\ waiters \in 0..1
  /\ fanned \in [Events -> SUBSET exporters]
  /\ worker \in [Events -> {"exporting", "recovered", "done"}]
  /\ \A g \in Exports :
       /\ export[g].at \in {"none", "requesting", "warning", "arming", "finishing",
                            "checking", "releasing", "ended"}
       /\ export[g].made \in 0..Len(Requests(g[2], g[1]))
       /\ export[g].failed \in BOOLEAN /\ export[g].panicked \in BOOLEAN
  /\ waiting \in {"none", "started", "parked", "woken", "closed", "recovered"}
  /\ shutdown \in {"open", "draining", "waiting", "flushing", "posting", "returned"}
  /\ {crashed, expired, late} \subseteq BOOLEAN

(* A record is in one place: the buffer, one batch, or its end; and what is  *)
(* in the buffer is not forgotten there: a timer is armed or about to be,    *)
(* however captures, timers and Shutdown's own flush interleave, and what is *)
(* sent bears the process's attributes (capture and Flush,                   *)
(* diagnostics.go).                                                          *)
RecordsLeave ==
  /\ buffer # <<>> => flushPending /\ (arming # {} \/ timers > 0)
  /\ \A b \in posting : b.attributed
  /\ Len(buffer) = Cardinality(InBuffer)
  /\ \A b, c \in posting : b # c => ToSet(b.records) \cap ToSet(c.records) = {}
  /\ LET places == <<InBuffer, InBatches, posted, overflowed, unheard>> IN
       \A i, j \in 1..5 : i < j => places[i] \cap places[j] = {}

(* When Shutdown was in time, every export it let start is over; it has made *)
(* all its requests, after a failed one the others too, unless it panicked;  *)
(* and if it failed or panicked, the warning is not left behind in the       *)
(* buffer (Manager.Wait before diagnostics.Flush, mcpcat.go Shutdown).       *)
ShutdownTakesWarnings ==
  shutdown \in {"posting", "returned"} /\ ~expired =>
    /\ WorkersDone
    /\ \A e \in Events : \A x \in fanned[e] :
         LET run == export[<<e, x>>] IN
         /\ run.at = "ended"
         /\ run.panicked \/ run.made = Len(Requests(x, e))
         /\ run.failed => <<e, x>> \in InBatches \cup posted \cup overflowed \cup unheard

(* The panics of sync.WaitGroup are out of reach of every recover in one     *)
(* place, the Done of an export's goroutine; no process dies of it unless    *)
(* Shutdown's deadline passed with a worker still draining (ExportAsync and  *)
(* Wait, telemetry.go).                                                      *)
CrashOnlyPastDeadline == crashed => expired /\ late
=============================================================================
