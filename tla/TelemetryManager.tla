---------------------------- MODULE TelemetryManager ----------------------------
(***************************************************************************)
(* The exporters' manager: each event goes to every exporter in a goroutine *)
(* of its own, which a sync.WaitGroup counts, and Shutdown waits for them.  *)
(* The WaitGroup is modelled step by step, since it panics when it is used  *)
(* in the wrong order and only some of the places that use it recover.      *)
(***************************************************************************)
EXTENDS Integers, Sequences

CONSTANTS
  Events,     \* events a worker each takes through the pipeline
  Failed,     \* those with isError
  Configs,    \* exporter configurations: [type, complete, tracing]
  Loads       \* which events and configurations there are: [events, configs]

ASSUME LoadAssumption ==
  /\ Failed \subseteq Events
  /\ \A load \in Loads : load.events \subseteq Events /\ load.configs \subseteq Configs

(* createExporter and the constructors: an unknown type or a missing setting *)
(* leaves the exporter out.                                                  *)
Initializes(x) == x.type \in {"otlp", "datadog", "sentry", "posthog"} /\ x.complete

(* The requests Export makes for an event, one after the other. *)
Requests(x, e) ==
  CASE x.type \in {"otlp", "posthog"} -> <<"batch">>
    [] x.type = "datadog" -> <<"logs", "metrics">>
    [] x.type = "sentry" -> <<"log">> \o (IF x.tracing THEN <<"transaction">> ELSE <<>>)
                                      \o (IF e \in Failed THEN <<"error">> ELSE <<>>)

Exports == Events \X {x \in Configs : Initializes(x)}
Unstarted == [at |-> "none", made |-> 0, failed |-> FALSE, panicked |-> FALSE]

VARIABLES
  exporters,         \* Manager.exporters
  counter, waiters,  \* the state word of sync.WaitGroup
  fanned,            \* the exporters each event has gone to
  worker,            \* what each event's worker does
  export,            \* the goroutine of each export
  waiting,           \* the goroutine Wait starts
  crashed            \* a panic nobody recovered ended the process

telemetryVars == <<exporters, counter, waiters, fanned, worker, export, waiting, crashed>>

TelemetryInit ==
  /\ \E load \in Loads :
       /\ exporters = {x \in load.configs : Initializes(x)}
       /\ worker = [e \in Events |-> IF e \in load.events THEN "exporting" ELSE "done"]
  /\ counter = 0 /\ waiters = 0
  /\ fanned = [e \in Events |-> {}]
  /\ export = [g \in Exports |-> Unstarted]
  /\ waiting = "none" /\ crashed = FALSE

Goes(g, at) == export' = [export EXCEPT ![g].at = at]

(* ExportAsync, for the next exporter.  Add panics when it counts from zero *)
(* while someone waits; the worker recovers, but what was counted stays     *)
(* counted and the event goes no further.                                   *)
ExportAsync(e, x) ==
  /\ worker[e] = "exporting" /\ x \in exporters \ fanned[e]
  /\ counter' = counter + 1
  /\ IF waiters # 0 /\ counter = 0
     THEN worker' = [worker EXCEPT ![e] = "recovered"] /\ UNCHANGED <<exporters, fanned, export>>
     ELSE /\ fanned' = [fanned EXCEPT ![e] = @ \cup {x}]
          /\ Goes(<<e, x>>, "requesting")
          /\ UNCHANGED worker
  /\ UNCHANGED <<exporters, waiters, waiting, crashed>>

(* The worker sends the event to the API and is through with it. *)
WorkerGoesOn(e) ==
  /\ worker[e] = "exporting" /\ fanned[e] = exporters
  /\ worker' = [worker EXCEPT ![e] = "done"]
  /\ UNCHANGED <<exporters, counter, waiters, fanned, export, waiting, crashed>>

(* A request is made, and what the export is at when it was the last. *)
Requested(run, ok, last) ==
  LET failed == run.failed \/ ~ok IN
  [run EXCEPT !.made = @ + 1, !.failed = failed,
              !.at = CASE ~last -> "requesting"
                       [] last /\ failed -> "warning"
                       [] OTHER -> "finishing"]

(* Fault: a failed request is the last. *)
RequestUntilFailure(g) ==
  /\ export[g].at = "requesting"
  /\ \E ok \in BOOLEAN :
       LET last == ~ok \/ export[g].made + 1 = Len(Requests(g[2], g[1])) IN
       export' = [export EXCEPT ![g] = Requested(@, ok, last)]
  /\ UNCHANGED <<exporters, counter, waiters, fanned, worker, waiting, crashed>>

(* Export: a failed request is noted and the next one made all the same; the *)
(* last one ends it.                                                         *)
Request(g) ==
  /\ export[g].at = "requesting"
  /\ \E ok \in BOOLEAN :
       LET last == export[g].made + 1 = Len(Requests(g[2], g[1])) IN
       export' = [export EXCEPT ![g] = Requested(@, ok, last)]
  /\ UNCHANGED <<exporters, counter, waiters, fanned, worker, waiting, crashed>>

(* Export panics, as a customer's MarshalJSON may, and is recovered. *)
Panic(g) ==
  /\ export[g].at = "requesting"
  /\ export' = [export EXCEPT ![g].at = "warning", ![g].failed = TRUE, ![g].panicked = TRUE]
  /\ UNCHANGED <<exporters, counter, waiters, fanned, worker, waiting, crashed>>

(* wg.Done, which runs after the recover: the first of its steps counts. *)
Done(g) ==
  /\ export[g].at = "finishing"
  /\ counter' = counter - 1
  /\ crashed' = (counter' < 0)
  /\ Goes(g, IF counter' = 0 /\ waiters # 0 THEN "checking" ELSE "ended")
  /\ UNCHANGED <<exporters, waiters, fanned, worker, waiting>>

(* The one that counted to zero looks again ... *)
DoneChecks(g) ==
  /\ export[g].at = "checking"
  /\ crashed' = (counter # 0)
  /\ Goes(g, "releasing")
  /\ UNCHANGED <<exporters, counter, waiters, fanned, worker, waiting>>

(* ... and then stores zero, whatever was counted since, and lets go. *)
DoneReleases(g) ==
  /\ export[g].at = "releasing"
  /\ counter' = 0 /\ waiters' = 0 /\ waiting' = "woken"
  /\ Goes(g, "ended")
  /\ UNCHANGED <<exporters, fanned, worker, crashed>>

(* Wait, in its goroutine. *)
WaitBegins ==
  /\ waiting = "started"
  /\ IF counter = 0 THEN waiting' = "closed" /\ UNCHANGED waiters
                    ELSE waiting' = "parked" /\ waiters' = waiters + 1
  /\ UNCHANGED <<exporters, counter, fanned, worker, export, crashed>>

(* It panics when the counter is in use again, and recovers. *)
WaitEnds ==
  /\ waiting = "woken"
  /\ waiting' = IF counter # 0 THEN "recovered" ELSE "closed"
  /\ UNCHANGED <<exporters, counter, waiters, fanned, worker, export, crashed>>

TelemetryNext ==
  \/ \E e \in Events : (\E x \in exporters : ExportAsync(e, x)) \/ WorkerGoesOn(e)
  \/ \E g \in Exports : \/ Request(g) \/ Panic(g)
                        \/ Done(g) \/ DoneChecks(g) \/ DoneReleases(g)
  \/ WaitBegins \/ WaitEnds
=============================================================================
