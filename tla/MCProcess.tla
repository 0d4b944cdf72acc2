------------------------------ MODULE MCProcess ------------------------------
(***************************************************************************)
(* Small instances for TLC of three parts of a process that share no state: *)
(* what tracks its servers, what leaves it beside the events, and what an   *)
(* event goes through.  A behaviour is one of one part, with the others at  *)
(* rest: their product would only repeat each part's states.                *)
(***************************************************************************)
EXTENDS TrackingProps, OutboundProps, MCPipeline, TLC

VARIABLE part \* which part moves

processVars == <<part, vars, outboundVars, pipelineVars>>

(* The instances of Outbound: two events for one exporter, or one for two. *)
CONSTANTS e1, e2
Config(type, complete) == [type |-> type, complete |-> complete, tracing |-> FALSE]
MCConfigs == {Config("sentry", TRUE), Config("datadog", TRUE), Config("posthog", FALSE)}
MCLoads ==
  { [events |-> {e1, e2}, configs |-> {Config("sentry", TRUE), Config("posthog", FALSE)}],
    [events |-> {e1}, configs |-> MCConfigs] }

(* A part at rest is in one of its initial states. *)
MCRest ==
  /\ part # "outbound" => exporters = {x \in MCConfigs : Initializes(x)}
  /\ part # "pipeline" =>
       source = 1 /\ settings = [hook |-> "none", redact |-> "none"]

ProcessInit ==
  /\ part \in {"tracking", "outbound", "pipeline"}
  /\ Init /\ OutboundInit /\ PipelineInit /\ MCRest

ProcessNext ==
  /\ UNCHANGED part
  /\ \/ part = "tracking" /\ Next /\ UNCHANGED <<outboundVars, pipelineVars>>
     \/ part = "outbound" /\ OutboundNext /\ UNCHANGED <<vars, pipelineVars>>
     \/ part = "pipeline" /\ PipelineNext /\ UNCHANGED <<vars, outboundVars>>

ProcessSpec == ProcessInit /\ [][ProcessNext]_processVars

(* Tracks are interchangeable, as are addresses. *)
MCSymmetry == Permutations(Addresses) \cup Permutations(Tracks)

(* Every variable has its type, of the registry, the exports and the event. *)
ProcessTypeOK == TypeOK /\ OutboundTypeOK /\ PipelineTypeOK
=============================================================================
