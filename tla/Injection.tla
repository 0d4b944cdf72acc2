------------------------------- MODULE Injection -------------------------------
(***************************************************************************)
(* What the SDK adds to the schemas of a customer's tools, and how it takes *)
(* the same things away from the arguments of a call: the pure operators of *)
(* internal/inject, over schemas of which only the parameters the SDK may   *)
(* add matter.                                                              *)
(*                                                                         *)
(* A tool is a record: input and output say what kind of schema it declares, *)
(* owns and ours which of the parameters the customer declared and which    *)
(* are declared with byte-exactly the SDK's own schema, required which of   *)
(* them a call must bring, mirror whether mcp_session is declared as ours.  *)
(***************************************************************************)
Params == {"session_id", "agent_id", "context"}

InputKinds == {"object", "closed", "composed", "opaque", "malformed", "none"}
OutputKinds == {"none", "object", "closed", "owned", "composed", "nonobject", "opaque"}
Configs == [handles : BOOLEAN, hook : BOOLEAN, agent : BOOLEAN, context : BOOLEAN]

(* The parameters a configuration asks for. *)
Wanted(cfg) ==
  {p \in Params : \/ p = "session_id" /\ cfg.handles /\ ~cfg.hook
                  \/ p = "agent_id" /\ cfg.handles /\ cfg.agent
                  \/ p = "context" /\ cfg.context}

(* A schema that is composed or cannot be read is passed through. *)
Readable(tool) == tool.input \in {"object", "closed"}

(* claimProperty: what is declared as ours already is ours to declare again. *)
Injected(cfg, tool) == IF Readable(tool) THEN Wanted(cfg) \ tool.owns ELSE {}

(* injectOutput, with the gate in front of it. *)
OutputInjected(cfg, tool) ==
  /\ cfg.handles /\ (~cfg.hook \/ cfg.agent)
  /\ tool.output \in {"object", "closed"}

(* Build, for one tool: the schema that is advertised ... *)
Advertised(cfg, tool) ==
  [tool EXCEPT !.input = IF Readable(tool) THEN "object" ELSE @,
               !.ours = @ \cup Injected(cfg, tool),
               !.required = @ \cup Injected(cfg, tool),
               !.mirror = @ \/ OutputInjected(cfg, tool)]

(* Fault: mcp_session is among the parameters. *)
EntryNamesMirror(cfg, tool) ==
  [params |-> Injected(cfg, tool) \cup (IF OutputInjected(cfg, tool) THEN {"mcp_session"} ELSE {}),
   mirror |-> OutputInjected(cfg, tool), owned |-> {}]

(* Fault: what is declared already counts as the customer's. *)
EntryTakesOursForTheirs(cfg, tool) ==
  [params |-> Injected(cfg, tool) \ tool.ours,
   mirror |-> OutputInjected(cfg, tool), owned |-> {}]

(* ... and the registries' entry that says what was injected. *)
Entry(cfg, tool) ==
  [params |-> Injected(cfg, tool),
   mirror |-> OutputInjected(cfg, tool),
   owned  |-> IF Readable(tool) THEN Wanted(cfg) \cap tool.owns ELSE {}]

(* Build, for the registries of a list. *)
Registries(cfg, listed) == [t \in DOMAIN listed |-> Entry(cfg, listed[t])]

(* MergeRegistries: the later list wins on the tools it names. *)
Merge(prev, next, none) ==
  IF prev = none THEN next
  ELSE [t \in DOMAIN prev \cup DOMAIN next |-> IF t \in DOMAIN next THEN next[t] ELSE prev[t]]

(* The registered schema gets the parameters too, as optional ones, and     *)
(* stays closed if it was.                                                  *)
Declared(cfg, tool) ==
  [tool EXCEPT !.ours = @ \cup Injected(cfg, tool),
               !.mirror = @ \/ OutputInjected(cfg, tool)]

(* Strip: without registries the names are guessed, but for the context of  *)
(* get_more_tools; a tool the registries do not know keeps its arguments.   *)
Strip(t, args, reg, getMoreTools, none) ==
  IF reg = none THEN args \ (Params \ (IF t = getMoreTools THEN {"context"} ELSE {}))
  ELSE IF t \in DOMAIN reg THEN args \ reg[t].params ELSE args

SessionParamIsOurs(t, reg, none) ==
  reg = none \/ t \notin DOMAIN reg \/ "session_id" \in reg[t].params

ShouldMirror(t, reg, none) == reg = none \/ (t \in DOMAIN reg /\ reg[t].mirror)

(* The libraries' validators, as far as these parameters go. *)
Accepts(tool, args) ==
  /\ tool.input = "closed" => args \subseteq tool.owns \cup tool.ours
  /\ tool.required \subseteq args
=============================================================================
