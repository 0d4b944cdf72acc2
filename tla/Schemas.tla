-------------------------------- MODULE Schemas --------------------------------
(***************************************************************************)
(* Listing and calling tools.  A tools/list advertises schemas with the     *)
(* SDK's parameters in them, records in the server's registries what was    *)
(* added to which tool, and (mcp-go) declares the same on the schemas that  *)
(* are registered, against which the library checks calls.  A tools/call    *)
(* takes the parameters away again by what the registries say.  Meanwhile   *)
(* the customer registers and deletes tools, and other lists run.           *)
(*                                                                         *)
(* The client calls what a list told it of.  At first it knows the tools    *)
(* from another instance of this server, as when a factory makes an         *)
(* instance for each request; the first call then rebuilds the registries.  *)
(* Tools registered after Track have nothing declared on them until a list  *)
(* of this instance, which that client need not have made.                  *)
(***************************************************************************)
EXTENDS Naturals, Injection, Handles

CONSTANTS
  Tools,       \* tool names
  GetMoreTools,\* the tool of the SDK's own, or None
  GetMoreForm, \* that tool
  Forms,       \* the tools a customer registers
  Setups,      \* configurations, with the SDK that is tracked, the tools that
               \* live in a session, those on the first page of a list and
               \* those that the customer registers after Track
  Lists, Calls,\* requests; as many lists are served at a time as Lists has
  MaxVersions, \* how often a name is registered
  Wishes,      \* lists the client makes of its own accord
  None         \* nil

ASSUME SchemasAssumption ==
  /\ Setups \subseteq [cfg : Configs, adapter : {"mcpgo", "official"},
                      session : SUBSET Tools, first : SUBSET Tools,
                      late : SUBSET (Tools \ {GetMoreTools})]
  /\ Lists \subseteq Nat /\ Lists \cap Calls = {}
  /\ MaxVersions \in Nat \ {0} /\ Wishes \in Nat
  /\ None \notin Tools \cup Forms

(* A form says what the customer declared, the SDK's own tool asks for a     *)
(* context (get_more_tools.go), and nil is no value of a registry.           *)
ASSUME FormsAssumption ==
  /\ "context" \in GetMoreForm.owns
  /\ \A form \in Forms \cup {GetMoreForm} :
       /\ form.input \in InputKinds /\ form.output \in OutputKinds
       /\ form.owns \subseteq Params /\ form.required \subseteq form.owns
  /\ \A S \in SUBSET Tools :
       None \notin [S -> [params : SUBSET Params, mirror : BOOLEAN, owned : SUBSET Params]]

Listers == Lists \cup Calls
VARIABLES
  setup,       \* which of the Setups this is
  tools,       \* the registered tools, or None: MCPServer.tools and those
               \* of the session
  version,     \* how often each name was registered or deleted
  registries,  \* instance.Registries
  lpc,         \* where each list stands, a rebuild of a call included
  seen,        \* the tools the list is about, by name
  reg,         \* the registries that a list or a call has in hand
  snapshot,    \* the tools it declares the parameters on
  known,       \* what the client knows of each tool
  relist,      \* the client was told that the tools changed
  wishes,      \* lists the client still makes of its own accord
  raced,       \* names that two lists at a time saw in different versions
  crossed,     \* names the customer changed while a list held a copy
  cpc,         \* where each call stands
  call,        \* what it asks for
  outcome      \* what the handler and the event were given

lists  == <<lpc, seen, snapshot>>
client == <<known, relist, wishes>>
faults == <<raced, crossed>>
calls  == <<cpc, call, outcome>>
server == <<setup, tools, version>>
vars == <<server, registries, reg, lists, client, faults, calls>>

cfg == setup.cfg
adapter == setup.adapter
SessionTools == setup.session
GlobalTools == Tools \ SessionTools
FirstPage == setup.first
Late == setup.late

Registered == {t \in Tools : tools[t] # None}
Copies(names) == [t \in names \cap Registered |-> tools[t]]

(* A registered tool is what the customer wrote, with what was declared on  *)
(* it; its version says which registration it is.                           *)
Written(form, n) ==
  [input |-> form.input, output |-> form.output, owns |-> form.owns, ours |-> {},
   required |-> form.required, mirror |-> FALSE, version |-> n]

(* The schema alone: what bytes.Equal sees. *)
Schema(tool) == [tool EXCEPT !.version = 0]

Heard(tool, here) == [tool |-> tool, here |-> here]

FormsOf(t) == IF t = GetMoreTools THEN {GetMoreForm} ELSE Forms \cup {None}

(* The client heard of the tools on another instance.  Track has registered *)
(* the SDK's tool here and declared the parameters on the tools there were; *)
(* those registered after Track have nothing declared on them yet.          *)
Init ==
  /\ setup \in Setups
  /\ \E forms \in {f \in [Tools -> Forms \cup {GetMoreForm, None}] :
                     \A t \in Tools : f[t] \in FormsOf(t)} :
       /\ version = [t \in Tools |-> IF forms[t] = None THEN 0 ELSE 1]
       /\ tools = [t \in Tools |->
            IF forms[t] = None THEN None
            ELSE IF adapter = "mcpgo" /\ t \in GlobalTools \ Late
                 THEN Declared(cfg, Written(forms[t], 1))
                 ELSE Written(forms[t], 1)]
       /\ known = [t \in Tools |->
            IF forms[t] = None THEN None
            ELSE Heard(Advertised(cfg, Written(forms[t], 1)), FALSE)]
  /\ registries = None
  /\ lpc = [l \in Listers |-> "idle"] /\ seen = [l \in Listers |-> <<>>]
  /\ reg = [l \in Listers |-> None] /\ snapshot = [l \in Listers |-> <<>>]
  /\ relist = FALSE /\ wishes = Wishes /\ raced = {} /\ crossed = {}
  /\ cpc = [c \in Calls |-> "idle"] /\ call = [c \in Calls |-> None]
  /\ outcome = [c \in Calls |-> None]

-----------------------------------------------------------------------------
(* The customer.                                                           *)

(* A copy that a list holds before it writes is out of date from now on. *)
Crossing(t) == {t} \cap {u \in Tools : \E l \in Listers : u \in DOMAIN snapshot[l]}

Change(t, tool) ==
  /\ t # GetMoreTools /\ version[t] < MaxVersions
  /\ version' = [version EXCEPT ![t] = @ + 1]
  /\ tools' = [tools EXCEPT ![t] = tool]
  /\ crossed' = crossed \cup Crossing(t)
  /\ UNCHANGED <<setup, registries, reg, lists, client, raced, calls>>

AddTool(t, form) == Change(t, Written(form, version[t] + 1))
DeleteTool(t) == tools[t] # None /\ Change(t, None)

-----------------------------------------------------------------------------
(* A list, and the rebuild of a call, up to the merge.                      *)

Step(l, place) == lpc' = [lpc EXCEPT ![l] = place]

VersionIn(listed, t) == IF t \in DOMAIN listed THEN listed[t].version ELSE 0

(* The library collects a page of tools, Build works on copies of them and  *)
(* the merge loads the registries.                                          *)
Collect(l, page) ==
  LET listed == Copies(page) IN
  /\ lpc[l] = "idle"
  /\ seen' = [seen EXCEPT ![l] = listed]
  /\ reg' = [reg EXCEPT ![l] = registries]
  /\ raced' = raced \cup
       {t \in page : \E m \in Listers \ {l} :
          lpc[m] # "idle" /\ VersionIn(seen[m], t) # VersionIn(listed, t)}
  /\ Step(l, "loaded")
  /\ UNCHANGED <<server, registries, snapshot, crossed>>

(* The client asks; which of the idle places a list takes is of no matter. *)
ListTools(l) ==
  /\ \A m \in Lists : m < l => lpc[m] # "idle"
  /\ relist \/ wishes > 0
  /\ relist' = FALSE
  /\ wishes' = IF relist THEN wishes ELSE wishes - 1
  /\ \E page \in {FirstPage, Tools \ FirstPage} \ {{}} : Collect(l, page)
  /\ UNCHANGED <<known, calls>>

AfterMerge == IF adapter = "mcpgo" THEN "merged" ELSE "return"

(* Fault: the merged registries are stored, whatever is there now. *)
StoreRegistries(l) ==
  /\ lpc[l] = "loaded"
  /\ registries' = Merge(reg[l], Registries(cfg, seen[l]), None)
  /\ reg' = [reg EXCEPT ![l] = IF l \in Calls THEN registries' ELSE None]
  /\ Step(l, AfterMerge)
  /\ UNCHANGED <<server, seen, snapshot, client, faults, calls>>

(* MergeRegistries: compare-and-swap, and load again if it fails. *)
MergeRegistries(l) ==
  /\ lpc[l] = "loaded"
  /\ IF registries = reg[l]
     THEN /\ registries' = Merge(reg[l], Registries(cfg, seen[l]), None)
          /\ reg' = [reg EXCEPT ![l] = IF l \in Calls THEN registries' ELSE None]
          /\ Step(l, AfterMerge)
     ELSE /\ reg' = [reg EXCEPT ![l] = registries]
          /\ UNCHANGED <<registries, lpc>>
  /\ UNCHANGED <<server, seen, snapshot, client, faults, calls>>

-----------------------------------------------------------------------------
(* mcp-go: the same parameters on the registered schemas.                   *)

(* Fault: every tool to be declared on is declared on again. *)
UndeclaredOrNot(copies) == {t \in DOMAIN copies : Injected(cfg, copies[t]) # {}}

(* schemaDeclarations: nothing for a tool that carries them already. *)
Undeclared(copies) == {t \in DOMAIN copies : Declared(cfg, copies[t]) # copies[t]}

(* The tools there are now, if one of them needs a declaration. *)
Copy(l, names, place, next) ==
  LET copies == Copies(names)
      needed == Undeclared(copies) # {} IN
  /\ snapshot' = [snapshot EXCEPT ![l] = IF needed THEN copies ELSE <<>>]
  /\ Step(l, IF needed THEN place ELSE next)
  /\ UNCHANGED <<server, registries, reg, seen, client, faults, calls>>

(* Not every session has tools of its own. *)
AfterGlobal == IF SessionTools = {} THEN "return" ELSE "session"

(* Fault: only what was there at Track is declared. *)
CopyNothing(l) == lpc[l] = "merged" /\ Copy(l, {}, "declare", AfterGlobal)

CopyGlobalTools(l) == lpc[l] = "merged" /\ Copy(l, GlobalTools, "declare", AfterGlobal)

(* Fault: the copy is written back, whatever is registered now. *)
ApplyUnchecked(l) ==
  /\ lpc[l] = "declare"
  /\ tools' = [t \in Tools |->
       IF t \in Undeclared(snapshot[l]) THEN Declared(cfg, snapshot[l][t]) ELSE tools[t]]
  /\ snapshot' = [snapshot EXCEPT ![l] = <<>>]
  /\ Step(l, AfterGlobal)
  /\ UNCHANGED <<setup, version, registries, reg, seen, client, faults, calls>>

(* applyRegisteredDeclarations, under toolsMu: what is registered now must  *)
(* have the schema the declaration was made from; its handler stays.        *)
ApplyDeclarations(l) ==
  /\ lpc[l] = "declare"
  /\ tools' = [t \in Tools |->
       IF /\ t \in Undeclared(snapshot[l]) /\ tools[t] # None
          /\ Schema(tools[t]) = Schema(snapshot[l][t])
       THEN Declared(cfg, tools[t]) ELSE tools[t]]
  /\ snapshot' = [snapshot EXCEPT ![l] = <<>>]
  /\ Step(l, AfterGlobal)
  /\ UNCHANGED <<setup, version, registries, reg, seen, client, faults, calls>>

CopySessionTools(l) == lpc[l] = "session" /\ Copy(l, SessionTools, "add", "return")

(* AddSessionTools writes what was copied and tells the client. *)
AddSessionTools(l) ==
  /\ lpc[l] = "add"
  /\ LET changed == Undeclared(snapshot[l]) IN
       /\ tools' = [t \in Tools |->
            IF t \in changed THEN Declared(cfg, snapshot[l][t]) ELSE tools[t]]
       /\ relist' = (relist \/ changed # {})
  /\ snapshot' = [snapshot EXCEPT ![l] = <<>>]
  /\ Step(l, "return")
  /\ UNCHANGED <<setup, version, registries, reg, seen, known, wishes, faults, calls>>

(* The client learns the tools of the page; a rebuild tells it nothing, and *)
(* its call goes on with what is stored now (mcp-go) or what it merged.     *)
Return(l) ==
  /\ lpc[l] = "return"
  /\ known' = IF l \in Calls THEN known
              ELSE [t \in Tools |-> IF t \in DOMAIN seen[l]
                                    THEN Heard(Advertised(cfg, seen[l][t]), TRUE) ELSE known[t]]
  /\ seen' = [seen EXCEPT ![l] = <<>>]
  /\ reg' = [reg EXCEPT ![l] = IF l \in Calls /\ adapter = "mcpgo" THEN registries ELSE @]
  /\ Step(l, "idle")
  /\ cpc' = IF l \in Calls THEN [cpc EXCEPT ![l] = "strip"] ELSE cpc
  /\ UNCHANGED <<server, registries, snapshot, relist, wishes, faults, call, outcome>>

-----------------------------------------------------------------------------
(* A call.                                                                 *)

Call(t, args, heard) == [tool |-> t, args |-> args, heard |-> heard, version |-> 0]

(* mcp-go looks the tool up and checks the arguments first of all. *)
Lookup(c, request, args, place) ==
  LET t == request.tool IN
  /\ call' = [call EXCEPT ![c] = [request EXCEPT !.version = VersionIn(Copies(Tools), t)]]
  /\ cpc' = [cpc EXCEPT ![c] = CASE tools[t] = None -> "notfound"
                                 [] tools[t] # None /\ ~Accepts(tools[t], args) -> "rejected"
                                 [] OTHER -> place]

(* The client calls a tool with everything the schema it knows has, or *)
(* leaves out what is not the tool's own.                               *)
CallTool(c, t, args) ==
  /\ cpc[c] = "idle" /\ known[t] # None
  /\ LET heard == known[t] IN
     /\ args \in {heard.tool.owns, heard.tool.owns \cup heard.tool.ours}
     /\ IF adapter = "mcpgo" THEN Lookup(c, Call(t, args, heard), args, "load")
        ELSE /\ call' = [call EXCEPT ![c] = Call(t, args, heard)]
             /\ cpc' = [cpc EXCEPT ![c] = "load"]
  /\ UNCHANGED <<server, registries, reg, lists, client, faults, outcome>>

LoadForCall(c) ==
  /\ cpc[c] = "load"
  /\ reg' = [reg EXCEPT ![c] = registries]
  /\ cpc' = [cpc EXCEPT ![c] = IF registries = None THEN "rebuild" ELSE "strip"]
  /\ UNCHANGED <<server, registries, lists, client, faults, call, outcome>>

(* Without registries the call lists the first page itself. *)
Rebuild(c) ==
  /\ cpc[c] = "rebuild" /\ Collect(c, FirstPage)
  /\ cpc' = [cpc EXCEPT ![c] = "rebuilding"]
  /\ UNCHANGED <<client, call, outcome>>

RebuildFails(c) ==
  /\ cpc[c] = "rebuild"
  /\ cpc' = [cpc EXCEPT ![c] = "strip"]
  /\ reg' = [reg EXCEPT ![c] = IF adapter = "mcpgo" THEN registries ELSE @]
  /\ UNCHANGED <<server, registries, lists, client, faults, call, outcome>>

(* What the registries a call has in hand know of its tool. *)
Ground(request, r) == CASE r = None -> "guess"
                        [] r # None /\ request.tool \in DOMAIN r -> "entry"
                        [] OTHER -> "nothing"

(* Handles are resolved, unless tracing is off, and arguments stripped. *)
Stripped(request, value, r, answer) ==
  [args |-> Strip(request.tool, request.args, r, GetMoreTools, None),
   resolution |-> IF ~cfg.handles THEN None
                  ELSE ResolveSessionHandle(value, answer,
                         SessionParamIsOurs(request.tool, r, None)),
   mirror |-> cfg.handles /\ ShouldMirror(request.tool, r, None),
   ground |-> Ground(request, r),
   version |-> VersionIn(Copies(Tools), request.tool)]

StripArguments(c) ==
  /\ cpc[c] = "strip"
  /\ \E value \in IF "session_id" \in call[c].args THEN SessionValues ELSE {"absent"},
        answer \in IF cfg.hook THEN HookAnswers \ {"none"} ELSE {"none"} :
       outcome' = [outcome EXCEPT ![c] = Stripped(call[c], value, reg[c], answer)]
  /\ cpc' = [cpc EXCEPT ![c] = IF adapter = "mcpgo" THEN "done" ELSE "dispatch"]
  /\ reg' = [reg EXCEPT ![c] = None]
  /\ UNCHANGED <<server, registries, lists, client, faults, call>>

(* The official SDK looks the tool up and checks what is left. *)
Dispatch(c) ==
  /\ cpc[c] = "dispatch"
  /\ Lookup(c, call[c], outcome[c].args, "done")
  /\ UNCHANGED <<server, registries, reg, lists, client, faults, outcome>>

(* The call is over and forgotten. *)
Finish(c) ==
  /\ cpc[c] \in {"done", "rejected", "notfound"}
  /\ cpc' = [cpc EXCEPT ![c] = "over"]
  /\ call' = [call EXCEPT ![c] = None] /\ outcome' = [outcome EXCEPT ![c] = None]
  /\ UNCHANGED <<server, registries, reg, lists, client, faults>>

-----------------------------------------------------------------------------
ListSteps(l) ==
  \/ MergeRegistries(l) \/ CopyGlobalTools(l)
  \/ ApplyDeclarations(l) \/ CopySessionTools(l) \/ AddSessionTools(l) \/ Return(l)

CallSteps(c) ==
  LoadForCall(c) \/ Rebuild(c) \/ RebuildFails(c) \/ StripArguments(c) \/ Dispatch(c)
  \/ Finish(c)

Next ==
  \/ \E t \in Tools : DeleteTool(t) \/ \E form \in Forms : AddTool(t, form)
  \/ \E l \in Lists : ListTools(l)
  \/ \E l \in Listers : ListSteps(l)
  \/ \E c \in Calls, t \in Tools, args \in SUBSET Params : CallTool(c, t, args)
  \/ \E c \in Calls : CallSteps(c)

Spec == Init /\ [][Next]_vars

(* Requests are served to their end, and a client that is told of a change  *)
(* lists again.                                                             *)
Fairness ==
  \A l \in Listers :
    /\ WF_vars(ListSteps(l))
    /\ l \in Lists => WF_vars(relist /\ ListTools(l))

FairSpec == Spec /\ Fairness
=============================================================================
