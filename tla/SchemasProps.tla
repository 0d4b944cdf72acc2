------------------------------ MODULE SchemasProps ------------------------------
(* What listing and calling tools promise each other. *)
EXTENDS Schemas

ListPlaces == {"idle", "loaded", "merged", "declare", "session", "add", "return"}
CallPlaces == {"idle", "load", "rebuild", "rebuilding", "strip", "dispatch",
               "done", "rejected", "notfound", "over"}

Entries == [params : SUBSET Params, mirror : BOOLEAN, owned : SUBSET Params]
ToolFields == {"input", "output", "owns", "ours", "required", "mirror", "version"}

IsTool(tool) ==
  /\ DOMAIN tool = ToolFields
  /\ tool.input \in InputKinds /\ tool.output \in OutputKinds
  /\ tool.version \in 0..MaxVersions /\ tool.mirror \in BOOLEAN
  /\ \A part \in {tool.owns, tool.ours, tool.required} : part \subseteq Params

IsToolMap(f) == DOMAIN f \subseteq Tools /\ \A t \in DOMAIN f : IsTool(f[t])
IsRegistries(r) == r # None => DOMAIN r \subseteq Tools /\ \A t \in DOMAIN r : r[t] \in Entries

(* Every variable of listing and calling has its type, the registries and *)
(* the registered tools included (core/types.go, registered_schema.go).    *)
TypeOK ==
  /\ setup \in Setups
  /\ version \in [Tools -> 0..MaxVersions]
  /\ \A t \in Tools : tools[t] # None => IsTool(tools[t])
  /\ \A t \in Tools : known[t] # None => IsTool(known[t].tool)
  /\ IsRegistries(registries) /\ \A l \in Listers : IsRegistries(reg[l])
  /\ lpc \in [Listers -> ListPlaces] /\ cpc \in [Calls -> CallPlaces]
  /\ \A l \in Listers : IsToolMap(seen[l]) /\ IsToolMap(snapshot[l])
  /\ relist \in BOOLEAN /\ wishes \in 0..Wishes
  /\ raced \subseteq Tools /\ crossed \subseteq Tools

(* No list's entries are lost, to another list or to the rebuild of a call:  *)
(* every tool that a list on this instance has told the client of, or is     *)
(* about to, has an entry by which its calls are stripped (types.go:242).    *)
EveryListCounts ==
  LET Recorded(t) == registries # None /\ t \in DOMAIN registries IN
  /\ \A t \in Tools : known[t] # None /\ known[t].here => Recorded(t)
  /\ \A l \in Listers :
       lpc[l] \notin {"idle", "loaded"} => \A t \in DOMAIN seen[l] : Recorded(t)

(* A call as the client was told to make it passes the library's check, if   *)
(* the tool is still the one it was told of: with mcp-go every call of what   *)
(* a list on this instance told it of, or was registered before Track; with   *)
(* the official SDK, which checks what is left after stripping, every call    *)
(* of what a list told it of here, and of what it knows from another          *)
(* instance if a list or a rebuild here has recorded the tool, unless lists   *)
(* raced (registered_schema.go:20, middleware.go:119).                        *)
AdvertisedCallsAccepted ==
  \A c \in Calls :
    cpc[c] = "rejected" /\ call[c].version = call[c].heard.tool.version =>
      /\ adapter = "mcpgo" => ~call[c].heard.here /\ call[c].tool \in SessionTools \cup Late
      /\ adapter = "official" =>
           \/ ~call[c].heard.here /\ outcome[c].ground # "entry"
           \/ call[c].tool \in raced

(* What the client was told of is still what is registered, and its entry    *)
(* was not left by an older list that overlapped a newer one.                *)
Settled(c) ==
  /\ outcome[c].ground = "entry" /\ call[c].tool \notin raced
  /\ call[c].heard.tool.version = outcome[c].version

(* The handler is given the tool's own arguments and none of the SDK's, an   *)
(* argument session_id of the customer's is not taken for a session, and     *)
(* mcp_session is written only where it was advertised: whatever lists,      *)
(* rebuilds and declarations ran before the call, and always for the context *)
(* of get_more_tools (inject.go:95, 502, 571).                                *)
HandlerSeesItsArguments ==
  \A c \in Calls : outcome[c] # None =>
    LET told == call[c].heard.tool
        out  == outcome[c] IN
    /\ Settled(c) =>
         /\ out.args = told.owns
         /\ ~cfg.hook /\ out.resolution # None =>
              (out.resolution.source = "foreign" <=> "session_id" \notin told.ours)
         /\ out.mirror => told.mirror
    /\ call[c].tool = GetMoreTools => "context" \in out.args

(* What a customer last did to a tool stands: it is registered in the        *)
(* customer's last version, it is not registered again after it was deleted, *)
(* and the SDK requires nothing of a call that the customer did not.  Only a  *)
(* tool of a session changed while a list held a copy of it may be undone     *)
(* (registered_schema.go:145, 314).                                           *)
CustomerRegistrationKept ==
  \A t \in Tools : tools[t] # None =>
    /\ tools[t].required \subseteq tools[t].owns
    /\ tools[t].version = version[t] \/ t \in SessionTools \cap crossed

(* Declaring is no cause for ever more lists: a client that lists again each *)
(* time it is told of a change comes to rest (registered_schema.go:287).      *)
ListsSettle == <>[](~relist /\ \A l \in Lists : lpc[l] = "idle")

-----------------------------------------------------------------------------
(* What the comments say and the code does not do.                         *)

(* mcpgo/list_inject.go:165: tools registered after Track get their          *)
(* declarations in the list hook, "before any call can arrive: an agent can  *)
(* only call a tool it has listed".  It can have listed it on another        *)
(* instance.                                                                 *)
DeclaredBeforeCalls ==
  \A c \in Calls :
    adapter = "mcpgo" /\ cpc[c] = "rejected" /\ call[c].tool \in GlobalTools =>
      call[c].version # call[c].heard.tool.version

(* examples/officialsdk/factory/main.go:98: on an instance no list reached,  *)
(* "AgentCat rebuilds its injection registries from the server's own tool    *)
(* list on the first call, so injected arguments are still stripped before   *)
(* your handler sees them".  It asks for the first page of that list alone.  *)
RebuiltCallsStripped ==
  \A c \in Calls :
    adapter = "official" /\ outcome[c] # None /\ ~call[c].heard.here =>
      \/ call[c].tool = GetMoreTools \/ outcome[c].ground = "guess"
      \/ outcome[c].version # call[c].heard.tool.version
      \/ outcome[c].args = call[c].heard.tool.owns

(* What one instance advertises another takes.  Neither holds where an       *)
(* instance has declared, or rebuilt, less than the other has told of.       *)
AnyInstanceServes == DeclaredBeforeCalls /\ RebuiltCallsStripped
=============================================================================
