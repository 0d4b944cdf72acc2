----------------------------- MODULE SchemasProofs -----------------------------
(* Proofs that no list's entries are lost and that the customer's             *)
(* registrations stand, for any tools, configurations, requests and versions, *)
(* and of what the operators of Injection and Handles owe each other.         *)
EXTENDS SchemasProps, TLAPS

(* ------------------------------ The operators ------------------------------ *)

Parts(tool) ==
  /\ tool.input \in InputKinds /\ tool.output \in OutputKinds
  /\ tool.owns \subseteq Params /\ tool.ours \subseteq Params /\ tool.required \subseteq Params
  /\ tool.mirror \in BOOLEAN /\ tool.version \in 0..MaxVersions

(* What a list advertises and what is declared are tools, and the latter is   *)
(* what the customer wrote but for the parameters that are ours.              *)
LEMMA Injecting ==
  ASSUME NEW c, NEW tool, IsTool(tool)
  PROVE  /\ IsTool(Advertised(c, tool)) /\ IsTool(Declared(c, tool))
         /\ Entry(c, tool) \in Entries
         /\ Declared(c, tool).required = tool.required /\ Declared(c, tool).owns = tool.owns
         /\ Declared(c, tool).version = tool.version
<1>1. Injected(c, tool) \subseteq Params
  BY DEF Injected, Wanted
<1>2. OutputInjected(c, tool) \in BOOLEAN
  BY DEF OutputInjected
<1>3. DOMAIN tool = ToolFields /\ Parts(tool)
  BY DEF IsTool, Parts
<1> DEFINE out == OutputInjected(c, tool)
           added == Injected(c, tool)
           d == Declared(c, tool)
           a == Advertised(c, tool)
<1> HIDE DEF out, added
<1>4. /\ DOMAIN d = ToolFields /\ d.input = tool.input /\ d.output = tool.output
      /\ d.owns = tool.owns /\ d.required = tool.required /\ d.version = tool.version
      /\ d.ours = tool.ours \cup added /\ d.mirror = (tool.mirror \/ out)
  BY <1>3 DEF Declared, ToolFields, added, out
<1>5. /\ DOMAIN a = ToolFields /\ a.input = (IF Readable(tool) THEN "object" ELSE tool.input)
      /\ a.output = tool.output /\ a.owns = tool.owns /\ a.required = tool.required \cup added
      /\ a.version = tool.version /\ a.ours = tool.ours \cup added
      /\ a.mirror = (tool.mirror \/ out)
  BY <1>3 DEF Advertised, ToolFields, added, out
<1>6. Entry(c, tool) \in Entries
  BY <1>1, <1>2, <1>3 DEF Entry, Entries, Parts
<1> HIDE DEF d, a
<1>7. IsTool(d)
  BY <1>1, <1>2, <1>3, <1>4 DEF IsTool, Parts, added, out
<1>8. IsTool(a)
  BY <1>1, <1>2, <1>3, <1>5 DEF IsTool, Parts, added, out, InputKinds
<1> QED
  BY <1>4, <1>6, <1>7, <1>8 DEF a, d

(* Nobody has a parameter twice, so what was injected comes off again and     *)
(* nothing else does: a call as advertised reaches the handler with the       *)
(* arguments the customer declared (Build and Strip, inject.go).              *)
THEOREM StripUndoesBuild ==
  ASSUME NEW c, NEW listed, NEW t \in DOMAIN listed, NEW getMoreTools, NEW none,
         NEW args, IsTool(listed[t]), listed[t].ours \subseteq Injected(c, listed[t]),
         listed[t].owns \subseteq args,
         args \subseteq listed[t].owns \cup Advertised(c, listed[t]).ours,
         Registries(c, listed) # none
  PROVE  Strip(t, args, Registries(c, listed), getMoreTools, none) = listed[t].owns
<1> DEFINE tool == listed[t]
           added == Injected(c, tool)
           r == Registries(c, listed)
<1>1. added \cap tool.owns = {}
  BY DEF Injected
<1>2. Advertised(c, tool).ours = tool.ours \cup added
  BY DEF IsTool, ToolFields, Advertised
<1>3. t \in DOMAIN r /\ r[t].params = added
  BY DEF Registries, Entry
<1>4. Strip(t, args, r, getMoreTools, none) = args \ added
  BY <1>3 DEF Strip
<1> QED
  BY <1>1, <1>2, <1>4

(* Whatever decides the session of a call, the mirror the agent is shown is   *)
(* one that withoutHandleMirror recognises in a later result                  *)
(* (handles.go, BuildMirror and ResolveSessionHandle).                        *)
THEOREM MirrorRecognised ==
  ASSUME NEW value \in SessionValues, NEW answer \in HookAnswers, NEW ours \in BOOLEAN,
         NEW agentID \in BOOLEAN,
         Mirror(ResolveSessionHandle(value, answer, ours), agentID).members # {}
  PROVE  MirrorIsOurs(Mirror(ResolveSessionHandle(value, answer, ours), agentID))
<1> DEFINE res == ResolveSessionHandle(value, answer, ours)
           Known == [source : {"minted", "supplied", "invalid"}, hookMode : {FALSE}]
                    \cup {Resolution("hook", TRUE)}
<1>1. \/ res \in Known
      \/ ~res.hookMode /\ res.source = "foreign"
      \/ res.hookMode
  BY DEF ResolveSessionHandle, Resolution, SessionValues
<1>2. CASE res \in Known
  BY <1>2 DEF MirrorIsOurs
<1>3. CASE res.hookMode \/ res.source = "foreign"
  <2> DEFINE hook == Resolution("hook", TRUE)
  <2>1. hook.hookMode /\ hook \in Known
    BY DEF Resolution
  <2> HIDE DEF res, hook, Known
  <2>2. Mirror(res, agentID) = Mirror(hook, agentID)
    BY <1>3, <2>1 DEF Mirror
  <2> QED
    BY <2>1, <2>2 DEF MirrorIsOurs, res, Known
<1> QED
  BY <1>1, <1>2, <1>3

(* ------------------------------- Types ------------------------------- *)

ServerTyped ==
  /\ setup \in Setups /\ version \in [Tools -> 0..MaxVersions]
  /\ DOMAIN tools = Tools /\ \A t \in Tools : tools[t] # None => IsTool(tools[t])
ClientTyped ==
  /\ DOMAIN known = Tools /\ \A t \in Tools : known[t] # None => IsTool(known[t].tool)
  /\ relist \in BOOLEAN /\ wishes \in 0..Wishes
FaultsTyped == raced \subseteq Tools /\ crossed \subseteq Tools
RegTyped ==
  /\ IsRegistries(registries)
  /\ DOMAIN reg = Listers /\ \A l \in Listers : IsRegistries(reg[l])
PlacesTyped == lpc \in [Listers -> ListPlaces] /\ cpc \in [Calls -> CallPlaces]
MapsTyped ==
  /\ DOMAIN seen = Listers /\ DOMAIN snapshot = Listers
  /\ \A l \in Listers : IsToolMap(seen[l]) /\ IsToolMap(snapshot[l])

Types ==
  ServerTyped /\ ClientTyped /\ FaultsTyped /\ RegTyped /\ PlacesTyped /\ MapsTyped

(* A page of the registered tools. *)
LEMMA CopiesTyped == ASSUME ServerTyped, NEW names PROVE IsToolMap(Copies(names))
  BY DEF ServerTyped, Copies, Registered, IsToolMap

(* A list that holds no copies. *)
LEMMA EmptyMap == IsToolMap(<<>>) /\ DOMAIN <<>> = {}
  BY DEF IsToolMap

(* What stays as it was keeps its type. *)
LEMMA TypesStay ==
  /\ ServerTyped /\ UNCHANGED server => ServerTyped'
  /\ ClientTyped /\ UNCHANGED client => ClientTyped'
  /\ FaultsTyped /\ UNCHANGED faults => FaultsTyped'
  /\ RegTyped /\ UNCHANGED <<registries, reg>> => RegTyped'
  /\ PlacesTyped /\ UNCHANGED <<lpc, cpc>> => PlacesTyped'
  /\ MapsTyped /\ UNCHANGED <<seen, snapshot>> => MapsTyped'
  BY DEF ServerTyped, server, ClientTyped, client, FaultsTyped, faults, RegTyped, PlacesTyped,
       MapsTyped

(* A registration, as the customer wrote it. *)
LEMMA WrittenTyped ==
  ASSUME NEW form \in Forms \cup {GetMoreForm}, NEW n \in 0..MaxVersions
  PROVE  /\ IsTool(Written(form, n)) /\ Written(form, n).required \subseteq Written(form, n).owns
         /\ Written(form, n).version = n
<1>1. /\ form.input \in InputKinds /\ form.output \in OutputKinds
      /\ form.owns \subseteq Params /\ form.required \subseteq form.owns
  BY FormsAssumption
<1> DEFINE w == Written(form, n)
<1>2. /\ DOMAIN w = ToolFields /\ w.input = form.input /\ w.output = form.output
      /\ w.owns = form.owns /\ w.required = form.required /\ w.ours = {} /\ w.mirror = FALSE
      /\ w.version = n
  BY DEF Written, ToolFields
<1> HIDE DEF w
<1>3. IsTool(w)
  BY <1>1, <1>2 DEF IsTool
<1> QED
  BY <1>1, <1>2, <1>3 DEF w

(* The tools as Track leaves them, and what the client knows, have their types. *)
LEMMA TypesInit == Init => Types
<1> SUFFICES ASSUME Init PROVE Types
  OBVIOUS
<1>1. PICK forms \in [Tools -> Forms \cup {GetMoreForm, None}] :
       /\ version = [t \in Tools |-> IF forms[t] = None THEN 0 ELSE 1]
       /\ tools = [t \in Tools |->
            IF forms[t] = None THEN None
            ELSE IF adapter = "mcpgo" /\ t \in GlobalTools \ Late
                 THEN Declared(cfg, Written(forms[t], 1))
                 ELSE Written(forms[t], 1)]
       /\ known = [t \in Tools |->
            IF forms[t] = None THEN None
            ELSE Heard(Advertised(cfg, Written(forms[t], 1)), FALSE)]
  BY DEF Init
<1>2. \A t \in Tools : forms[t] # None => IsTool(Written(forms[t], 1))
  BY <1>1, WrittenTyped, SchemasAssumption
<1>3. ServerTyped
  <2>1. version \in [Tools -> 0..MaxVersions]
    BY <1>1, SchemasAssumption
  <2>2. ASSUME NEW t \in Tools, tools[t] # None PROVE IsTool(tools[t])
    <3>1. forms[t] # None
      BY <1>1, <2>2
    <3> QED
      BY <1>1, <1>2, <3>1, Injecting
  <2>3. setup \in Setups
    BY DEF Init
  <2>4. DOMAIN tools = Tools
    BY <1>1
  <2> QED
    BY <2>1, <2>2, <2>3, <2>4 DEF ServerTyped
<1>4. ClientTyped
  <2>1. ASSUME NEW t \in Tools, known[t] # None PROVE IsTool(known[t].tool)
    <3>1. forms[t] # None
      BY <1>1, <2>1
    <3>2. known[t].tool = Advertised(cfg, Written(forms[t], 1))
      BY <1>1, <3>1 DEF Heard
    <3> QED
      BY <1>2, <3>1, <3>2, Injecting
  <2>2. relist \in BOOLEAN
    BY DEF Init
  <2>4. wishes \in 0..Wishes
    <3>1. wishes = Wishes
      BY DEF Init
    <3> QED
      BY <3>1, SchemasAssumption
  <2>3. DOMAIN known = Tools
    BY <1>1
  <2> QED
    BY <2>1, <2>2, <2>3, <2>4 DEF ClientTyped
<1>5. FaultsTyped
  BY DEF FaultsTyped, Init
<1>6. RegTyped
  BY DEF RegTyped, Init, IsRegistries
<1>7. PlacesTyped
  BY DEF PlacesTyped, Init, ListPlaces, CallPlaces
<1>8. MapsTyped
  BY EmptyMap DEF MapsTyped, Init
<1> QED
  BY <1>3, <1>4, <1>5, <1>6, <1>7, <1>8 DEF Types

(* Merging loses no entry, and gives one to every tool that was listed.       *)
LEMMA Merging ==
  ASSUME NEW c, NEW prev, NEW listed, IsRegistries(prev), IsToolMap(listed)
  PROVE  LET merged == Merge(prev, Registries(c, listed), None) IN
         /\ IsRegistries(merged) /\ merged # None /\ DOMAIN listed \subseteq DOMAIN merged
         /\ prev # None => DOMAIN prev \subseteq DOMAIN merged
<1> DEFINE next == Registries(c, listed)
           merged == Merge(prev, next, None)
<1>1. /\ DOMAIN next = DOMAIN listed /\ next \in [DOMAIN listed -> Entries]
      /\ DOMAIN listed \in SUBSET Tools
  BY Injecting DEF Registries, IsToolMap
<1>2. \A S \in SUBSET Tools : \A f \in [S -> Entries] : f # None
  BY FormsAssumption DEF Entries
<1> HIDE DEF next
<1>3. CASE prev = None
  <2>1. merged = next
    BY <1>3 DEF Merge
  <2> HIDE DEF merged
  <2>2. merged \in [DOMAIN listed -> Entries] /\ DOMAIN merged = DOMAIN listed
    BY <1>1, <2>1
  <2>3. merged # None /\ IsRegistries(merged)
    BY <1>1, <1>2, <2>2 DEF IsRegistries
  <2> QED
    BY <1>3, <2>2, <2>3 DEF merged, next
<1>4. CASE prev # None
  <2> DEFINE S == DOMAIN prev \cup DOMAIN next
  <2>1. merged = [t \in S |-> IF t \in DOMAIN next THEN next[t] ELSE prev[t]]
    BY <1>4 DEF Merge
  <2>2. S \in SUBSET Tools /\ \A t \in DOMAIN prev : prev[t] \in Entries
    BY <1>1, <1>4 DEF IsRegistries
  <2> HIDE DEF merged
  <2>3. merged \in [S -> Entries] /\ DOMAIN merged = S
    BY <1>1, <2>1, <2>2
  <2>4. merged # None /\ IsRegistries(merged)
    BY <1>2, <2>2, <2>3 DEF IsRegistries
  <2> QED
    BY <1>1, <1>4, <2>3, <2>4 DEF merged, next
<1> QED
  BY <1>3, <1>4

(* The library's collection of a page. *)
LEMMA CollectTyped ==
  ASSUME Types, NEW l \in Listers, NEW page \in SUBSET Tools, Collect(l, page)
  PROVE  ServerTyped' /\ RegTyped' /\ MapsTyped' /\ FaultsTyped' /\ lpc' \in [Listers -> ListPlaces]
<1>0. ServerTyped /\ RegTyped /\ MapsTyped /\ FaultsTyped /\ PlacesTyped
  BY DEF Types
<1> DEFINE listed == Copies(page)
<1>1. IsToolMap(listed)
  BY <1>0, CopiesTyped
<1>2. /\ seen' = [seen EXCEPT ![l] = listed] /\ reg' = [reg EXCEPT ![l] = registries]
      /\ Step(l, "loaded") /\ UNCHANGED <<server, registries, snapshot, crossed>>
  BY DEF Collect
<1>3. raced' = raced \cup {t \in page : \E m \in Listers \ {l} :
          lpc[m] # "idle" /\ VersionIn(seen[m], t) # VersionIn(listed, t)}
  BY DEF Collect
<1>4. FaultsTyped'
  BY <1>0, <1>2, <1>3 DEF FaultsTyped
<1>5. ServerTyped'
  BY <1>0, <1>2, TypesStay
<1> HIDE DEF listed
<1>6. MapsTyped'
  BY <1>0, <1>1, <1>2 DEF MapsTyped
<1>7. RegTyped'
  BY <1>0, <1>2 DEF RegTyped
<1>8. lpc' \in [Listers -> ListPlaces]
  BY <1>0, <1>2 DEF Step, PlacesTyped, ListPlaces
<1> QED
  BY <1>4, <1>5, <1>6, <1>7, <1>8

(* A copy for declarations changes the list's place and snapshot alone. *)
LEMMA CopyTyped ==
  ASSUME Types, NEW l \in Listers, NEW names, NEW place \in ListPlaces, NEW next \in ListPlaces,
         Copy(l, names, place, next)
  PROVE  Types'
<1>0. MapsTyped /\ PlacesTyped /\ ServerTyped
  BY DEF Types
<1> DEFINE copies == Copies(names)
           needed == Undeclared(copies) # {}
<1>1. /\ snapshot' = [snapshot EXCEPT ![l] = IF needed THEN copies ELSE <<>>]
      /\ Step(l, IF needed THEN place ELSE next)
      /\ UNCHANGED <<server, registries, reg, seen, client, faults, calls>>
  BY DEF Copy
<1>2. IsToolMap(copies) /\ IsToolMap(<<>>)
  BY <1>0, CopiesTyped, EmptyMap
<1> HIDE DEF copies, needed
<1>3. MapsTyped'
  BY <1>0, <1>1, <1>2 DEF MapsTyped
<1>4. PlacesTyped'
  BY <1>0, <1>1 DEF PlacesTyped, Step, calls
<1> QED
  BY <1>1, <1>3, <1>4, TypesStay DEF Types

(* Each action of the customer, of a list and of a call keeps the types. *)
LEMMA TypesNext == Types /\ [Next]_vars => Types'
<1> SUFFICES ASSUME Types, [Next]_vars PROVE Types'
  OBVIOUS
<1>0. ServerTyped /\ ClientTyped /\ FaultsTyped /\ RegTyped /\ PlacesTyped /\ MapsTyped
  BY DEF Types
<1>s. setup.session \subseteq Tools /\ setup.first \subseteq Tools
  BY <1>0, SchemasAssumption DEF ServerTyped
<1>1. ASSUME NEW t \in Tools, NEW tool, Change(t, tool), tool # None => IsTool(tool) PROVE Types'
  <2>1. /\ version[t] < MaxVersions /\ version' = [version EXCEPT ![t] = @ + 1]
        /\ tools' = [tools EXCEPT ![t] = tool] /\ crossed' = crossed \cup Crossing(t)
        /\ UNCHANGED <<setup, registries, reg, lists, client, raced, calls>>
    BY <1>1 DEF Change
  <2>2. ServerTyped'
    BY <1>0, <1>1, <2>1, SchemasAssumption DEF ServerTyped
  <2>3. FaultsTyped'
    BY <1>0, <2>1 DEF FaultsTyped, Crossing
  <2> QED
    BY <1>0, <2>1, <2>2, <2>3, TypesStay DEF Types, lists, calls
<1>2. ASSUME NEW t \in Tools, NEW form \in Forms, AddTool(t, form) PROVE Types'
  <2>1. version[t] < MaxVersions
    BY <1>2 DEF AddTool, Change
  <2>2. version[t] + 1 \in 0..MaxVersions
    BY <1>0, <2>1, SchemasAssumption DEF ServerTyped
  <2>3. IsTool(Written(form, version[t] + 1))
    BY <2>2, WrittenTyped
  <2> QED
    BY <1>1, <1>2, <2>3 DEF AddTool
<1>3. ASSUME NEW t \in Tools, DeleteTool(t) PROVE Types'
  BY <1>1, <1>3 DEF DeleteTool
<1>4. ASSUME NEW l \in Lists, ListTools(l) PROVE Types'
  <2>1. PICK page \in {FirstPage, Tools \ FirstPage} \ {{}} : Collect(l, page)
    BY <1>4 DEF ListTools
  <2>2. page \in SUBSET Tools /\ l \in Listers
    BY <1>s DEF FirstPage, Listers
  <2>3. ServerTyped' /\ RegTyped' /\ MapsTyped' /\ FaultsTyped' /\ lpc' \in [Listers -> ListPlaces]
    BY <2>1, <2>2, CollectTyped
  <2>4. /\ relist \/ wishes > 0
        /\ relist' = FALSE /\ wishes' = (IF relist THEN wishes ELSE wishes - 1)
        /\ UNCHANGED <<known, calls>>
    BY <1>4 DEF ListTools
  <2>5. wishes' \in 0..Wishes
    BY <1>0, <2>4, SchemasAssumption DEF ClientTyped
  <2>6. ClientTyped'
    BY <1>0, <2>4, <2>5 DEF ClientTyped
  <2> QED
    BY <1>0, <2>3, <2>4, <2>6 DEF Types, PlacesTyped, calls
<1>5. ASSUME NEW l \in Listers, MergeRegistries(l) PROVE Types'
  <2>1. UNCHANGED <<server, seen, snapshot, client, faults, calls>>
    BY <1>5 DEF MergeRegistries
  <2>2. CASE registries = reg[l]
    <3>1. /\ registries' = Merge(reg[l], Registries(cfg, seen[l]), None)
          /\ reg' = [reg EXCEPT ![l] = IF l \in Calls THEN registries' ELSE None]
          /\ Step(l, AfterMerge)
      BY <1>5, <2>2 DEF MergeRegistries
    <3>2. IsRegistries(registries')
      BY <1>0, <3>1, Merging DEF RegTyped, MapsTyped
    <3>3. RegTyped'
      BY <1>0, <3>1, <3>2 DEF RegTyped, IsRegistries
    <3>4. PlacesTyped'
      BY <1>0, <2>1, <3>1 DEF PlacesTyped, Step, AfterMerge, ListPlaces, calls
    <3> QED
      BY <1>0, <2>1, <3>3, <3>4, TypesStay DEF Types
  <2>3. CASE registries # reg[l]
    <3>1. reg' = [reg EXCEPT ![l] = registries] /\ UNCHANGED <<registries, lpc>>
      BY <1>5, <2>3 DEF MergeRegistries
    <3>2. RegTyped'
      BY <1>0, <3>1 DEF RegTyped
    <3> QED
      BY <1>0, <2>1, <3>1, <3>2, TypesStay DEF Types, calls
  <2> QED
    BY <2>2, <2>3
<1>6. ASSUME NEW l \in Listers, CopyGlobalTools(l) \/ CopySessionTools(l) PROVE Types'
  BY <1>6, CopyTyped DEF CopyGlobalTools, CopySessionTools, AfterGlobal, ListPlaces
<1>7. ASSUME NEW l \in Listers, ApplyDeclarations(l) PROVE Types'
  <2>1. /\ tools' = [t \in Tools |->
             IF /\ t \in Undeclared(snapshot[l]) /\ tools[t] # None
                /\ Schema(tools[t]) = Schema(snapshot[l][t])
             THEN Declared(cfg, tools[t]) ELSE tools[t]]
        /\ snapshot' = [snapshot EXCEPT ![l] = <<>>] /\ Step(l, AfterGlobal)
        /\ UNCHANGED <<setup, version, registries, reg, seen, client, faults, calls>>
    BY <1>7 DEF ApplyDeclarations
  <2>2. \A t \in Tools : tools'[t] \in {tools[t], Declared(cfg, tools[t])}
                         /\ (tools[t] = None => tools'[t] = None)
    BY <2>1
  <2>3. DOMAIN tools' = Tools
    BY <2>1
  <2>4. ServerTyped'
    BY <1>0, <2>1, <2>2, <2>3, Injecting DEF ServerTyped
  <2>5. MapsTyped'
    BY <1>0, <2>1, EmptyMap DEF MapsTyped
  <2>6. PlacesTyped'
    BY <1>0, <2>1 DEF PlacesTyped, Step, AfterGlobal, ListPlaces, calls
  <2> QED
    BY <1>0, <2>1, <2>4, <2>5, <2>6, TypesStay DEF Types
<1>8. ASSUME NEW l \in Listers, AddSessionTools(l) PROVE Types'
  <2> DEFINE changed == Undeclared(snapshot[l])
  <2>1. /\ tools' = [t \in Tools |->
             IF t \in changed THEN Declared(cfg, snapshot[l][t]) ELSE tools[t]]
        /\ relist' = (relist \/ changed # {})
        /\ snapshot' = [snapshot EXCEPT ![l] = <<>>] /\ Step(l, "return")
        /\ UNCHANGED <<setup, version, registries, reg, seen, known, wishes, faults, calls>>
    BY <1>8 DEF AddSessionTools
  <2>2. \A t \in changed : IsTool(snapshot[l][t])
    BY <1>0 DEF Undeclared, MapsTyped, IsToolMap
  <2> HIDE DEF changed
  <2>3. \A t \in Tools : tools'[t] # None => IsTool(tools'[t])
    BY <1>0, <2>1, <2>2, Injecting DEF ServerTyped
  <2>4. DOMAIN tools' = Tools
    BY <2>1
  <2>5. ServerTyped'
    BY <1>0, <2>1, <2>3, <2>4 DEF ServerTyped
  <2>6. ClientTyped'
    BY <1>0, <2>1 DEF ClientTyped
  <2>7. MapsTyped'
    BY <1>0, <2>1, EmptyMap DEF MapsTyped
  <2>8. PlacesTyped'
    BY <1>0, <2>1 DEF PlacesTyped, Step, ListPlaces, calls
  <2> QED
    BY <1>0, <2>1, <2>5, <2>6, <2>7, <2>8, TypesStay DEF Types
<1>9. ASSUME NEW l \in Listers, Return(l) PROVE Types'
  <2>1. /\ known' = IF l \in Calls THEN known
              ELSE [t \in Tools |-> IF t \in DOMAIN seen[l]
                                    THEN Heard(Advertised(cfg, seen[l][t]), TRUE) ELSE known[t]]
        /\ seen' = [seen EXCEPT ![l] = <<>>]
        /\ reg' = [reg EXCEPT ![l] = IF l \in Calls /\ adapter = "mcpgo" THEN registries ELSE @]
        /\ Step(l, "idle")
        /\ cpc' = (IF l \in Calls THEN [cpc EXCEPT ![l] = "strip"] ELSE cpc)
        /\ UNCHANGED <<server, registries, snapshot, relist, wishes, faults, call, outcome>>
    BY <1>9 DEF Return
  <2>2. \A t \in DOMAIN seen[l] : IsTool(Heard(Advertised(cfg, seen[l][t]), TRUE).tool)
    BY <1>0, Injecting DEF MapsTyped, IsToolMap, Heard
  <2>3. ClientTyped'
    <3>1. CASE l \in Calls
      BY <1>0, <2>1, <3>1 DEF ClientTyped
    <3>2. CASE l \notin Calls
      <4>1. DOMAIN known' = Tools
        BY <2>1, <3>2
      <4>2. \A t \in Tools : known'[t] # None => IsTool(known'[t].tool)
        BY <1>0, <2>1, <2>2, <3>2 DEF ClientTyped
      <4> QED
        BY <1>0, <2>1, <4>1, <4>2 DEF ClientTyped
    <3> QED
      BY <3>1, <3>2
  <2>4. MapsTyped'
    BY <1>0, <2>1, EmptyMap DEF MapsTyped
  <2>5. PlacesTyped'
    BY <1>0, <2>1 DEF PlacesTyped, Step, ListPlaces, CallPlaces
  <2>6. RegTyped'
    BY <1>0, <2>1 DEF RegTyped
  <2> QED
    BY <1>0, <2>1, <2>3, <2>4, <2>5, <2>6, TypesStay DEF Types
<1>10. ASSUME NEW c \in Calls, NEW place \in CallPlaces, cpc' = [cpc EXCEPT ![c] = place],
              UNCHANGED <<server, registries, lists, client, faults>>,
              \/ reg' = reg
              \/ \E r : IsRegistries(r) /\ reg' = [reg EXCEPT ![c] = r]
       PROVE  Types'
  <2>1. PlacesTyped'
    BY <1>0, <1>10 DEF PlacesTyped, lists
  <2>2. RegTyped'
    <3>1. CASE reg' = reg
      BY <1>0, <1>10, <3>1, TypesStay
    <3>2. ASSUME NEW r, IsRegistries(r), reg' = [reg EXCEPT ![c] = r] PROVE RegTyped'
      BY <1>0, <1>10, <3>2 DEF RegTyped
    <3> QED
      BY <1>10, <3>1, <3>2
  <2> QED
    BY <1>0, <1>10, <2>1, <2>2, TypesStay DEF Types, lists
<1>11. ASSUME NEW c \in Calls, NEW t \in Tools, NEW args, CallTool(c, t, args) PROVE Types'
  <2>1. UNCHANGED <<server, registries, reg, lists, client, faults>>
    BY <1>11 DEF CallTool
  <2>2. PICK place \in CallPlaces : cpc' = [cpc EXCEPT ![c] = place]
    <3>1. \/ Lookup(c, Call(t, args, known[t]), args, "load")
          \/ cpc' = [cpc EXCEPT ![c] = "load"]
      BY <1>11 DEF CallTool
    <3> QED
      BY <3>1 DEF Lookup, CallPlaces
  <2> QED
    BY <1>10, <2>1, <2>2
<1>12. ASSUME NEW c \in Calls, LoadForCall(c) PROVE Types'
  <2>1. /\ reg' = [reg EXCEPT ![c] = registries] /\ IsRegistries(registries)
        /\ UNCHANGED <<server, registries, lists, client, faults>>
    BY <1>0, <1>12 DEF LoadForCall, RegTyped
  <2>2. PICK place \in CallPlaces : cpc' = [cpc EXCEPT ![c] = place]
    BY <1>12 DEF LoadForCall, CallPlaces
  <2> QED
    BY <1>10, <2>1, <2>2
<1>13. ASSUME NEW c \in Calls, Rebuild(c) PROVE Types'
  <2>1. /\ Collect(c, FirstPage) /\ UNCHANGED <<client, call, outcome>>
        /\ cpc' = [cpc EXCEPT ![c] = "rebuilding"]
        /\ FirstPage \in SUBSET Tools /\ c \in Listers
    BY <1>s, <1>13 DEF Rebuild, FirstPage, Listers
  <2>2. ServerTyped' /\ RegTyped' /\ MapsTyped' /\ FaultsTyped' /\ lpc' \in [Listers -> ListPlaces]
    BY <2>1, CollectTyped
  <2>3. PlacesTyped'
    BY <1>0, <2>1, <2>2 DEF PlacesTyped, CallPlaces
  <2>4. ClientTyped'
    BY <1>0, <2>1, TypesStay
  <2> QED
    BY <2>2, <2>3, <2>4 DEF Types
<1>14. ASSUME NEW c \in Calls, RebuildFails(c) PROVE Types'
  <2>1. /\ reg' = [reg EXCEPT ![c] = IF adapter = "mcpgo" THEN registries ELSE @]
        /\ UNCHANGED <<server, registries, lists, client, faults>> /\ c \in Listers
    BY <1>14 DEF RebuildFails, Listers
  <2>2. \E r : IsRegistries(r) /\ reg' = [reg EXCEPT ![c] = r]
    BY <1>0, <2>1 DEF RegTyped
  <2>3. cpc' = [cpc EXCEPT ![c] = "strip"] /\ "strip" \in CallPlaces
    BY <1>14 DEF RebuildFails, CallPlaces
  <2> QED
    BY <1>10, <2>1, <2>2, <2>3
<1>15. ASSUME NEW c \in Calls, StripArguments(c) PROVE Types'
  <2>1. /\ reg' = [reg EXCEPT ![c] = None] /\ IsRegistries(None)
        /\ UNCHANGED <<server, registries, lists, client, faults>>
    BY <1>15 DEF StripArguments, IsRegistries
  <2>2. PICK place \in CallPlaces : cpc' = [cpc EXCEPT ![c] = place]
    BY <1>15 DEF StripArguments, CallPlaces
  <2> QED
    BY <1>10, <2>1, <2>2
<1>16. ASSUME NEW c \in Calls, Dispatch(c) \/ Finish(c) PROVE Types'
  <2>1. UNCHANGED <<server, registries, reg, lists, client, faults>>
    BY <1>16 DEF Dispatch, Finish
  <2>2. PICK place \in CallPlaces : cpc' = [cpc EXCEPT ![c] = place]
    BY <1>16 DEF Dispatch, Finish, Lookup, CallPlaces
  <2> QED
    BY <1>10, <2>1, <2>2
<1>17. CASE UNCHANGED vars
  BY <1>0, <1>17, TypesStay DEF Types, vars, lists, calls
<1> QED
  BY <1>2, <1>3, <1>4, <1>5, <1>6, <1>7, <1>8, <1>9, <1>11, <1>12, <1>13, <1>14, <1>15, <1>16,
     <1>17 DEF Next, ListSteps, CallSteps

(* Every variable has its type: the registries, the registered tools and what *)
(* each request holds of them.                                                *)
THEOREM TypeCorrect == Spec => []TypeOK
<1>1. Types => TypeOK
  BY DEF Types, TypeOK, ServerTyped, ClientTyped, FaultsTyped, RegTyped, PlacesTyped, MapsTyped
<1> QED
  BY <1>1, TypesInit, TypesNext, PTL DEF Spec

(* ------------------------- No list's entries lost ------------------------- *)

Known(t) == registries # None /\ t \in DOMAIN registries

(* Only a merge changes the registries, and it keeps what they know. *)
LEMMA KnownStays ==
  ASSUME Types, [Next]_vars
  PROVE  \A t \in Tools : Known(t) => Known(t)'
<1>0. RegTyped /\ MapsTyped
  BY DEF Types
<1>1. ASSUME NEW l \in Listers, MergeRegistries(l) PROVE \A t \in Tools : Known(t) => Known(t)'
  <2>1. CASE registries = reg[l]
    <3>1. registries' = Merge(registries, Registries(cfg, seen[l]), None)
      BY <1>1, <2>1 DEF MergeRegistries
    <3> QED
      BY <1>0, <3>1, Merging DEF Known, RegTyped, MapsTyped
  <2>2. CASE registries # reg[l]
    BY <1>1, <2>2 DEF MergeRegistries, Known
  <2> QED
    BY <2>1, <2>2
<1>2. ASSUME registries' = registries PROVE \A t \in Tools : Known(t) => Known(t)'
  BY <1>2 DEF Known
<1>3. ASSUME NEW l \in Listers, ListSteps(l), ~MergeRegistries(l) PROVE registries' = registries
  BY <1>3 DEF ListSteps, CopyGlobalTools, ApplyDeclarations, CopySessionTools, AddSessionTools,
       Return, Copy
<1>4. ASSUME NEW c \in Calls, CallSteps(c) PROVE registries' = registries
  BY <1>4 DEF CallSteps, LoadForCall, Rebuild, RebuildFails, StripArguments, Dispatch, Finish,
       Collect
<1>5. ASSUME NEW c \in Calls, NEW t \in Tools, NEW args, CallTool(c, t, args)
      PROVE  registries' = registries
  BY <1>5 DEF CallTool
<1>6. ASSUME NEW l \in Lists, ListTools(l) PROVE registries' = registries
  BY <1>6 DEF ListTools, Collect
<1>7. ASSUME NEW t \in Tools, DeleteTool(t) \/ \E form \in Forms : AddTool(t, form)
      PROVE  registries' = registries
  BY <1>7 DEF DeleteTool, AddTool, Change
<1> QED
  BY <1>1, <1>2, <1>3, <1>4, <1>5, <1>6, <1>7 DEF Next, vars

Told == \A t \in Tools : known[t] # None /\ known[t].here => Known(t)
Listed(l) == lpc[l] \notin {"idle", "loaded"} => \A t \in DOMAIN seen[l] : Known(t)
Counted == Told /\ \A l \in Listers : Listed(l)

(* At first the client was told of nothing on this instance. *)
LEMMA CountedInit == Init => Counted
<1> SUFFICES ASSUME Init PROVE Counted
  OBVIOUS
<1>1. ASSUME NEW t \in Tools PROVE ~(known[t] # None /\ known[t].here)
  <2>1. PICK forms \in [Tools -> Forms \cup {GetMoreForm, None}] :
       known = [u \in Tools |->
            IF forms[u] = None THEN None
            ELSE Heard(Advertised(cfg, Written(forms[u], 1)), FALSE)]
    BY DEF Init
  <2>2. known[t] = None \/ known[t].here = FALSE
    BY <2>1 DEF Heard
  <2> QED
    BY <2>2
<1>2. \A l \in Listers : lpc[l] = "idle"
  BY DEF Init
<1> QED
  BY <1>1, <1>2 DEF Counted, Told, Listed

(* A step that leaves a list's pages and what the client knows alone. *)
LEMMA CountedStays ==
  ASSUME Counted, Types, \A t \in Tools : Known(t) => Known(t)',
         known' = known, seen' = seen,
         \A l \in Listers : lpc[l] \in {"idle", "loaded"} => lpc'[l] \in {"idle", "loaded"}
  PROVE  Counted'
  BY DEF Counted, Told, Listed, Known, Types, MapsTyped, IsToolMap

(* A list that begins has not merged yet. *)
LEMMA CountedCollect ==
  ASSUME Counted, Types, \A t \in Tools : Known(t) => Known(t)',
         NEW l \in Listers, NEW page, Collect(l, page), known' = known
  PROVE  Counted'
<1>1. lpc' = [lpc EXCEPT ![l] = "loaded"] /\ seen' = [seen EXCEPT ![l] = Copies(page)]
  BY DEF Collect, Step
<1>2. Told'
  BY DEF Counted, Told
<1>3. ASSUME NEW m \in Listers PROVE Listed(m)'
  <2>1. CASE m = l
    BY <1>1, <2>1 DEF Listed, Types, PlacesTyped
  <2>2. CASE m # l
    BY <1>1, <2>2 DEF Counted, Listed, Types, PlacesTyped, MapsTyped, IsToolMap
  <2> QED
    BY <2>1, <2>2
<1> QED
  BY <1>2, <1>3 DEF Counted

(* An entry is there before a list returns, and no merge takes one away. *)
LEMMA CountedNext == Types /\ Counted /\ [Next]_vars => Counted'
<1> SUFFICES ASSUME Types, Counted, [Next]_vars PROVE Counted'
  OBVIOUS
<1>0. RegTyped /\ MapsTyped /\ PlacesTyped /\ ClientTyped
  BY DEF Types
<1>k. \A t \in Tools : Known(t) => Known(t)'
  BY KnownStays
<1>1. ASSUME known' = known, seen' = seen, lpc' = lpc PROVE Counted'
  BY <1>k, <1>1, CountedStays
<1>2. ASSUME NEW l \in Listers, MergeRegistries(l) PROVE Counted'
  <2>1. known' = known /\ seen' = seen
    BY <1>2 DEF MergeRegistries, client
  <2>2. CASE registries = reg[l]
    <3>1. registries' = Merge(registries, Registries(cfg, seen[l]), None)
          /\ lpc' = [lpc EXCEPT ![l] = AfterMerge]
      BY <1>2, <2>2 DEF MergeRegistries, Step
    <3>2. \A t \in DOMAIN seen[l] : Known(t)'
      BY <1>0, <3>1, Merging DEF Known, RegTyped, MapsTyped
    <3>3. Told'
      BY <1>k, <2>1 DEF Counted, Told
    <3>4. ASSUME NEW m \in Listers PROVE Listed(m)'
      <4>1. CASE m = l
        BY <2>1, <3>2, <4>1 DEF Listed
      <4>2. CASE m # l
        BY <1>0, <1>k, <2>1, <3>1, <4>2 DEF Counted, Listed, PlacesTyped, MapsTyped, IsToolMap
      <4> QED
        BY <4>1, <4>2
    <3> QED
      BY <3>3, <3>4 DEF Counted
  <2>3. CASE registries # reg[l]
    BY <1>1, <1>2, <2>1, <2>3 DEF MergeRegistries
  <2> QED
    BY <2>2, <2>3
<1>3. ASSUME NEW l \in Listers,
             CopyGlobalTools(l) \/ ApplyDeclarations(l) \/ CopySessionTools(l) \/ AddSessionTools(l)
      PROVE  Counted'
  <2>1. known' = known /\ seen' = seen /\ lpc[l] \notin {"idle", "loaded"}
    BY <1>3 DEF CopyGlobalTools, ApplyDeclarations, CopySessionTools, AddSessionTools, Copy, client
  <2>2. PICK place \in ListPlaces : lpc' = [lpc EXCEPT ![l] = place]
    BY <1>3 DEF CopyGlobalTools, ApplyDeclarations, CopySessionTools, AddSessionTools, Copy, Step,
         AfterGlobal, ListPlaces
  <2>3. \A m \in Listers : m # l => lpc'[m] = lpc[m]
    BY <1>0, <2>2 DEF PlacesTyped
  <2> QED
    BY <1>k, <2>1, <2>3, CountedStays
<1>4. ASSUME NEW l \in Listers, Return(l) PROVE Counted'
  <2>1. /\ lpc[l] = "return" /\ lpc' = [lpc EXCEPT ![l] = "idle"]
        /\ seen' = [seen EXCEPT ![l] = <<>>]
        /\ \A t \in Tools : known'[t] = known[t] \/ t \in DOMAIN seen[l]
    BY <1>4 DEF Return, Step
  <2>2. \A t \in DOMAIN seen[l] : Known(t)
    BY <2>1 DEF Counted, Listed
  <2>3. Told'
    BY <1>k, <2>1, <2>2 DEF Counted, Told
  <2>4. ASSUME NEW m \in Listers PROVE Listed(m)'
    <3>1. CASE m = l
      BY <1>0, <2>1, <3>1 DEF Listed, PlacesTyped
    <3>2. CASE m # l
      BY <1>0, <1>k, <2>1, <3>2 DEF Counted, Listed, PlacesTyped, MapsTyped, IsToolMap
    <3> QED
      BY <3>1, <3>2
  <2> QED
    BY <2>3, <2>4 DEF Counted
<1>5. ASSUME NEW l \in Lists, ListTools(l) PROVE Counted'
  BY <1>k, <1>5, CountedCollect DEF ListTools, Listers
<1>6. ASSUME NEW c \in Calls, Rebuild(c) PROVE Counted'
  BY <1>k, <1>6, CountedCollect DEF Rebuild, Listers, client
<1>7. ASSUME NEW c \in Calls,
             \/ LoadForCall(c) \/ RebuildFails(c) \/ StripArguments(c) \/ Dispatch(c) \/ Finish(c)
             \/ \E t \in Tools, args \in SUBSET Params : CallTool(c, t, args)
      PROVE  Counted'
  BY <1>1, <1>7 DEF LoadForCall, RebuildFails, StripArguments, Dispatch, Finish, CallTool, lists,
       client
<1>8. ASSUME NEW t \in Tools, DeleteTool(t) \/ \E form \in Forms : AddTool(t, form)
      PROVE  Counted'
  BY <1>1, <1>8 DEF DeleteTool, AddTool, Change, lists, client
<1>9. CASE UNCHANGED vars
  BY <1>1, <1>9 DEF vars, lists, client
<1> QED
  BY <1>2, <1>3, <1>4, <1>5, <1>6, <1>7, <1>8, <1>9 DEF Next, ListSteps, CallSteps

(* However lists and rebuilds overlap, no merge undoes another: every tool    *)
(* the client was told of on this instance has its entry.                     *)
THEOREM EveryListAlwaysCounts == Spec => []EveryListCounts
<1>1. Counted => EveryListCounts
  BY DEF Counted, Told, Listed, Known, EveryListCounts
<1> QED
  BY <1>1, TypesInit, TypesNext, CountedInit, CountedNext, PTL DEF Spec

(* ---------------------- The customer's registrations ---------------------- *)

(* A copy is of the customer's last version, unless it crossed a change, and  *)
(* what is to be added is a copy of tools that live in the session.           *)
Copied(l) ==
  /\ \A t \in DOMAIN snapshot[l] :
       /\ snapshot[l][t].required \subseteq snapshot[l][t].owns
       /\ snapshot[l][t].version = version[t] \/ t \in crossed
  /\ lpc[l] = "add" => DOMAIN snapshot[l] \subseteq SessionTools

Kept == CustomerRegistrationKept /\ \A l \in Listers : Copied(l)

(* At first every tool is in its first version. *)
LEMMA KeptInit == Init => Kept
<1> SUFFICES ASSUME Init PROVE Kept
  OBVIOUS
<1>1. PICK forms \in [Tools -> Forms \cup {GetMoreForm, None}] :
       /\ version = [t \in Tools |-> IF forms[t] = None THEN 0 ELSE 1]
       /\ tools = [t \in Tools |->
            IF forms[t] = None THEN None
            ELSE IF adapter = "mcpgo" /\ t \in GlobalTools \ Late
                 THEN Declared(cfg, Written(forms[t], 1))
                 ELSE Written(forms[t], 1)]
  BY DEF Init
<1>2. ASSUME NEW t \in Tools, tools[t] # None
      PROVE  tools[t].required \subseteq tools[t].owns /\ tools[t].version = version[t]
  <2>1. forms[t] # None /\ version[t] = 1
    BY <1>1, <1>2
  <2> DEFINE w == Written(forms[t], 1)
  <2>2. IsTool(w) /\ w.required \subseteq w.owns /\ w.version = 1
    BY <1>1, <2>1, WrittenTyped, SchemasAssumption
  <2>3. tools[t] \in {w, Declared(cfg, w)}
    BY <1>1, <2>1
  <2> HIDE DEF w
  <2> QED
    BY <2>1, <2>2, <2>3, Injecting
<1>3. \A l \in Listers : snapshot[l] = <<>> /\ lpc[l] = "idle"
  BY DEF Init
<1>4. \A l \in Listers : Copied(l)
  BY <1>3, EmptyMap DEF Copied
<1> QED
  BY <1>2, <1>4 DEF Kept, CustomerRegistrationKept

(* What touches neither tools nor copies keeps it. *)
LEMMA KeptStays ==
  ASSUME Kept, UNCHANGED <<setup, tools, version, snapshot, crossed>>,
         \A l \in Listers : lpc'[l] = "add" => lpc[l] = "add"
  PROVE  Kept'
  BY DEF Kept, CustomerRegistrationKept, Copied, SessionTools

(* A copy is of the version that is registered at that moment. *)
LEMMA KeptCopy ==
  ASSUME Types, Kept, NEW l \in Listers, NEW names, NEW place, NEW next \in ListPlaces \ {"add"},
         place = "add" => names \subseteq SessionTools, Copy(l, names, place, next)
  PROVE  Kept'
<1> DEFINE needed == Undeclared(Copies(names)) # {}
<1>1. /\ snapshot' = [snapshot EXCEPT ![l] = IF needed THEN Copies(names) ELSE <<>>]
      /\ lpc' = [lpc EXCEPT ![l] = IF needed THEN place ELSE next]
      /\ setup' = setup /\ tools' = tools /\ version' = version /\ crossed' = crossed
  BY DEF Copy, Step, server, faults
<1>2. /\ DOMAIN Copies(names) = names \cap Registered
      /\ \A t \in names \cap Registered : Copies(names)[t] = tools[t] /\ tools[t] # None
      /\ names \cap Registered \subseteq Tools
  BY DEF Copies, Registered
<1> HIDE DEF needed
<1>3. DOMAIN snapshot = Listers /\ lpc \in [Listers -> ListPlaces]
  BY DEF Types, MapsTyped, PlacesTyped
<1>4. Copied(l)'
  <2>1. CASE needed
    <3>1. snapshot'[l] = Copies(names) /\ (lpc'[l] = "add" => names \subseteq SessionTools)
      BY <1>1, <1>3, <2>1
    <3> QED
      BY <1>1, <1>2, <3>1 DEF Copied, Kept, CustomerRegistrationKept, SessionTools
  <2>2. CASE ~needed
    <3>1. snapshot'[l] = <<>> /\ lpc'[l] # "add"
      BY <1>1, <1>3, <2>2
    <3> QED
      BY <3>1, EmptyMap DEF Copied
  <2> QED
    BY <2>1, <2>2
<1>5. ASSUME NEW m \in Listers, m # l PROVE Copied(m)'
  BY <1>1, <1>3, <1>5 DEF Copied, Kept, SessionTools
<1>6. CustomerRegistrationKept'
  BY <1>1 DEF Kept, CustomerRegistrationKept, SessionTools
<1> QED
  BY <1>4, <1>5, <1>6 DEF Kept

(* The SDK writes a schema back only over the one it copied, or over a tool of *)
(* a session that the customer changed meanwhile.                             *)
LEMMA KeptNext == Types /\ Kept /\ [Next]_vars => Kept'
<1> SUFFICES ASSUME Types, Kept, [Next]_vars PROVE Kept'
  OBVIOUS
<1>0. MapsTyped /\ PlacesTyped /\ ServerTyped
  BY DEF Types
<1>1. ASSUME UNCHANGED <<setup, tools, version, snapshot, crossed, lpc>> PROVE Kept'
  BY <1>1, KeptStays
<1>2. ASSUME NEW t \in Tools, NEW tool, Change(t, tool),
             tool # None => tool.required \subseteq tool.owns /\ tool.version = version[t] + 1
      PROVE  Kept'
  <2>1. /\ version' = [version EXCEPT ![t] = @ + 1] /\ tools' = [tools EXCEPT ![t] = tool]
        /\ crossed' = crossed \cup Crossing(t)
        /\ setup' = setup /\ snapshot' = snapshot /\ lpc' = lpc
    BY <1>2 DEF Change, lists
  <2>2. /\ version'[t] = version[t] + 1 /\ \A u \in Tools : u # t => version'[u] = version[u]
        /\ tools'[t] = tool /\ \A u \in Tools : u # t => tools'[u] = tools[u]
    BY <1>0, <2>1 DEF ServerTyped
  <2>3. CustomerRegistrationKept'
    BY <1>2, <2>1, <2>2 DEF Kept, CustomerRegistrationKept, SessionTools
  <2>4. ASSUME NEW l \in Listers PROVE Copied(l)'
    <3>1. DOMAIN snapshot[l] \subseteq Tools
      BY <1>0 DEF MapsTyped, IsToolMap
    <3>2. t \in DOMAIN snapshot[l] => t \in crossed'
      BY <2>1 DEF Crossing
    <3> QED
      BY <2>1, <2>2, <3>1, <3>2 DEF Kept, Copied, SessionTools
  <2> QED
    BY <2>3, <2>4 DEF Kept
<1>3. ASSUME NEW t \in Tools, NEW form \in Forms, AddTool(t, form) PROVE Kept'
  <2>1. version[t] < MaxVersions /\ version[t] \in 0..MaxVersions
    BY <1>0, <1>3 DEF AddTool, Change, ServerTyped
  <2>2. version[t] + 1 \in 0..MaxVersions
    BY <2>1, SchemasAssumption
  <2> QED
    BY <1>2, <1>3, <2>2, WrittenTyped DEF AddTool
<1>4. ASSUME NEW t \in Tools, DeleteTool(t) PROVE Kept'
  BY <1>2, <1>4 DEF DeleteTool
<1>5. ASSUME NEW l \in Listers, CopyGlobalTools(l) PROVE Kept'
  BY <1>5, KeptCopy DEF CopyGlobalTools, AfterGlobal, ListPlaces
<1>6. ASSUME NEW l \in Listers, CopySessionTools(l) PROVE Kept'
  BY <1>6, KeptCopy DEF CopySessionTools, ListPlaces
<1>7. ASSUME NEW l \in Listers, lpc' = [lpc EXCEPT ![l] = "return"]
                                \/ lpc' = [lpc EXCEPT ![l] = "session"],
             snapshot' = [snapshot EXCEPT ![l] = <<>>],
             setup' = setup, version' = version, crossed' = crossed
      PROVE  \A m \in Listers : Copied(m)'
  <2>1. snapshot'[l] = <<>> /\ lpc'[l] # "add"
    BY <1>0, <1>7 DEF MapsTyped, PlacesTyped
  <2>2. Copied(l)'
    BY <2>1, EmptyMap DEF Copied
  <2>3. ASSUME NEW m \in Listers, m # l PROVE Copied(m)'
    <3>1. snapshot'[m] = snapshot[m] /\ lpc'[m] = lpc[m]
      BY <1>0, <1>7, <2>3 DEF MapsTyped, PlacesTyped
    <3> QED
      BY <1>7, <3>1 DEF Copied, Kept, SessionTools
  <2> QED
    BY <2>2, <2>3
<1>8. ASSUME NEW l \in Listers, ApplyDeclarations(l) PROVE Kept'
  <2>1. /\ tools' = [t \in Tools |->
             IF /\ t \in Undeclared(snapshot[l]) /\ tools[t] # None
                /\ Schema(tools[t]) = Schema(snapshot[l][t])
             THEN Declared(cfg, tools[t]) ELSE tools[t]]
        /\ snapshot' = [snapshot EXCEPT ![l] = <<>>] /\ Step(l, AfterGlobal)
        /\ setup' = setup /\ version' = version /\ crossed' = crossed
    BY <1>8 DEF ApplyDeclarations, faults
  <2>2. \A t \in Tools : tools'[t] \in {tools[t], Declared(cfg, tools[t])}
                         /\ (tools[t] = None => tools'[t] = None)
    BY <2>1
  <2>3. \A t \in Tools : tools'[t] # None =>
          /\ tools[t] # None /\ tools'[t].required = tools[t].required
          /\ tools'[t].owns = tools[t].owns /\ tools'[t].version = tools[t].version
    BY <1>0, <2>2, Injecting DEF ServerTyped
  <2>4. CustomerRegistrationKept'
    BY <2>1, <2>3 DEF Kept, CustomerRegistrationKept, SessionTools
  <2>5. \A m \in Listers : Copied(m)'
    BY <1>7, <2>1 DEF Step, AfterGlobal
  <2> QED
    BY <2>4, <2>5 DEF Kept
<1>9. ASSUME NEW l \in Listers, AddSessionTools(l) PROVE Kept'
  <2>1. /\ tools' = [t \in Tools |-> IF t \in Undeclared(snapshot[l])
                                     THEN Declared(cfg, snapshot[l][t]) ELSE tools[t]]
        /\ snapshot' = [snapshot EXCEPT ![l] = <<>>] /\ Step(l, "return") /\ lpc[l] = "add"
        /\ setup' = setup /\ version' = version /\ crossed' = crossed
    BY <1>9 DEF AddSessionTools, faults
  <2>2. Undeclared(snapshot[l]) \subseteq DOMAIN snapshot[l] \cap SessionTools
    BY <2>1 DEF Undeclared, Kept, Copied
  <2>3. ASSUME NEW t \in Undeclared(snapshot[l])
        PROVE  LET d == Declared(cfg, snapshot[l][t]) IN
               /\ d.required \subseteq d.owns
               /\ d.version = version[t] \/ t \in crossed
    <3>1. IsTool(snapshot[l][t])
      BY <1>0, <2>2 DEF MapsTyped, IsToolMap
    <3> QED
      BY <2>2, <3>1, Injecting DEF Kept, Copied
  <2>4. CustomerRegistrationKept'
    <3> SUFFICES ASSUME NEW t \in Tools, tools'[t] # None
                 PROVE  /\ tools'[t].required \subseteq tools'[t].owns
                        /\ tools'[t].version = version'[t] \/ t \in SessionTools' \cap crossed'
      BY DEF CustomerRegistrationKept
    <3>1. SessionTools' = SessionTools
      BY <2>1 DEF SessionTools
    <3>2. CASE t \in Undeclared(snapshot[l])
      BY <2>1, <2>2, <2>3, <3>1, <3>2
    <3>3. CASE t \notin Undeclared(snapshot[l])
      <4>1. tools'[t] = tools[t]
        BY <2>1, <3>3
      <4> QED
        BY <2>1, <3>1, <4>1 DEF Kept, CustomerRegistrationKept
    <3> QED
      BY <3>2, <3>3
  <2>5. \A m \in Listers : Copied(m)'
    BY <1>7, <2>1 DEF Step
  <2> QED
    BY <2>4, <2>5 DEF Kept
<1>10. ASSUME NEW l \in Listers, NEW place \in ListPlaces \ {"add"},
              lpc' = lpc \/ lpc' = [lpc EXCEPT ![l] = place],
              UNCHANGED <<setup, tools, version, snapshot, crossed>>
       PROVE  Kept'
  <2>1. \A m \in Listers : lpc'[m] = "add" => lpc[m] = "add"
    BY <1>0, <1>10 DEF PlacesTyped
  <2> QED
    BY <1>10, <2>1, KeptStays
<1>11. ASSUME NEW l \in Listers, MergeRegistries(l) PROVE Kept'
  <2>1. UNCHANGED <<setup, tools, version, snapshot, crossed>>
    BY <1>11 DEF MergeRegistries, server, faults
  <2>2. lpc' = lpc \/ lpc' = [lpc EXCEPT ![l] = AfterMerge]
    BY <1>11 DEF MergeRegistries, Step
  <2>3. AfterMerge \in ListPlaces \ {"add"}
    BY DEF AfterMerge, ListPlaces
  <2> QED
    BY <1>10, <2>1, <2>2, <2>3
<1>12. ASSUME NEW l \in Listers, Return(l) PROVE Kept'
  <2>1. UNCHANGED <<setup, tools, version, snapshot, crossed>> /\ Step(l, "idle")
    BY <1>12 DEF Return, server, faults
  <2> QED
    BY <1>10, <2>1 DEF Step, ListPlaces
<1>13. ASSUME NEW l \in Listers, NEW page, Collect(l, page) PROVE Kept'
  <2>1. UNCHANGED <<setup, tools, version, snapshot, crossed>> /\ Step(l, "loaded")
    BY <1>13 DEF Collect, server
  <2> QED
    BY <1>10, <2>1 DEF Step, ListPlaces
<1>14. ASSUME NEW l \in Lists, ListTools(l) PROVE Kept'
  BY <1>13, <1>14 DEF ListTools, Listers
<1>15. ASSUME NEW c \in Calls, Rebuild(c) PROVE Kept'
  BY <1>13, <1>15 DEF Rebuild, Listers
<1>16. ASSUME NEW c \in Calls,
              \/ LoadForCall(c) \/ RebuildFails(c) \/ StripArguments(c) \/ Dispatch(c) \/ Finish(c)
              \/ \E t \in Tools, args \in SUBSET Params : CallTool(c, t, args)
       PROVE  Kept'
  BY <1>1, <1>16 DEF LoadForCall, RebuildFails, StripArguments, Dispatch, Finish, CallTool, lists,
       faults, server
<1>17. CASE UNCHANGED vars
  BY <1>1, <1>17 DEF vars, lists, faults, server
<1> QED
  BY <1>3, <1>4, <1>5, <1>6, <1>8, <1>9, <1>11, <1>12, <1>14, <1>15, <1>16, <1>17
     DEF Next, ListSteps, CallSteps

(* A declaration never brings a deleted or replaced tool back, but for tools  *)
(* of a session that changed while a list held a copy, and the SDK never      *)
(* requires an argument of its own.                                           *)
THEOREM RegistrationAlwaysKept == Spec => []CustomerRegistrationKept
<1>1. Kept => CustomerRegistrationKept
  BY DEF Kept
<1> QED
  BY <1>1, TypesInit, TypesNext, KeptInit, KeptNext, PTL DEF Spec
=============================================================================
