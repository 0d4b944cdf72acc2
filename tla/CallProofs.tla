------------------------------- MODULE CallProofs -------------------------------
(* Proofs that a call made as the client was told is accepted and reaches the *)
(* handler with the tool's own arguments, for any tools, configurations,      *)
(* requests and versions.  An entry of the registries does not say which      *)
(* registration of its tool it was made from, so the argument is about a       *)
(* history of what was registered, of which every copy, advertised schema and *)
(* entry is a member.                                                         *)
EXTENDS SchemasProofs

(* ------------------------------- The history ------------------------------- *)

(* What each name was registered as, registration by registration; what it    *)
(* says of registrations to come, and of deletions, is of no matter.          *)
Histories ==
  {h \in [Tools -> [1..MaxVersions -> Forms \cup {GetMoreForm}]] :
     GetMoreTools \in Tools => \A n \in 1..MaxVersions : h[GetMoreTools][n] = GetMoreForm}

Nth(h, t, n) == Written(h[t][n], n)

(* With a name registered v times so far: a tool of one of its registrations, *)
(* declared on or not, what the client was told of it, and the entry that was *)
(* made from the n-th.                                                        *)
IsCopy(c, h, t, v, tool) ==
  /\ tool.version \in 1..v
  /\ tool \in {Nth(h, t, tool.version), Declared(c, Nth(h, t, tool.version))}
WasTold(c, h, t, v, heard) ==
  /\ heard.tool.version \in 1..v
  /\ heard.tool = Advertised(c, Nth(h, t, heard.tool.version))
  /\ heard.here \/ heard.tool.version = 1
IsEntry(c, h, t, n, entry) == entry = Entry(c, Nth(h, t, n))

Versions(t) == 1..version[t]
Active(c) == cpc[c] \notin {"idle", "over"}
Holds(l, t) == reg[l] # None /\ t \in DOMAIN reg[l]
HeardHere(c, t) == Active(c) /\ call[c].tool = t /\ call[c].heard.here

(* ------------------------- Tools, copies and entries ------------------------- *)

(* A registration in the history is a tool as the customer wrote it. *)
LEMMA Writing ==
  ASSUME NEW h \in Histories, NEW t \in Tools, NEW n \in 1..MaxVersions
  PROVE  /\ IsTool(Nth(h, t, n)) /\ Nth(h, t, n).version = n
         /\ Nth(h, t, n).required \subseteq Nth(h, t, n).owns /\ Nth(h, t, n).ours = {}
         /\ t = GetMoreTools => "context" \in Nth(h, t, n).owns
<1>1. h[t][n] \in Forms \cup {GetMoreForm}
  BY DEF Histories
<1>2. n \in 0..MaxVersions
  BY SchemasAssumption
<1>3. Nth(h, t, n).ours = {} /\ Nth(h, t, n).owns = h[t][n].owns
  BY DEF Nth, Written
<1>4. t = GetMoreTools => "context" \in h[t][n].owns
  BY FormsAssumption DEF Histories
<1> QED
  BY <1>1, <1>2, <1>3, <1>4, WrittenTyped DEF Nth

(* Declaring once is enough, and a declared tool is listed as any other: with *)
(* the same advertised schema and the same entry (claimProperty, inject.go).  *)
LEMMA DeclaredOnce ==
  ASSUME NEW c, NEW w, IsTool(w)
  PROVE  LET d == Declared(c, w) IN
         /\ IsTool(d) /\ d.version = w.version /\ Declared(c, d) = d
         /\ Entry(c, d) = Entry(c, w) /\ Advertised(c, d) = Advertised(c, w)
<1> DEFINE d == Declared(c, w)
           added == Injected(c, w)
           out == OutputInjected(c, w)
<1>1. DOMAIN w = ToolFields
  BY DEF IsTool
<1>2. d = [w EXCEPT !.ours = @ \cup added, !.mirror = @ \/ out]
  BY DEF Declared
<1> HIDE DEF d, added, out
<1>3. /\ DOMAIN d = ToolFields /\ d.input = w.input /\ d.output = w.output
      /\ d.owns = w.owns /\ d.required = w.required /\ d.version = w.version
      /\ d.ours = w.ours \cup added /\ d.mirror = (w.mirror \/ out)
  BY <1>1, <1>2 DEF ToolFields
<1>4. Readable(d) = Readable(w)
  BY <1>3 DEF Readable
<1>5. Injected(c, d) = added /\ OutputInjected(c, d) = out
  BY <1>3, <1>4 DEF Injected, OutputInjected, added, out
<1>6. Entry(c, d) = Entry(c, w)
  BY <1>3, <1>4, <1>5 DEF Entry, added, out
<1>7. Declared(c, d) = d
  <2>1. Declared(c, d) = [d EXCEPT !.ours = @ \cup added, !.mirror = @ \/ out]
    BY <1>5 DEF Declared
  <2>2. d.ours \cup added = d.ours /\ (d.mirror \/ out) = d.mirror
    BY <1>3
  <2>3. d = [f \in ToolFields |-> d[f]]
    BY <1>2, <1>3
  <2> QED
    BY <2>1, <2>2, <2>3 DEF ToolFields
<1>8. Advertised(c, d) = Advertised(c, w)
  <2> DEFINE all == [f \in ToolFields |->
               CASE f = "input" -> IF Readable(w) THEN "object" ELSE w.input
                 [] f = "ours" -> w.ours \cup added
                 [] f = "required" -> w.required \cup added
                 [] f = "mirror" -> (w.mirror \/ out)
                 [] OTHER -> w[f]]
  <2>1. Advertised(c, w) = all
    BY <1>1 DEF Advertised, added, out, ToolFields
  <2>2. Advertised(c, d) =
          [d EXCEPT !.input = IF Readable(w) THEN "object" ELSE @, !.ours = @ \cup added,
                    !.required = @ \cup added, !.mirror = @ \/ out]
    BY <1>4, <1>5 DEF Advertised
  <2>3. d.ours \cup added = w.ours \cup added
    BY <1>3
  <2>4. (d.mirror \/ out) = (w.mirror \/ out)
    BY <1>3
  <2>5. \A f \in ToolFields : f \notin {"ours", "mirror"} => d[f] = w[f]
    BY <1>3 DEF ToolFields
  <2>6. Advertised(c, d) = all
    BY <1>3, <2>2, <2>3, <2>4, <2>5 DEF ToolFields
  <2> QED
    BY <2>1, <2>6
<1>9. IsTool(d)
  BY Injecting DEF d
<1> QED
  BY <1>3, <1>6, <1>7, <1>8, <1>9 DEF d

(* What a list advertises, part by part. *)
LEMMA Advertising ==
  ASSUME NEW c, NEW w, IsTool(w)
  PROVE  LET a == Advertised(c, w) IN
         /\ a.version = w.version /\ a.owns = w.owns /\ a.ours = w.ours \cup Injected(c, w)
         /\ a.mirror = (w.mirror \/ OutputInjected(c, w))
  BY DEF IsTool, ToolFields, Advertised

(* A copy is a tool, it may be declared on, and it is listed as what the      *)
(* customer wrote.                                                            *)
LEMMA Copying ==
  ASSUME NEW h \in Histories, NEW t \in Tools, NEW c, NEW v \in 0..MaxVersions, NEW tool,
         IsCopy(c, h, t, v, tool)
  PROVE  /\ IsTool(tool) /\ tool.version \in 1..v
         /\ Declared(c, tool).version = tool.version /\ IsCopy(c, h, t, v, Declared(c, tool))
         /\ Declared(c, Declared(c, tool)) = Declared(c, tool)
         /\ IsEntry(c, h, t, tool.version, Entry(c, tool))
         /\ WasTold(c, h, t, v, Heard(Advertised(c, tool), TRUE))
<1> DEFINE n == tool.version
           w == Nth(h, t, n)
           d == Declared(c, w)
<1>1. n \in 1..v /\ n \in 1..MaxVersions /\ tool \in {w, d}
  BY SchemasAssumption DEF IsCopy
<1>2. IsTool(w) /\ w.version = n
  BY <1>1, Writing
<1>3. /\ IsTool(d) /\ d.version = n /\ Declared(c, d) = d
      /\ Entry(c, d) = Entry(c, w) /\ Advertised(c, d) = Advertised(c, w)
  BY <1>2, DeclaredOnce
<1> HIDE DEF w, d
<1>4. /\ IsTool(tool) /\ Declared(c, tool) = d
      /\ Entry(c, tool) = Entry(c, w) /\ Advertised(c, tool) = Advertised(c, w)
  BY <1>1, <1>2, <1>3 DEF d
<1>5. IsCopy(c, h, t, v, d)
  BY <1>1, <1>3 DEF IsCopy, d, w
<1>6. Advertised(c, w).version = n
  BY <1>2, Advertising
<1> QED
  BY <1>1, <1>3, <1>4, <1>5, <1>6 DEF IsEntry, WasTold, Heard, w

(* What was a member of the history stays one. *)
LEMMA Lasting ==
  ASSUME NEW c, NEW h, NEW t, NEW v \in Nat, NEW w \in Nat, v <= w, NEW x
  PROVE  /\ IsCopy(c, h, t, v, x) => IsCopy(c, h, t, w, x)
         /\ WasTold(c, h, t, v, x) => WasTold(c, h, t, w, x)
  BY DEF IsCopy, WasTold

(* ------------------------- All is of the history ------------------------- *)

(* What is registered and what the client knows are of a registration. *)
GenuineTools(h) == \A t \in Tools :
  /\ tools[t] # None => IsCopy(cfg, h, t, version[t], tools[t])
  /\ known[t] # None => WasTold(cfg, h, t, version[t], known[t])

(* So are the copies a list has in hand ... *)
GenuineCopies(h) == \A l \in Listers :
  /\ \A t \in DOMAIN seen[l] : IsCopy(cfg, h, t, version[t], seen[l][t])
  /\ \A t \in DOMAIN snapshot[l] : IsCopy(cfg, h, t, version[t], snapshot[l][t])

(* ... the entries, stored or in hand ... *)
GenuineEntries(h) == \A t \in Tools :
  /\ Known(t) => \E n \in Versions(t) : IsEntry(cfg, h, t, n, registries[t])
  /\ \A l \in Listers : Holds(l, t) => \E n \in Versions(t) : IsEntry(cfg, h, t, n, reg[l][t])

(* ... and what the calls under way were told. *)
CallFields == {"tool", "args", "heard", "version"}
GenuineCalls(h) == \A c \in Calls : Active(c) =>
  /\ DOMAIN call[c] = CallFields /\ call[c].tool \in Tools
  /\ WasTold(cfg, h, call[c].tool, version[call[c].tool], call[c].heard)
  /\ call[c].args \in {call[c].heard.tool.owns,
                       call[c].heard.tool.owns \cup call[c].heard.tool.ours}

Shaped == DOMAIN call = Calls /\ DOMAIN outcome = Calls

Genuine(h) ==
  GenuineTools(h) /\ GenuineCopies(h) /\ GenuineEntries(h) /\ GenuineCalls(h) /\ Shaped

(* A name is registered more and more often, and nothing is configured anew. *)
Grows ==
  /\ setup' = setup
  /\ \A t \in Tools : version[t] \in Nat /\ version'[t] \in Nat /\ version[t] <= version'[t]

(* No step undoes a registration. *)
LEMMA Growing ==
  ASSUME Types, [Next]_vars
  PROVE  Grows
<1>0. version \in [Tools -> 0..MaxVersions]
  BY DEF Types, ServerTyped
<1>t. \A t \in Tools : version[t] \in Nat
  BY <1>0, SchemasAssumption
<1>1. ASSUME server' = server PROVE Grows
  BY <1>t, <1>1 DEF Grows, server
<1>2. ASSUME NEW t \in Tools, DeleteTool(t) \/ \E form \in Forms : AddTool(t, form) PROVE Grows
  <2>1. version' = [version EXCEPT ![t] = @ + 1] /\ setup' = setup
    BY <1>2 DEF DeleteTool, AddTool, Change
  <2> QED
    BY <1>0, <1>t, <2>1 DEF Grows
<1>3. ASSUME NEW l \in Listers, ListSteps(l), ~ApplyDeclarations(l), ~AddSessionTools(l)
      PROVE  server' = server
  BY <1>3 DEF ListSteps, MergeRegistries, CopyGlobalTools, CopySessionTools, Return, Copy
<1>4. ASSUME NEW l \in Listers, ApplyDeclarations(l) \/ AddSessionTools(l) PROVE Grows
  BY <1>t, <1>4 DEF ApplyDeclarations, AddSessionTools, Grows
<1>5. ASSUME NEW c \in Calls, CallSteps(c) PROVE server' = server
  BY <1>5 DEF CallSteps, LoadForCall, Rebuild, RebuildFails, StripArguments, Dispatch, Finish,
       Collect
<1>6. ASSUME NEW l \in Lists, ListTools(l) PROVE server' = server
  BY <1>6 DEF ListTools, Collect
<1>7. ASSUME NEW c \in Calls, NEW t \in Tools, NEW args, CallTool(c, t, args)
      PROVE  server' = server
  BY <1>7 DEF CallTool
<1> QED
  BY <1>1, <1>2, <1>3, <1>4, <1>5, <1>6, <1>7 DEF Next, vars

(* What is registered or told stays of the history while both stay. *)
LEMMA GenuineToolsStay ==
  ASSUME NEW h, GenuineTools(h), Grows, tools' = tools, known' = known
  PROVE  GenuineTools(h)'
  BY Lasting DEF GenuineTools, Grows, cfg

(* The next registration of a name is the one that the history foretells. *)
Foretold(h) ==
  \A t \in Tools : \A form \in Forms : AddTool(t, form) => Change(t, Nth(h, t, version[t] + 1))

(* The customer's registration is the history's next; a declaration is made   *)
(* on a copy, and a list tells of one.                                        *)
LEMMA GenuineToolsNext ==
  ASSUME NEW h \in Histories, Types, Genuine(h), Foretold(h), [Next]_vars
  PROVE  GenuineTools(h)'
<1>0. /\ GenuineTools(h) /\ GenuineCopies(h) /\ Grows /\ ServerTyped /\ ClientTyped /\ MapsTyped
      /\ version \in [Tools -> 0..MaxVersions] /\ DOMAIN tools = Tools /\ DOMAIN known = Tools
  BY Growing DEF Genuine, Types, ServerTyped, ClientTyped
<1>c. cfg' = cfg
  BY <1>0 DEF Grows, cfg
<1>v. \A t \in Tools : version[t] \in 0..MaxVersions /\ version[t] \in Nat
  BY <1>0, SchemasAssumption
<1>k. \A t \in Tools : \A x : IsCopy(cfg, h, t, version[t], x) =>
        /\ IsCopy(cfg, h, t, version[t], Declared(cfg, x))
        /\ WasTold(cfg, h, t, version[t], Heard(Advertised(cfg, x), TRUE))
  BY <1>v, Copying
<1>1. ASSUME NEW t \in Tools, NEW tool, Change(t, tool), tool \in {None, Nth(h, t, version[t] + 1)}
      PROVE  GenuineTools(h)'
  <2>1. /\ version' = [version EXCEPT ![t] = @ + 1] /\ tools' = [tools EXCEPT ![t] = tool]
        /\ known' = known /\ version[t] < MaxVersions
    BY <1>1 DEF Change, client
  <2>2. version'[t] = version[t] + 1 /\ version[t] + 1 \in 1..MaxVersions
    BY <1>0, <1>v, <2>1, SchemasAssumption
  <2>3. ASSUME NEW u \in Tools, tools'[u] # None
        PROVE  IsCopy(cfg, h, u, version'[u], tools'[u])
    <3>1. CASE u = t
      <4>1. tools'[u] = Nth(h, t, version[t] + 1)
        BY <1>0, <1>1, <2>1, <2>3, <3>1
      <4>2. Nth(h, t, version[t] + 1).version = version[t] + 1
        BY <2>2, Writing
      <4> QED
        BY <1>v, <2>2, <3>1, <4>1, <4>2 DEF IsCopy
    <3>2. CASE u # t
      <4>1. tools'[u] = tools[u] /\ version'[u] = version[u]
        BY <1>0, <2>1, <3>2
      <4> QED
        BY <1>0, <2>3, <4>1 DEF GenuineTools
    <3> QED
      BY <3>1, <3>2
  <2>4. ASSUME NEW u \in Tools, known[u] # None PROVE WasTold(cfg, h, u, version'[u], known[u])
    BY <1>0, <2>4, Lasting DEF Grows, GenuineTools
  <2> QED
    BY <1>c, <2>1, <2>3, <2>4 DEF GenuineTools
<1>2. ASSUME NEW l \in Listers, ApplyDeclarations(l) PROVE GenuineTools(h)'
  <2>1. /\ \A t \in Tools : /\ tools'[t] \in {tools[t], Declared(cfg, tools[t])}
                            /\ tools[t] = None => tools'[t] = None
        /\ version' = version /\ known' = known
    BY <1>2 DEF ApplyDeclarations, client
  <2>2. ASSUME NEW t \in Tools, tools'[t] # None PROVE IsCopy(cfg, h, t, version[t], tools'[t])
    <3>1. IsCopy(cfg, h, t, version[t], tools[t])
      BY <1>0, <2>1, <2>2 DEF GenuineTools
    <3> QED
      BY <1>k, <2>1, <3>1
  <2> QED
    BY <1>0, <1>c, <2>1, <2>2 DEF GenuineTools
<1>3. ASSUME NEW l \in Listers, AddSessionTools(l) PROVE GenuineTools(h)'
  <2>1. /\ \A t \in Tools : tools'[t] = IF t \in Undeclared(snapshot[l])
                                        THEN Declared(cfg, snapshot[l][t]) ELSE tools[t]
        /\ version' = version /\ known' = known
    BY <1>3 DEF AddSessionTools
  <2>2. ASSUME NEW t \in Tools, tools'[t] # None PROVE IsCopy(cfg, h, t, version[t], tools'[t])
    <3>1. CASE t \in Undeclared(snapshot[l])
      <4>1. IsCopy(cfg, h, t, version[t], snapshot[l][t])
        BY <1>0, <3>1 DEF GenuineCopies, Undeclared
      <4> QED
        BY <1>k, <2>1, <3>1, <4>1
    <3>2. CASE t \notin Undeclared(snapshot[l])
      BY <1>0, <2>1, <2>2, <3>2 DEF GenuineTools
    <3> QED
      BY <3>1, <3>2
  <2> QED
    BY <1>0, <1>c, <2>1, <2>2 DEF GenuineTools
<1>4. ASSUME NEW l \in Listers, Return(l) PROVE GenuineTools(h)'
  <2>1. /\ \A t \in Tools : \/ known'[t] = known[t]
                            \/ /\ t \in DOMAIN seen[l]
                               /\ known'[t] = Heard(Advertised(cfg, seen[l][t]), TRUE)
        /\ version' = version /\ tools' = tools
    BY <1>4 DEF Return, server
  <2>2. ASSUME NEW t \in Tools, known'[t] # None PROVE WasTold(cfg, h, t, version[t], known'[t])
    <3>1. CASE known'[t] = known[t]
      BY <1>0, <2>2, <3>1 DEF GenuineTools
    <3>2. CASE known'[t] # known[t]
      <4>1. IsCopy(cfg, h, t, version[t], seen[l][t])
        BY <1>0, <2>1, <3>2 DEF GenuineCopies
      <4> QED
        BY <1>k, <2>1, <3>2, <4>1
    <3> QED
      BY <3>1, <3>2
  <2> QED
    BY <1>0, <1>c, <2>1, <2>2 DEF GenuineTools
<1>5. ASSUME tools' = tools, known' = known PROVE GenuineTools(h)'
  BY <1>0, <1>5, GenuineToolsStay
<1>6. ASSUME NEW t \in Tools, DeleteTool(t) \/ \E form \in Forms : AddTool(t, form)
      PROVE  GenuineTools(h)'
  BY <1>1, <1>6 DEF DeleteTool, Foretold
<1>7. ASSUME NEW l \in Listers, MergeRegistries(l) \/ CopyGlobalTools(l) \/ CopySessionTools(l)
      PROVE  GenuineTools(h)'
  BY <1>5, <1>7 DEF MergeRegistries, CopyGlobalTools, CopySessionTools, Copy, server, client
<1>8. ASSUME NEW c \in Calls, CallSteps(c) PROVE GenuineTools(h)'
  BY <1>5, <1>8 DEF CallSteps, LoadForCall, Rebuild, RebuildFails, StripArguments, Dispatch,
       Finish, Collect, server, client
<1>9. ASSUME NEW l \in Lists, ListTools(l) PROVE GenuineTools(h)'
  BY <1>5, <1>9 DEF ListTools, Collect, server
<1>10. ASSUME NEW c \in Calls, NEW t \in Tools, NEW args, CallTool(c, t, args)
       PROVE  GenuineTools(h)'
  BY <1>5, <1>10 DEF CallTool, server, client
<1>11. CASE UNCHANGED vars
  BY <1>5, <1>11 DEF vars, server, client
<1> QED
  BY <1>2, <1>3, <1>4, <1>6, <1>7, <1>8, <1>9, <1>10, <1>11 DEF Next, ListSteps

(* A list takes its copies from what is registered. *)
LEMMA GenuineCopiesNext ==
  ASSUME NEW h \in Histories, Types, Genuine(h), [Next]_vars
  PROVE  GenuineCopies(h)'
<1>0. /\ GenuineTools(h) /\ GenuineCopies(h) /\ Grows /\ DOMAIN seen = Listers
      /\ DOMAIN snapshot = Listers /\ \A l \in Listers : IsToolMap(seen[l]) /\ IsToolMap(snapshot[l])
  BY Growing DEF Genuine, Types, MapsTyped
<1>c. cfg' = cfg
  BY <1>0 DEF Grows, cfg
<1> DEFINE Fine(f) == \A t \in DOMAIN f : t \in Tools /\ IsCopy(cfg, h, t, version'[t], f[t])
<1>1. \A l \in Listers : Fine(seen[l]) /\ Fine(snapshot[l])
  BY <1>0, Lasting DEF GenuineCopies, IsToolMap, Grows
<1>2. \A names : Fine(Copies(names))
  BY <1>0, Lasting DEF GenuineTools, Copies, Registered, Grows
<1>3. Fine(<<>>)
  BY EmptyMap
<1> HIDE DEF Fine
<1>4. ASSUME \/ seen' = seen
             \/ \E l \in Listers : \E f : Fine(f) /\ seen' = [seen EXCEPT ![l] = f],
             \/ snapshot' = snapshot
             \/ \E l \in Listers : \E f : Fine(f) /\ snapshot' = [snapshot EXCEPT ![l] = f]
      PROVE  GenuineCopies(h)'
  <2>1. \A l \in Listers : Fine(seen'[l]) /\ Fine(snapshot'[l])
    BY <1>0, <1>1, <1>4
  <2> QED
    BY <1>c, <2>1 DEF GenuineCopies, Fine
<1>5. ASSUME NEW l \in Listers, NEW page, Collect(l, page) PROVE GenuineCopies(h)'
  BY <1>2, <1>4, <1>5 DEF Collect
<1>6. ASSUME NEW l \in Listers, CopyGlobalTools(l) \/ CopySessionTools(l) PROVE GenuineCopies(h)'
  BY <1>2, <1>3, <1>4, <1>6 DEF CopyGlobalTools, CopySessionTools, Copy
<1>7. ASSUME NEW l \in Listers, ApplyDeclarations(l) \/ AddSessionTools(l) \/ Return(l)
      PROVE  GenuineCopies(h)'
  BY <1>3, <1>4, <1>7 DEF ApplyDeclarations, AddSessionTools, Return
<1>8. ASSUME NEW l \in Listers, MergeRegistries(l) PROVE GenuineCopies(h)'
  BY <1>4, <1>8 DEF MergeRegistries
<1>9. ASSUME NEW c \in Calls, CallSteps(c), ~Rebuild(c) PROVE GenuineCopies(h)'
  BY <1>4, <1>9 DEF CallSteps, LoadForCall, RebuildFails, StripArguments, Dispatch, Finish, lists
<1>10. ASSUME NEW c \in Calls, Rebuild(c) PROVE GenuineCopies(h)'
  BY <1>5, <1>10 DEF Rebuild, Listers
<1>11. ASSUME NEW l \in Lists, ListTools(l) PROVE GenuineCopies(h)'
  BY <1>5, <1>11 DEF ListTools, Listers
<1>12. ASSUME NEW c \in Calls, NEW t \in Tools, NEW args, CallTool(c, t, args)
       PROVE  GenuineCopies(h)'
  BY <1>4, <1>12 DEF CallTool, lists
<1>13. ASSUME NEW t \in Tools, DeleteTool(t) \/ \E form \in Forms : AddTool(t, form)
       PROVE  GenuineCopies(h)'
  BY <1>4, <1>13 DEF DeleteTool, AddTool, Change, lists
<1>14. CASE UNCHANGED vars
  BY <1>4, <1>14 DEF vars, lists
<1> QED
  BY <1>6, <1>7, <1>8, <1>9, <1>10, <1>11, <1>12, <1>13, <1>14 DEF Next, ListSteps

(* The registries after a merge: the list's entries, and the others as they were. *)
LEMMA Merged ==
  ASSUME NEW c, NEW prev, NEW listed, NEW t
  PROVE  LET m == Merge(prev, Registries(c, listed), None) IN
         /\ t \in DOMAIN listed => t \in DOMAIN m /\ m[t] = Entry(c, listed[t])
         /\ t \in DOMAIN m /\ t \notin DOMAIN listed =>
              prev # None /\ t \in DOMAIN prev /\ m[t] = prev[t]
  BY DEF Merge, Registries

(* The registries change by a merge alone ... *)
LEMMA Storing ==
  ASSUME [Next]_vars
  PROVE  \/ registries' = registries
         \/ \E l \in Listers : /\ MergeRegistries(l) /\ registries = reg[l]
                               /\ registries' = Merge(registries, Registries(cfg, seen[l]), None)
<1>1. ASSUME NEW l \in Listers, MergeRegistries(l), registries # reg[l]
      PROVE  registries' = registries
  BY <1>1 DEF MergeRegistries
<1>2. ASSUME NEW l \in Listers, MergeRegistries(l), registries = reg[l]
      PROVE  registries' = Merge(registries, Registries(cfg, seen[l]), None)
  BY <1>2 DEF MergeRegistries
<1>3. ASSUME NEW l \in Listers, ListSteps(l), ~MergeRegistries(l) PROVE registries' = registries
  BY <1>3 DEF ListSteps, CopyGlobalTools, ApplyDeclarations, CopySessionTools, AddSessionTools,
       Return, Copy
<1>4. ASSUME NEW c \in Calls, CallSteps(c) PROVE registries' = registries
  BY <1>4 DEF CallSteps, LoadForCall, Rebuild, RebuildFails, StripArguments, Dispatch, Finish,
       Collect
<1>5. ASSUME NEW c \in Calls, NEW t \in Tools, NEW args, CallTool(c, t, args)
      PROVE  registries' = registries
  BY <1>5 DEF CallTool
<1>6. ASSUME NEW l \in Lists, ListTools(l) PROVE registries' = registries
  BY <1>6 DEF ListTools, Collect
<1>7. ASSUME NEW t \in Tools, DeleteTool(t) \/ \E form \in Forms : AddTool(t, form)
      PROVE  registries' = registries
  BY <1>7 DEF DeleteTool, AddTool, Change
<1> QED
  BY <1>1, <1>2, <1>3, <1>4, <1>5, <1>6, <1>7 DEF Next, vars

(* ... and a request has in hand what it had, nothing, or what is stored.     *)
LEMMA Holding ==
  ASSUME Types, [Next]_vars
  PROVE  /\ DOMAIN reg' = Listers
         /\ \A l \in Listers : reg'[l] \in {reg[l], None, registries'}
<1>0. DOMAIN reg = Listers
  BY DEF Types, RegTyped
<1>1. ASSUME NEW l \in Listers, NEW r \in {reg[l], None, registries'},
             reg' = reg \/ reg' = [reg EXCEPT ![l] = r]
      PROVE  /\ DOMAIN reg' = Listers
             /\ \A m \in Listers : reg'[m] \in {reg[m], None, registries'}
  BY <1>0, <1>1
<1>u. ASSUME reg' = reg
      PROVE  /\ DOMAIN reg' = Listers
             /\ \A m \in Listers : reg'[m] \in {reg[m], None, registries'}
  BY <1>0, <1>u
<1>2. ASSUME NEW l \in Listers, MergeRegistries(l)
      PROVE  \E r \in {reg[l], None, registries'} : reg' = [reg EXCEPT ![l] = r]
  BY <1>2 DEF MergeRegistries
<1>3. ASSUME NEW l \in Listers, Return(l)
      PROVE  \E r \in {reg[l], None, registries'} : reg' = [reg EXCEPT ![l] = r]
  BY <1>3 DEF Return
<1>4. ASSUME NEW l \in Listers, ListSteps(l), ~MergeRegistries(l), ~Return(l) PROVE reg' = reg
  BY <1>4 DEF ListSteps, CopyGlobalTools, ApplyDeclarations, CopySessionTools, AddSessionTools,
       Copy
<1>5. ASSUME NEW c \in Calls, LoadForCall(c) \/ RebuildFails(c) \/ StripArguments(c)
      PROVE  \E r \in {reg[c], None, registries'} : reg' = [reg EXCEPT ![c] = r]
  BY <1>5 DEF LoadForCall, RebuildFails, StripArguments
<1>6. ASSUME NEW l \in Listers, NEW page, Collect(l, page)
      PROVE  \E r \in {reg[l], None, registries'} : reg' = [reg EXCEPT ![l] = r]
  BY <1>6 DEF Collect
<1>7. ASSUME NEW c \in Calls, Dispatch(c) \/ Finish(c) PROVE reg' = reg
  BY <1>7 DEF Dispatch, Finish
<1>8. ASSUME NEW c \in Calls, NEW t \in Tools, NEW args, CallTool(c, t, args) PROVE reg' = reg
  BY <1>8 DEF CallTool
<1>9. ASSUME NEW t \in Tools, DeleteTool(t) \/ \E form \in Forms : AddTool(t, form)
      PROVE  reg' = reg
  BY <1>9 DEF DeleteTool, AddTool, Change
<1>10. ASSUME NEW c \in Calls, Rebuild(c)
       PROVE  c \in Listers /\ \E r \in {reg[c], None, registries'} : reg' = [reg EXCEPT ![c] = r]
  BY <1>6, <1>10 DEF Rebuild, Listers
<1>11. ASSUME NEW l \in Lists, ListTools(l)
       PROVE  l \in Listers /\ \E r \in {reg[l], None, registries'} : reg' = [reg EXCEPT ![l] = r]
  BY <1>6, <1>11 DEF ListTools, Listers
<1> QED
  BY <1>1, <1>u, <1>2, <1>3, <1>4, <1>5, <1>7, <1>8, <1>9, <1>10, <1>11
     DEF Next, ListSteps, CallSteps, vars, Listers

(* A merge makes its entries from copies. *)
LEMMA GenuineEntriesNext ==
  ASSUME NEW h \in Histories, Types, Genuine(h), [Next]_vars
  PROVE  GenuineEntries(h)'
<1>0. /\ GenuineEntries(h) /\ GenuineCopies(h) /\ Grows /\ MapsTyped
      /\ \A t \in Tools : version[t] \in 0..MaxVersions
  BY Growing DEF Genuine, Types, ServerTyped
<1>c. cfg' = cfg
  BY <1>0 DEF Grows, cfg
<1>v. \A t \in Tools : \A n \in Versions(t) : n \in Versions(t)'
  BY <1>0 DEF Versions, Grows
<1>1. ASSUME NEW t \in Tools, Known(t)'
      PROVE  \E n \in Versions(t)' : IsEntry(cfg, h, t, n, registries'[t])
  <2>1. CASE registries' = registries
    BY <1>0, <1>1, <1>v, <2>1 DEF GenuineEntries, Known
  <2>2. ASSUME NEW l \in Listers, registries' = Merge(registries, Registries(cfg, seen[l]), None)
        PROVE  \E n \in Versions(t)' : IsEntry(cfg, h, t, n, registries'[t])
    <3>1. CASE t \in DOMAIN seen[l]
      <4>1. registries'[t] = Entry(cfg, seen[l][t])
        BY <2>2, <3>1, Merged
      <4> DEFINE x == seen[l][t]
      <4>2. IsCopy(cfg, h, t, version[t], x)
        BY <1>0, <3>1 DEF GenuineCopies
      <4> HIDE DEF x
      <4>3. x.version \in Versions(t) /\ IsEntry(cfg, h, t, x.version, Entry(cfg, x))
        BY <1>0, <4>2, Copying DEF Versions
      <4> QED
        BY <1>v, <4>1, <4>3 DEF x
    <3>2. CASE t \notin DOMAIN seen[l]
      <4>1. Known(t) /\ registries'[t] = registries[t]
        BY <1>1, <2>2, <3>2, Merged DEF Known
      <4> QED
        BY <1>0, <1>v, <4>1 DEF GenuineEntries
    <3> QED
      BY <3>1, <3>2
  <2> QED
    BY <2>1, <2>2, Storing
<1>2. ASSUME NEW t \in Tools, NEW l \in Listers, Holds(l, t)'
      PROVE  \E n \in Versions(t)' : IsEntry(cfg, h, t, n, reg'[l][t])
  <2>1. CASE reg'[l] = reg[l]
    BY <1>0, <1>2, <1>v, <2>1 DEF GenuineEntries, Holds
  <2>2. CASE reg'[l] = registries'
    BY <1>1, <1>2, <2>2 DEF Holds, Known
  <2> QED
    BY <1>2, <2>1, <2>2, Holding DEF Holds
<1> QED
  BY <1>c, <1>1, <1>2 DEF GenuineEntries

(* ------------------------------- The places ------------------------------- *)

(* A list that has not begun is about nothing, it has copies only between     *)
(* taking and writing them, and a call that lists does nothing else meanwhile. *)
Resting == \A l \in Listers :
  /\ lpc[l] = "idle" => DOMAIN seen[l] = {}
  /\ lpc[l] \notin {"declare", "add"} => DOMAIN snapshot[l] = {}
Rebuilding == \A c \in Calls : lpc[c] = "idle" <=> cpc[c] # "rebuilding"

(* On its way a list moves alone, until it returns. *)
LEMMA Moving ==
  ASSUME Types, NEW l \in Listers, ListSteps(l), ~Return(l)
  PROVE  /\ lpc[l] # "idle" /\ lpc'[l] # "idle" /\ UNCHANGED <<seen, calls>>
         /\ lpc'[l] \notin {"declare", "add"} =>
              DOMAIN snapshot'[l] = {} \/ (lpc[l] = "loaded" /\ snapshot' = snapshot)
         /\ \A m \in Listers \ {l} : lpc'[m] = lpc[m] /\ snapshot'[m] = snapshot[m]
<1>0. lpc \in [Listers -> ListPlaces] /\ DOMAIN snapshot = Listers
  BY DEF Types, PlacesTyped, MapsTyped
<1>1. CASE MergeRegistries(l)
  BY <1>0, <1>1 DEF MergeRegistries, Step, AfterMerge
<1>2. CASE CopyGlobalTools(l)
  <2>1. /\ lpc[l] = "merged" /\ UNCHANGED <<seen, calls>>
        /\ \E f, place : /\ snapshot' = [snapshot EXCEPT ![l] = f]
                         /\ lpc' = [lpc EXCEPT ![l] = place] /\ place # "idle"
                         /\ place = "declare" \/ f = <<>>
    BY <1>2 DEF CopyGlobalTools, Copy, Step, AfterGlobal
  <2> QED
    BY <1>0, <2>1, EmptyMap
<1>3. CASE CopySessionTools(l)
  <2>1. /\ lpc[l] = "session" /\ UNCHANGED <<seen, calls>>
        /\ \E f, place : /\ snapshot' = [snapshot EXCEPT ![l] = f]
                         /\ lpc' = [lpc EXCEPT ![l] = place] /\ place # "idle"
                         /\ place = "add" \/ f = <<>>
    BY <1>3 DEF CopySessionTools, Copy, Step
  <2> QED
    BY <1>0, <2>1, EmptyMap
<1>4. CASE ApplyDeclarations(l) \/ AddSessionTools(l)
  BY <1>0, <1>4, EmptyMap DEF ApplyDeclarations, AddSessionTools, Step, AfterGlobal
<1> QED
  BY <1>1, <1>2, <1>3, <1>4 DEF ListSteps

(* A call that does not list leaves the lists alone and does not get to list. *)
LEMMA CallMoving ==
  ASSUME Types, NEW c \in Calls, CallSteps(c), ~Rebuild(c)
  PROVE  /\ UNCHANGED lists /\ cpc[c] \notin {"idle", "over", "rebuilding"}
         /\ cpc'[c] # "rebuilding" /\ \A d \in Calls \ {c} : cpc'[d] = cpc[d]
<1>0. DOMAIN cpc = Calls
  BY DEF Types, PlacesTyped
<1>1. /\ UNCHANGED lists /\ cpc[c] \notin {"idle", "over", "rebuilding"}
      /\ \E place \in CallPlaces \ {"rebuilding"} : cpc' = [cpc EXCEPT ![c] = place]
  BY DEF CallSteps, LoadForCall, RebuildFails, StripArguments, Dispatch, Finish, Lookup, CallPlaces
<1> QED
  BY <1>0, <1>1

(* Who rests has nothing in hand, and every rebuild is its call's. *)
LEMMA RestingNext ==
  ASSUME Types, Resting, Rebuilding, [Next]_vars
  PROVE  Resting' /\ Rebuilding'
<1>0. /\ DOMAIN seen = Listers /\ DOMAIN snapshot = Listers /\ DOMAIN cpc = Calls
      /\ DOMAIN lpc = Listers /\ Lists \cap Calls = {} /\ Calls \subseteq Listers
  BY SchemasAssumption DEF Types, MapsTyped, PlacesTyped, Listers
<1>1. ASSUME UNCHANGED lists, \A c \in Calls : cpc'[c] = "rebuilding" <=> cpc[c] = "rebuilding"
      PROVE  Resting' /\ Rebuilding'
  BY <1>0, <1>1 DEF Resting, Rebuilding, lists
<1>2. ASSUME NEW l \in Listers, ListSteps(l), ~Return(l) PROVE Resting' /\ Rebuilding'
  <2>1. /\ lpc[l] # "idle" /\ lpc'[l] # "idle" /\ seen' = seen /\ cpc' = cpc
        /\ \A m \in Listers \ {l} : lpc'[m] = lpc[m] /\ snapshot'[m] = snapshot[m]
        /\ lpc'[l] \notin {"declare", "add"} =>
             DOMAIN snapshot'[l] = {} \/ (lpc[l] = "loaded" /\ snapshot' = snapshot)
    BY <1>2, Moving DEF calls
  <2> QED
    BY <1>0, <2>1 DEF Resting, Rebuilding
<1>3. ASSUME NEW l \in Listers, Return(l) PROVE Resting' /\ Rebuilding'
  <2>1. /\ lpc' = [lpc EXCEPT ![l] = "idle"] /\ seen' = [seen EXCEPT ![l] = <<>>]
        /\ snapshot' = snapshot
        /\ cpc' = (IF l \in Calls THEN [cpc EXCEPT ![l] = "strip"] ELSE cpc)
        /\ lpc[l] = "return"
    BY <1>3 DEF Return, Step
  <2> QED
    BY <1>0, <2>1, EmptyMap DEF Resting, Rebuilding
<1>4. ASSUME NEW l \in Lists, ListTools(l) PROVE Resting' /\ Rebuilding'
  <2>1. /\ \E page : seen' = [seen EXCEPT ![l] = Copies(page)]
        /\ lpc' = [lpc EXCEPT ![l] = "loaded"] /\ snapshot' = snapshot /\ cpc' = cpc
        /\ lpc[l] = "idle" /\ l \notin Calls
    BY <1>0, <1>4 DEF ListTools, Collect, Step, calls
  <2> QED
    BY <1>0, <2>1 DEF Resting, Rebuilding
<1>5. ASSUME NEW c \in Calls, Rebuild(c) PROVE Resting' /\ Rebuilding'
  <2>1. /\ \E page : seen' = [seen EXCEPT ![c] = Copies(page)]
        /\ lpc' = [lpc EXCEPT ![c] = "loaded"] /\ snapshot' = snapshot
        /\ lpc[c] = "idle" /\ cpc' = [cpc EXCEPT ![c] = "rebuilding"]
    BY <1>5 DEF Rebuild, Collect, Step
  <2> QED
    BY <1>0, <2>1 DEF Resting, Rebuilding
<1>6. ASSUME NEW c \in Calls, CallSteps(c), ~Rebuild(c) PROVE Resting' /\ Rebuilding'
  <2>1. /\ UNCHANGED lists /\ cpc[c] # "rebuilding" /\ cpc'[c] # "rebuilding"
        /\ \A d \in Calls \ {c} : cpc'[d] = cpc[d]
    BY <1>6, CallMoving
  <2> QED
    BY <1>1, <2>1
<1>7. ASSUME NEW c \in Calls, NEW t \in Tools, NEW args, CallTool(c, t, args)
      PROVE  Resting' /\ Rebuilding'
  <2>1. /\ UNCHANGED lists /\ cpc[c] = "idle"
        /\ \E place \in CallPlaces \ {"rebuilding"} : cpc' = [cpc EXCEPT ![c] = place]
    BY <1>7 DEF CallTool, Lookup, CallPlaces
  <2> QED
    BY <1>0, <1>1, <2>1
<1>8. ASSUME NEW t \in Tools, DeleteTool(t) \/ \E form \in Forms : AddTool(t, form)
      PROVE  Resting' /\ Rebuilding'
  BY <1>1, <1>8 DEF DeleteTool, AddTool, Change, calls
<1>9. CASE UNCHANGED vars
  BY <1>1, <1>9 DEF vars, calls
<1> QED
  BY <1>2, <1>3, <1>4, <1>5, <1>6, <1>7, <1>8, <1>9 DEF Next, CallSteps, ListSteps

(* The calls' variables keep their domains. *)
LEMMA ShapedNext == Shaped /\ [Next]_vars => Shaped'
<1> SUFFICES ASSUME Shaped, [Next]_vars PROVE Shaped'
  OBVIOUS
<1>1. ASSUME UNCHANGED <<call, outcome>> PROVE Shaped'
  BY <1>1 DEF Shaped
<1>2. ASSUME NEW l \in Listers, ListSteps(l) PROVE Shaped'
  BY <1>1, <1>2 DEF ListSteps, MergeRegistries, CopyGlobalTools, ApplyDeclarations,
       CopySessionTools, AddSessionTools, Return, Copy, calls
<1>3. ASSUME NEW c \in Calls, CallSteps(c) PROVE Shaped'
  BY <1>3 DEF Shaped, CallSteps, LoadForCall, Rebuild, RebuildFails, StripArguments, Dispatch,
       Finish, Lookup
<1>4. ASSUME NEW c \in Calls, NEW t \in Tools, NEW args, CallTool(c, t, args) PROVE Shaped'
  BY <1>4 DEF Shaped, CallTool, Lookup
<1>5. ASSUME NEW l \in Lists, ListTools(l) PROVE Shaped'
  BY <1>1, <1>5 DEF ListTools, calls
<1>6. ASSUME NEW t \in Tools, DeleteTool(t) \/ \E form \in Forms : AddTool(t, form) PROVE Shaped'
  BY <1>1, <1>6 DEF DeleteTool, AddTool, Change, calls
<1>7. CASE UNCHANGED vars
  BY <1>1, <1>7 DEF vars, calls
<1> QED
  BY <1>2, <1>3, <1>4, <1>5, <1>6, <1>7 DEF Next

SameCall(c) ==
  /\ DOMAIN call'[c] = DOMAIN call[c] /\ call'[c].tool = call[c].tool
  /\ call'[c].args = call[c].args /\ call'[c].heard = call[c].heard

(* The client makes a call of a tool it knows. *)
Asked(c) ==
  /\ cpc[c] = "idle" /\ cpc'[c] \in {"load", "notfound", "rejected"}
  /\ DOMAIN call'[c] = CallFields /\ call'[c].tool \in Tools
  /\ known[call'[c].tool] # None /\ call'[c].heard = known[call'[c].tool]
  /\ call'[c].args \in {call'[c].heard.tool.owns,
                        call'[c].heard.tool.owns \cup call'[c].heard.tool.ours}
  /\ UNCHANGED <<server, registries, reg, lists, client, faults, outcome>>

(* A look-up gives the call the version of the tool there is. *)
LEMMA LookingUp ==
  ASSUME Shaped, Types, NEW c \in Calls, NEW request, DOMAIN request = CallFields, NEW args,
         NEW place, Lookup(c, request, args, place)
  PROVE  /\ DOMAIN call'[c] = CallFields /\ call'[c].tool = request.tool
         /\ call'[c].args = request.args /\ call'[c].heard = request.heard
         /\ call'[c].version = VersionIn(Copies(Tools), request.tool)
         /\ \A d \in Calls \ {c} : call'[d] = call[d] /\ cpc'[d] = cpc[d]
         /\ cpc'[c] \in {"notfound", "rejected", place}
         /\ cpc'[c] = "rejected" /\ place # "rejected" =>
              tools[request.tool] # None /\ ~Accepts(tools[request.tool], args)
<1>1. /\ call' = [call EXCEPT ![c] =
               [request EXCEPT !.version = VersionIn(Copies(Tools), request.tool)]]
      /\ cpc' = [cpc EXCEPT ![c] = CASE tools[request.tool] = None -> "notfound"
                   [] tools[request.tool] # None /\ ~Accepts(tools[request.tool], args) -> "rejected"
                   [] OTHER -> place]
  BY DEF Lookup
<1>2. DOMAIN call = Calls /\ DOMAIN cpc = Calls
  BY DEF Shaped, Types, PlacesTyped
<1>3. call'[c] = [request EXCEPT !.version = VersionIn(Copies(Tools), request.tool)]
  BY <1>1, <1>2
<1>4. /\ DOMAIN call'[c] = CallFields /\ call'[c].tool = request.tool
      /\ call'[c].args = request.args /\ call'[c].heard = request.heard
      /\ call'[c].version = VersionIn(Copies(Tools), request.tool)
  BY <1>3 DEF CallFields
<1>5. cpc'[c] = CASE tools[request.tool] = None -> "notfound"
                  [] tools[request.tool] # None /\ ~Accepts(tools[request.tool], args) -> "rejected"
                  [] OTHER -> place
  BY <1>1, <1>2
<1>6. /\ cpc'[c] \in {"notfound", "rejected", place}
      /\ cpc'[c] = "rejected" /\ place # "rejected" =>
           tools[request.tool] # None /\ ~Accepts(tools[request.tool], args)
  BY <1>5
<1> QED
  BY <1>1, <1>2, <1>4, <1>6

(* A client's call is of a tool it knows, with the arguments it knows. *)
LEMMA Asking ==
  ASSUME Shaped, Types, NEW c \in Calls, NEW t \in Tools, NEW args, CallTool(c, t, args)
  PROVE  /\ Asked(c) /\ call'[c].tool = t
         /\ \A d \in Calls \ {c} : call'[d] = call[d] /\ cpc'[d] = cpc[d]
         /\ cpc'[c] = "rejected" =>
              /\ adapter = "mcpgo" /\ tools[t] # None /\ ~Accepts(tools[t], call'[c].args)
              /\ call'[c].version = VersionIn(Copies(Tools), t)
         /\ adapter = "official" => cpc'[c] = "load"
<1> DEFINE request == Call(t, args, known[t])
<1>1. /\ DOMAIN request = CallFields /\ request.tool = t /\ request.args = args
      /\ request.heard = known[t]
  BY DEF Call, CallFields
<1>2. /\ cpc[c] = "idle" /\ known[t] # None
      /\ args \in {known[t].tool.owns, known[t].tool.owns \cup known[t].tool.ours}
      /\ UNCHANGED <<server, registries, reg, lists, client, faults, outcome>>
  BY DEF CallTool
<1>3. CASE adapter = "mcpgo"
  <2>1. Lookup(c, request, args, "load")
    BY <1>3 DEF CallTool
  <2> HIDE DEF request
  <2>2. /\ DOMAIN call'[c] = CallFields /\ call'[c].tool = t /\ call'[c].args = args
        /\ call'[c].heard = known[t] /\ call'[c].version = VersionIn(Copies(Tools), t)
        /\ \A d \in Calls \ {c} : call'[d] = call[d] /\ cpc'[d] = cpc[d]
        /\ cpc'[c] \in {"notfound", "rejected", "load"}
        /\ cpc'[c] = "rejected" => tools[t] # None /\ ~Accepts(tools[t], args)
    BY <1>1, <2>1, LookingUp
  <2> QED
    BY <1>2, <1>3, <2>2 DEF Asked
<1>4. CASE adapter # "mcpgo"
  <2>1. call' = [call EXCEPT ![c] = request] /\ cpc' = [cpc EXCEPT ![c] = "load"]
    BY <1>4 DEF CallTool
  <2>2. DOMAIN call = Calls /\ DOMAIN cpc = Calls
    BY DEF Shaped, Types, PlacesTyped
  <2> HIDE DEF request
  <2>3. /\ call'[c] = request /\ cpc'[c] = "load"
        /\ \A d \in Calls \ {c} : call'[d] = call[d] /\ cpc'[d] = cpc[d]
    BY <2>1, <2>2
  <2> QED
    BY <1>1, <1>2, <2>3 DEF Asked
<1> QED
  BY <1>3, <1>4

(* A call under way was made just now, or was under way and is the same.      *)
LEMMA SameOrAsked ==
  ASSUME NEW h, Types, GenuineCalls(h), Shaped, Rebuilding, [Next]_vars, NEW c \in Calls, Active(c)'
  PROVE  Asked(c) \/ (Active(c) /\ SameCall(c))
<1>0. DOMAIN call = Calls /\ DOMAIN cpc = Calls
  BY DEF Shaped, Types, PlacesTyped
<1>1. ASSUME cpc'[c] = cpc[c], call'[c] = call[c] PROVE Active(c) /\ SameCall(c)
  BY <1>1 DEF Active, SameCall
<1>2. ASSUME NEW l \in Listers, ListSteps(l), ~Return(l) PROVE Active(c) /\ SameCall(c)
  BY <1>1, <1>2 DEF ListSteps, MergeRegistries, CopyGlobalTools, ApplyDeclarations,
       CopySessionTools, AddSessionTools, Copy, calls
<1>3. ASSUME NEW d \in Calls, CallSteps(d), d # c PROVE Active(c) /\ SameCall(c)
  <2>1. cpc'[c] = cpc[c] /\ call'[c] = call[c]
    BY <1>0, <1>3 DEF CallSteps, LoadForCall, Rebuild, RebuildFails, StripArguments, Dispatch,
         Finish, Lookup
  <2> QED
    BY <1>1, <2>1
<1>4. CASE LoadForCall(c) \/ Rebuild(c) \/ RebuildFails(c) \/ StripArguments(c)
  <2>1. call' = call /\ cpc[c] \notin {"idle", "over"}
    BY <1>4 DEF LoadForCall, Rebuild, RebuildFails, StripArguments
  <2> QED
    BY <2>1 DEF Active, SameCall
<1>5. CASE Dispatch(c)
  <2>1. Lookup(c, call[c], outcome[c].args, "done") /\ Active(c)
    BY <1>5 DEF Dispatch, Active
  <2>2. DOMAIN call[c] = CallFields
    BY <2>1 DEF GenuineCalls
  <2>3. /\ DOMAIN call'[c] = CallFields /\ call'[c].tool = call[c].tool
        /\ call'[c].args = call[c].args /\ call'[c].heard = call[c].heard
    BY <2>1, <2>2, LookingUp
  <2> QED
    BY <2>1, <2>2, <2>3 DEF SameCall
<1>6. CASE Finish(c)
  BY <1>0, <1>6 DEF Finish, Active
<1>7. ASSUME NEW l \in Listers, Return(l) PROVE Active(c) /\ SameCall(c)
  <2>1. call' = call /\ cpc' = (IF l \in Calls THEN [cpc EXCEPT ![l] = "strip"] ELSE cpc)
        /\ lpc[l] = "return"
    BY <1>7 DEF Return
  <2>2. CASE l = c
    BY <2>1, <2>2 DEF Rebuilding, Active, SameCall
  <2>3. CASE l # c
    BY <1>0, <1>1, <2>1, <2>3
  <2> QED
    BY <2>2, <2>3
<1>8. ASSUME NEW l \in Lists, ListTools(l) PROVE Active(c) /\ SameCall(c)
  BY <1>1, <1>8 DEF ListTools, calls
<1>9. ASSUME NEW t \in Tools, DeleteTool(t) \/ \E form \in Forms : AddTool(t, form)
      PROVE  Active(c) /\ SameCall(c)
  BY <1>1, <1>9 DEF DeleteTool, AddTool, Change, calls
<1>10. ASSUME NEW d \in Calls, NEW t \in Tools, NEW args, CallTool(d, t, args)
       PROVE  Asked(c) \/ (Active(c) /\ SameCall(c))
  BY <1>1, <1>10, Asking
<1>11. CASE UNCHANGED vars
  BY <1>1, <1>11 DEF vars, calls
<1> QED
  BY <1>2, <1>3, <1>4, <1>5, <1>6, <1>7, <1>8, <1>9, <1>10, <1>11 DEF Next, ListSteps, CallSteps

(* What a call was told was of the history when the client learned it. *)
LEMMA GenuineCallsNext ==
  ASSUME NEW h \in Histories, Types, Genuine(h), Rebuilding, [Next]_vars
  PROVE  GenuineCalls(h)'
<1>0. GenuineTools(h) /\ GenuineCalls(h) /\ Shaped /\ Grows
  BY Growing DEF Genuine
<1>c. cfg' = cfg
  BY <1>0 DEF Grows, cfg
<1> SUFFICES ASSUME NEW c \in Calls, Active(c)'
             PROVE  /\ DOMAIN call'[c] = CallFields /\ call'[c].tool \in Tools
                    /\ WasTold(cfg', h, call'[c].tool, version'[call'[c].tool], call'[c].heard)
                    /\ call'[c].args \in {call'[c].heard.tool.owns,
                                         call'[c].heard.tool.owns \cup call'[c].heard.tool.ours}
  BY DEF GenuineCalls
<1>1. CASE Asked(c)
  <2>1. WasTold(cfg, h, call'[c].tool, version[call'[c].tool], call'[c].heard)
    BY <1>0, <1>1 DEF GenuineTools, Asked
  <2> QED
    BY <1>c, <1>1, <2>1 DEF Asked, server
<1>2. CASE Active(c) /\ SameCall(c)
  <2> DEFINE t == call[c].tool
             heard == call[c].heard
  <2>1. /\ DOMAIN call[c] = CallFields /\ t \in Tools /\ WasTold(cfg, h, t, version[t], heard)
        /\ call[c].args \in {heard.tool.owns, heard.tool.owns \cup heard.tool.ours}
    BY <1>0, <1>2 DEF GenuineCalls
  <2>2. WasTold(cfg, h, t, version'[t], heard)
    BY <1>0, <2>1, Lasting DEF Grows
  <2> QED
    BY <1>c, <1>2, <2>1, <2>2 DEF SameCall
<1> QED
  BY <1>0, <1>1, <1>2, SameOrAsked

(* How a call gets to be stripped, and how it gets to list: what it has in    *)
(* hand stays as it is until then.                                            *)
LEMMA Standing ==
  ASSUME Types, Rebuilding, [Next]_vars, NEW c \in Calls
  PROVE  /\ cpc'[c] = "strip" => \/ cpc[c] = "strip" /\ reg'[c] = reg[c]
                                 \/ cpc[c] = "load" /\ reg'[c] = registries /\ registries' = registries
                                 \/ cpc[c] \in {"rebuild", "rebuilding"}
         /\ cpc'[c] = "rebuild" => cpc[c] = "rebuild" \/ (cpc[c] = "load" /\ registries = None)
         /\ cpc'[c] = "rebuilding" => cpc[c] \in {"rebuild", "rebuilding"}
<1>0. /\ DOMAIN cpc = Calls /\ DOMAIN reg = Listers /\ Lists \cap Calls = {}
      /\ Calls \subseteq Listers
  BY SchemasAssumption DEF Types, PlacesTyped, RegTyped, Listers
<1> DEFINE Stands == cpc'[c] = cpc[c] /\ (cpc[c] = "strip" => reg'[c] = reg[c])
           Goal == /\ cpc'[c] = "strip" =>
                        \/ cpc[c] = "strip" /\ reg'[c] = reg[c]
                        \/ cpc[c] = "load" /\ reg'[c] = registries /\ registries' = registries
                        \/ cpc[c] \in {"rebuild", "rebuilding"}
                   /\ cpc'[c] = "rebuild" => cpc[c] = "rebuild" \/ (cpc[c] = "load" /\ registries = None)
                   /\ cpc'[c] = "rebuilding" => cpc[c] \in {"rebuild", "rebuilding"}
<1>1. Stands => Goal
  OBVIOUS
<1>2. ASSUME NEW l \in Listers, ListSteps(l), ~Return(l) PROVE Stands
  <2>1. lpc[l] # "idle" /\ cpc' = cpc
    BY <1>2, Moving DEF calls
  <2>2. reg' = reg \/ \E r : reg' = [reg EXCEPT ![l] = r]
    BY <1>2 DEF ListSteps, MergeRegistries, CopyGlobalTools, ApplyDeclarations,
         CopySessionTools, AddSessionTools, Copy
  <2>3. l = c => cpc[c] # "strip"
    BY <2>1 DEF Rebuilding
  <2> QED
    BY <1>0, <2>1, <2>2, <2>3
<1>3. ASSUME NEW l \in Listers, Return(l) PROVE Goal
  <2>1. /\ lpc[l] = "return" /\ \E r : reg' = [reg EXCEPT ![l] = r]
        /\ cpc' = (IF l \in Calls THEN [cpc EXCEPT ![l] = "strip"] ELSE cpc)
    BY <1>3 DEF Return
  <2>2. CASE l = c
    BY <2>1, <2>2 DEF Rebuilding
  <2>3. CASE l # c
    BY <1>0, <1>1, <2>1, <2>3
  <2> QED
    BY <2>2, <2>3
<1>4. ASSUME NEW d \in Calls, d # c, CallSteps(d) \/ \E t \in Tools : \E args : CallTool(d, t, args)
      PROVE  Stands
  <2>1. reg' = reg \/ \E r : reg' = [reg EXCEPT ![d] = r]
    BY <1>4 DEF CallSteps, LoadForCall, Rebuild, RebuildFails, StripArguments, Dispatch, Finish,
         Collect, CallTool
  <2>2. \E place : cpc' = [cpc EXCEPT ![d] = place]
    BY <1>4 DEF CallSteps, LoadForCall, Rebuild, RebuildFails, StripArguments, Dispatch, Finish,
         Lookup, CallTool
  <2> QED
    BY <1>0, <1>4, <2>1, <2>2
<1>5. CASE LoadForCall(c)
  BY <1>0, <1>5 DEF LoadForCall
<1>6. CASE Rebuild(c) \/ RebuildFails(c)
  BY <1>0, <1>6 DEF Rebuild, RebuildFails
<1>7. CASE StripArguments(c) \/ Finish(c)
  BY <1>0, <1>7 DEF StripArguments, Finish
<1>8. CASE Dispatch(c)
  BY <1>0, <1>8 DEF Dispatch, Lookup
<1>9. ASSUME NEW t \in Tools, NEW args, CallTool(c, t, args) PROVE Goal
  BY <1>0, <1>9 DEF CallTool, Lookup
<1>10. ASSUME NEW l \in Lists, ListTools(l) PROVE Stands
  <2>1. cpc' = cpc /\ (\E r : reg' = [reg EXCEPT ![l] = r]) /\ l # c
    BY <1>0, <1>10 DEF ListTools, Collect, calls
  <2> QED
    BY <1>0, <2>1
<1>11. ASSUME NEW t \in Tools, DeleteTool(t) \/ \E form \in Forms : AddTool(t, form) PROVE Stands
  BY <1>11 DEF DeleteTool, AddTool, Change, calls
<1>12. CASE UNCHANGED vars
  BY <1>12 DEF vars, calls
<1> QED
  BY <1>1, <1>2, <1>3, <1>4, <1>5, <1>6, <1>7, <1>8, <1>9, <1>10, <1>11, <1>12
     DEF Next, ListSteps, CallSteps

(* What a request has in hand is known by now, and so is a tool a call was    *)
(* told of on this instance: such a call never lists, and has its tool's      *)
(* entry in hand when it is stripped.                                         *)
Handed == \A l \in Listers : \A t \in Tools : Holds(l, t) => Known(t)
HereKnown == \A c \in Calls : \A t \in Tools : HeardHere(c, t) =>
  /\ Known(t) /\ cpc[c] \notin {"rebuild", "rebuilding"}
  /\ cpc[c] = "strip" => Holds(c, t)

(* Only what is stored gets in hand. *)
LEMMA HandedNext == Types /\ Handed /\ [Next]_vars => Handed'
<1> SUFFICES ASSUME Types, Handed, [Next]_vars, NEW l \in Listers, NEW t \in Tools, Holds(l, t)'
             PROVE  Known(t)'
  BY DEF Handed
<1>1. CASE reg'[l] = reg[l]
  BY <1>1, KnownStays DEF Handed, Holds
<1>2. CASE reg'[l] = registries'
  BY <1>2 DEF Known, Holds
<1> QED
  BY <1>1, <1>2, Holding DEF Holds

(* The client is told of nothing that is not in the registries. *)
LEMMA HereKnownNext ==
  ASSUME NEW h, Types, GenuineCalls(h), Shaped, Rebuilding, Counted, HereKnown, [Next]_vars
  PROVE  HereKnown'
<1> SUFFICES ASSUME NEW c \in Calls, NEW t \in Tools, HeardHere(c, t)'
             PROVE  /\ Known(t)' /\ cpc'[c] \notin {"rebuild", "rebuilding"}
                    /\ cpc'[c] = "strip" => Holds(c, t)'
  BY DEF HereKnown
<1>0. /\ Asked(c) \/ (Active(c) /\ SameCall(c))
      /\ Known(t) => Known(t)'
      /\ call'[c].tool = t /\ call'[c].heard.here
  BY SameOrAsked, KnownStays DEF HeardHere
<1>1. CASE Asked(c)
  <2>1. known[t] # None /\ known[t].here /\ cpc'[c] \in {"load", "notfound", "rejected"}
    BY <1>0, <1>1 DEF Asked
  <2> QED
    BY <1>0, <2>1 DEF Counted, Told
<1>2. CASE Active(c) /\ SameCall(c)
  <2>1. /\ Known(t) /\ cpc[c] \notin {"rebuild", "rebuilding"}
        /\ cpc[c] = "strip" => Holds(c, t)
    BY <1>0, <1>2 DEF HereKnown, HeardHere, SameCall
  <2>2. cpc'[c] \notin {"rebuild", "rebuilding"}
    BY <2>1, Standing DEF Known
  <2>3. cpc'[c] = "strip" => Holds(c, t)'
    BY <2>1, Standing DEF Known, Holds
  <2> QED
    BY <1>0, <2>1, <2>2, <2>3
<1> QED
  BY <1>0, <1>1, <1>2

(* --------------------------- What a step may change --------------------------- *)

(* The registered tool is what it was, is the next registration, or is        *)
(* declared on, with the version it had or that a list has copied.            *)
LEMMA ToolMoves ==
  ASSUME Types, [Next]_vars, NEW t \in Tools, tools'[t] # None
  PROVE  \/ tools'[t] = tools[t]
         \/ tools'[t].version = version[t] + 1
         \/ /\ tools[t] # None /\ tools'[t] = Declared(cfg, tools[t])
            /\ tools'[t].version = tools[t].version
         \/ \E l \in Listers : /\ t \in DOMAIN snapshot[l]
                               /\ tools'[t] = Declared(cfg, snapshot[l][t])
                               /\ tools'[t].version = snapshot[l][t].version
<1>0. /\ DOMAIN tools = Tools /\ \A u \in Tools : tools[u] # None => IsTool(tools[u])
      /\ \A l \in Listers : \A u \in DOMAIN snapshot[l] : IsTool(snapshot[l][u])
  BY DEF Types, ServerTyped, MapsTyped, IsToolMap
<1> DEFINE Same == tools'[t] = tools[t]
<1>1. ASSUME tools' = tools PROVE Same
  BY <1>1
<1>2. ASSUME NEW u \in Tools, DeleteTool(u) PROVE Same
  <2>1. tools' = [tools EXCEPT ![u] = None]
    BY <1>2 DEF DeleteTool, Change
  <2> QED
    BY <1>0, <2>1
<1>3. ASSUME NEW u \in Tools, NEW form \in Forms, AddTool(u, form)
      PROVE  Same \/ tools'[t].version = version[t] + 1
  <2>1. tools' = [tools EXCEPT ![u] = Written(form, version[u] + 1)]
    BY <1>3 DEF AddTool, Change
  <2>2. CASE u = t
    BY <1>0, <2>1, <2>2 DEF Written
  <2>3. CASE u # t
    BY <1>0, <2>1, <2>3
  <2> QED
    BY <2>2, <2>3
<1>4. ASSUME NEW l \in Listers, ApplyDeclarations(l)
      PROVE  Same \/ /\ tools[t] # None /\ tools'[t] = Declared(cfg, tools[t])
                     /\ tools'[t].version = tools[t].version
  <2>1. \/ tools'[t] = tools[t]
        \/ tools[t] # None /\ tools'[t] = Declared(cfg, tools[t])
    BY <1>4 DEF ApplyDeclarations
  <2> QED
    BY <1>0, <2>1, Injecting
<1>5. ASSUME NEW l \in Listers, AddSessionTools(l)
      PROVE  Same \/ /\ t \in DOMAIN snapshot[l] /\ tools'[t] = Declared(cfg, snapshot[l][t])
                     /\ tools'[t].version = snapshot[l][t].version
  <2>1. \/ tools'[t] = tools[t]
        \/ t \in DOMAIN snapshot[l] /\ tools'[t] = Declared(cfg, snapshot[l][t])
    BY <1>5 DEF AddSessionTools, Undeclared
  <2> QED
    BY <1>0, <2>1, Injecting
<1>6. ASSUME NEW l \in Listers, ListSteps(l), ~ApplyDeclarations(l), ~AddSessionTools(l) PROVE Same
  BY <1>1, <1>6 DEF ListSteps, MergeRegistries, CopyGlobalTools, CopySessionTools, Return, Copy,
       server
<1>7. ASSUME NEW c \in Calls, CallSteps(c) PROVE Same
  BY <1>1, <1>7 DEF CallSteps, LoadForCall, Rebuild, RebuildFails, StripArguments, Dispatch,
       Finish, Collect, server
<1>8. ASSUME NEW l \in Lists, ListTools(l) PROVE Same
  BY <1>1, <1>8 DEF ListTools, Collect, server
<1>9. ASSUME NEW c \in Calls, NEW u \in Tools, NEW args, CallTool(c, u, args) PROVE Same
  BY <1>1, <1>9 DEF CallTool, server
<1>10. CASE UNCHANGED vars
  BY <1>1, <1>10 DEF vars, server
<1> QED
  BY <1>2, <1>3, <1>4, <1>5, <1>6, <1>7, <1>8, <1>9, <1>10 DEF Next

(* A list is about the page it collects, until it returns. *)
LEMMA SeenMoves ==
  ASSUME Types, [Next]_vars, NEW l \in Listers
  PROVE  \/ seen'[l] = seen[l] /\ (lpc'[l] = "loaded" => lpc[l] = "loaded")
         \/ DOMAIN seen'[l] = {}
         \/ /\ lpc'[l] = "loaded" /\ \E page : Collect(l, page)
            /\ \A m \in Listers \ {l} : seen'[m] = seen[m]
<1>0. DOMAIN seen = Listers /\ DOMAIN lpc = Listers
  BY DEF Types, MapsTyped, PlacesTyped
<1> DEFINE Same == seen'[l] = seen[l] /\ (lpc'[l] = "loaded" => lpc[l] = "loaded")
<1>1. ASSUME UNCHANGED lists PROVE Same
  BY <1>1 DEF lists
<1>2. ASSUME NEW m \in Listers, ListSteps(m), ~Return(m) PROVE Same
  <2>1. seen' = seen /\ \A k \in Listers \ {m} : lpc'[k] = lpc[k]
    BY <1>2, Moving
  <2>2. lpc'[m] = "loaded" => lpc[m] = "loaded"
    BY <1>0, <1>2 DEF ListSteps, MergeRegistries, CopyGlobalTools, ApplyDeclarations,
         CopySessionTools, AddSessionTools, Copy, Step, AfterMerge, AfterGlobal
  <2> QED
    BY <2>1, <2>2
<1>3. ASSUME NEW m \in Listers, Return(m) PROVE Same \/ DOMAIN seen'[l] = {}
  <2>1. seen' = [seen EXCEPT ![m] = <<>>] /\ lpc' = [lpc EXCEPT ![m] = "idle"]
    BY <1>3 DEF Return, Step
  <2> QED
    BY <1>0, <2>1, EmptyMap
<1>4. ASSUME NEW m \in Listers, NEW page, Collect(m, page)
      PROVE  Same \/ /\ lpc'[l] = "loaded" /\ Collect(l, page)
                     /\ \A k \in Listers \ {l} : seen'[k] = seen[k]
  <2>1. seen' = [seen EXCEPT ![m] = Copies(page)] /\ lpc' = [lpc EXCEPT ![m] = "loaded"]
    BY <1>4 DEF Collect, Step
  <2> QED
    BY <1>0, <1>4, <2>1
<1>5. ASSUME NEW c \in Calls, CallSteps(c), ~Rebuild(c) PROVE Same
  BY <1>1, <1>5, CallMoving
<1>6. ASSUME NEW c \in Calls, Rebuild(c) PROVE c \in Listers /\ \E page : Collect(c, page)
  BY <1>6 DEF Rebuild, Listers
<1>7. ASSUME NEW m \in Lists, ListTools(m) PROVE m \in Listers /\ \E page : Collect(m, page)
  BY <1>7 DEF ListTools, Listers
<1>8. ASSUME NEW c \in Calls, NEW t \in Tools, NEW args, CallTool(c, t, args) PROVE Same
  BY <1>1, <1>8 DEF CallTool
<1>9. ASSUME NEW t \in Tools, DeleteTool(t) \/ \E form \in Forms : AddTool(t, form) PROVE Same
  BY <1>1, <1>9 DEF DeleteTool, AddTool, Change
<1>10. CASE UNCHANGED vars
  BY <1>1, <1>10 DEF vars
<1> QED
  BY <1>2, <1>3, <1>4, <1>5, <1>6, <1>7, <1>8, <1>9, <1>10 DEF Next, ListSteps, CallSteps

(* Copies are taken of what is registered at that moment. *)
LEMMA SnapshotMoves ==
  ASSUME Types, [Next]_vars, NEW l \in Listers
  PROVE  \/ snapshot'[l] = snapshot[l]
         \/ DOMAIN snapshot'[l] = {}
         \/ (\E names : snapshot'[l] = Copies(names)) /\ seen' = seen /\ tools' = tools
<1>0. DOMAIN snapshot = Listers
  BY DEF Types, MapsTyped
<1>1. ASSUME snapshot' = snapshot PROVE snapshot'[l] = snapshot[l]
  BY <1>1
<1>2. ASSUME NEW m \in Listers, CopyGlobalTools(m) \/ CopySessionTools(m)
      PROVE  \/ snapshot'[l] = snapshot[l]
             \/ DOMAIN snapshot'[l] = {}
             \/ (\E names : snapshot'[l] = Copies(names)) /\ seen' = seen /\ tools' = tools
  <2>1. /\ seen' = seen /\ tools' = tools
        /\ \E names, f : /\ snapshot' = [snapshot EXCEPT ![m] = f]
                         /\ f = Copies(names) \/ f = <<>>
    BY <1>2 DEF CopyGlobalTools, CopySessionTools, Copy, server
  <2> QED
    BY <1>0, <2>1, EmptyMap
<1>3. ASSUME NEW m \in Listers, ApplyDeclarations(m) \/ AddSessionTools(m)
      PROVE  snapshot'[l] = snapshot[l] \/ DOMAIN snapshot'[l] = {}
  <2>1. snapshot' = [snapshot EXCEPT ![m] = <<>>]
    BY <1>3 DEF ApplyDeclarations, AddSessionTools
  <2> QED
    BY <1>0, <2>1, EmptyMap
<1>4. ASSUME NEW m \in Listers, MergeRegistries(m) \/ Return(m) PROVE snapshot' = snapshot
  BY <1>4 DEF MergeRegistries, Return
<1>5. ASSUME NEW c \in Calls, CallSteps(c) PROVE snapshot' = snapshot
  BY <1>5 DEF CallSteps, LoadForCall, Rebuild, RebuildFails, StripArguments, Dispatch, Finish,
       Collect, lists
<1>6. ASSUME NEW m \in Lists, ListTools(m) PROVE snapshot' = snapshot
  BY <1>6 DEF ListTools, Collect
<1>7. ASSUME NEW c \in Calls, NEW t \in Tools, NEW args, CallTool(c, t, args)
      PROVE  snapshot' = snapshot
  BY <1>7 DEF CallTool, lists
<1>8. ASSUME NEW t \in Tools, DeleteTool(t) \/ \E form \in Forms : AddTool(t, form)
      PROVE  snapshot' = snapshot
  BY <1>8 DEF DeleteTool, AddTool, Change, lists
<1>9. CASE UNCHANGED vars
  BY <1>9 DEF vars, lists
<1> QED
  BY <1>1, <1>2, <1>3, <1>4, <1>5, <1>6, <1>7, <1>8, <1>9 DEF Next, ListSteps

(* A list that has loaded the registries goes on by a merge that succeeds. *)
LEMMA Leaving ==
  ASSUME Types, [Next]_vars, NEW l \in Listers, lpc[l] = "loaded", lpc'[l] # "loaded"
  PROVE  registries' = Merge(registries, Registries(cfg, seen[l]), None)
<1>0. DOMAIN lpc = Listers
  BY DEF Types, PlacesTyped
<1>1. ASSUME NEW m \in Listers, ListSteps(m), ~Return(m), m # l PROVE FALSE
  BY <1>1, Moving
<1>2. CASE ListSteps(l)
  BY <1>2 DEF ListSteps, MergeRegistries, CopyGlobalTools, ApplyDeclarations,
         CopySessionTools, AddSessionTools, Return
<1>3. ASSUME NEW m \in Listers, Return(m) PROVE FALSE
  BY <1>0, <1>3 DEF Return, Step
<1>4. ASSUME NEW m \in Listers, NEW page, Collect(m, page) PROVE FALSE
  BY <1>0, <1>4 DEF Collect, Step
<1>5. ASSUME NEW c \in Calls, CallSteps(c), ~Rebuild(c) PROVE FALSE
  BY <1>5, CallMoving DEF lists
<1>6. ASSUME NEW c \in Calls, Rebuild(c) PROVE FALSE
  BY <1>4, <1>6 DEF Rebuild, Listers
<1>7. ASSUME NEW m \in Lists, ListTools(m) PROVE FALSE
  BY <1>4, <1>7 DEF ListTools, Listers
<1>8. ASSUME NEW c \in Calls, NEW t \in Tools, NEW args, CallTool(c, t, args) PROVE FALSE
  BY <1>8 DEF CallTool, lists
<1>9. ASSUME NEW t \in Tools, DeleteTool(t) \/ \E form \in Forms : AddTool(t, form) PROVE FALSE
  BY <1>9 DEF DeleteTool, AddTool, Change, lists
<1>10. CASE UNCHANGED vars
  BY <1>10 DEF vars, lists
<1> QED
  BY <1>1, <1>2, <1>3, <1>5, <1>6, <1>7, <1>8, <1>9, <1>10 DEF Next, ListSteps, CallSteps

(* ------------------------- The newest entry is kept ------------------------- *)

(* Lists that overlap have seen the same version of a tool that did not race, *)
(* and none that is newer than what is registered or about to be.             *)
FreshLists(t) == \A l \in Listers : t \in DOMAIN seen[l] =>
  /\ tools[t] # None => seen[l][t].version <= tools[t].version
  /\ \A m \in Listers :
       /\ t \in DOMAIN seen[m] => seen[m][t].version = seen[l][t].version
       /\ t \in DOMAIN snapshot[m] => seen[l][t].version <= snapshot[m][t].version

(* The n-th registration is no newer than what is registered, about to be, or *)
(* about to be merged ...                                                     *)
NoNewer(t, n) ==
  /\ tools[t] # None => n <= tools[t].version
  /\ \A l \in Listers :
       /\ lpc[l] = "loaded" /\ t \in DOMAIN seen[l] => n <= seen[l][t].version
       /\ t \in DOMAIN snapshot[l] => n <= snapshot[l][t].version

(* ... and no older than what has been merged, or the client was told.        *)
NoOlder(t, n) ==
  /\ known[t] # None /\ known[t].here => known[t].tool.version <= n
  /\ \A l \in Listers : lpc[l] # "loaded" /\ t \in DOMAIN seen[l] => seen[l][t].version <= n
  /\ \A c \in Calls : HeardHere(c, t) => call[c].heard.tool.version <= n

(* An entry in hand is of that registration or an older one, and when a call  *)
(* is stripped by it, of one no older than the client was told of.            *)
InHand(h, t, n, l) == \E k \in Versions(t) :
  /\ IsEntry(cfg, h, t, k, reg[l][t]) /\ k <= n
  /\ l \in Calls /\ cpc[l] = "strip" /\ HeardHere(l, t) => call[l].heard.tool.version <= k

FreshEntry(h, t, n) ==
  /\ IsEntry(cfg, h, t, n, registries[t]) /\ NoNewer(t, n) /\ NoOlder(t, n)
  /\ \A l \in Listers : Holds(l, t) => InHand(h, t, n, l)

Fresh(h) == \A t \in Tools \ raced :
  FreshLists(t) /\ (Known(t) => \E n \in Versions(t) : FreshEntry(h, t, n))

(* A race is not forgotten. *)
LEMMA RacesStay ==
  ASSUME [Next]_vars
  PROVE  raced \subseteq raced'
<1>1. ASSUME NEW l \in Listers, ListSteps(l) PROVE raced' = raced
  BY <1>1 DEF ListSteps, MergeRegistries, CopyGlobalTools, ApplyDeclarations, CopySessionTools,
       AddSessionTools, Return, Copy, faults
<1>2. ASSUME NEW c \in Calls, CallSteps(c), ~Rebuild(c) PROVE raced' = raced
  BY <1>2 DEF CallSteps, LoadForCall, RebuildFails, StripArguments, Dispatch, Finish, faults
<1>3. ASSUME NEW c \in Calls, Rebuild(c) PROVE raced \subseteq raced'
  BY <1>3 DEF Rebuild, Collect
<1>4. ASSUME NEW l \in Lists, ListTools(l) PROVE raced \subseteq raced'
  BY <1>4 DEF ListTools, Collect
<1>5. ASSUME NEW c \in Calls, NEW t \in Tools, NEW args, CallTool(c, t, args)
      PROVE  raced' = raced
  BY <1>5 DEF CallTool, faults
<1>6. ASSUME NEW t \in Tools, DeleteTool(t) \/ \E form \in Forms : AddTool(t, form)
      PROVE  raced' = raced
  BY <1>6 DEF DeleteTool, AddTool, Change
<1>7. CASE UNCHANGED vars
  BY <1>7 DEF vars, faults
<1> QED
  BY <1>1, <1>2, <1>3, <1>4, <1>5, <1>6, <1>7 DEF Next

(* Every version there is, is one of the tool's so far. *)
LEMMA Numbers ==
  ASSUME NEW h, Types, Genuine(h), NEW t \in Tools
  PROVE  /\ version[t] \in Nat
         /\ tools[t] # None => tools[t].version \in 1..version[t]
         /\ known[t] # None => known[t].tool.version \in 1..version[t]
         /\ \A l \in Listers :
              /\ t \in DOMAIN seen[l] => seen[l][t].version \in 1..version[t]
              /\ t \in DOMAIN snapshot[l] => snapshot[l][t].version \in 1..version[t]
         /\ \A c \in Calls : Active(c) /\ call[c].tool = t =>
              call[c].heard.tool.version \in 1..version[t]
<1>1. version[t] \in Nat
  BY SchemasAssumption DEF Types, ServerTyped
<1> QED
  BY <1>1 DEF Genuine, GenuineTools, GenuineCopies, GenuineCalls, IsCopy, WasTold

(* A page that was collected has the tools there are. *)
LEMMA Collected ==
  ASSUME NEW names, NEW t \in DOMAIN Copies(names)
  PROVE  t \in names /\ tools[t] # None /\ Copies(names)[t] = tools[t]
  BY DEF Copies, Registered

(* A list that begins while another is under way sees what that one has seen, *)
(* or they race.                                                              *)
LEMMA NoRace ==
  ASSUME NEW h, Types, Resting, Genuine(h), NEW l \in Listers, NEW page, Collect(l, page),
         NEW t \in Tools \ raced', NEW m \in Listers \ {l}
  PROVE  /\ t \in DOMAIN Copies(page) /\ t \in DOMAIN seen[m] =>
              seen[m][t].version = tools[t].version
         /\ t \in DOMAIN Copies(page) /\ t \in DOMAIN snapshot[m] => t \in DOMAIN seen[m]
<1>1. raced' = raced \cup
       {u \in page : \E k \in Listers \ {l} :
          lpc[k] # "idle" /\ VersionIn(seen[k], u) # VersionIn(Copies(page), u)}
  BY DEF Collect
<1>2. ASSUME t \in DOMAIN Copies(page), t \in DOMAIN seen[m] \/ t \in DOMAIN snapshot[m]
      PROVE  t \in DOMAIN seen[m] /\ seen[m][t].version = tools[t].version
  <2>1. lpc[m] # "idle"
    BY <1>2 DEF Resting
  <2>2. t \in page /\ VersionIn(Copies(page), t) = tools[t].version /\ tools[t] # None
    BY <1>2, Collected DEF VersionIn
  <2>3. VersionIn(seen[m], t) = tools[t].version
    BY <1>1, <2>1, <2>2
  <2>4. tools[t].version # 0
    BY <2>2, Numbers
  <2> QED
    BY <2>3, <2>4 DEF VersionIn
<1> QED
  BY <1>2

(* Lists stay in step with each other and with what is registered. *)
LEMMA FreshListsNext ==
  ASSUME NEW h, Types, Resting, Genuine(h), [Next]_vars, NEW t \in Tools \ raced', FreshLists(t)
  PROVE  FreshLists(t)'
<1>n. /\ version[t] \in Nat
      /\ tools[t] # None => tools[t].version \in 1..version[t]
      /\ \A l \in Listers :
           /\ t \in DOMAIN seen[l] => seen[l][t].version \in 1..version[t]
           /\ t \in DOMAIN snapshot[l] => snapshot[l][t].version \in 1..version[t]
  BY Numbers
<1>1. ASSUME NEW l \in Listers, NEW page, Collect(l, page) PROVE FreshLists(t)'
  <2>1. /\ seen' = [seen EXCEPT ![l] = Copies(page)] /\ tools' = tools /\ snapshot' = snapshot
        /\ lpc[l] = "idle"
    BY <1>1 DEF Collect, server
  <2>2. /\ seen'[l] = Copies(page) /\ \A m \in Listers \ {l} : seen'[m] = seen[m]
        /\ t \notin DOMAIN snapshot[l]
    BY <2>1 DEF Types, MapsTyped, Resting
  <2>3. t \in DOMAIN Copies(page) => tools[t] # None /\ Copies(page)[t] = tools[t]
    BY Collected
  <2>4. \A m \in Listers \ {l} :
          /\ t \in DOMAIN Copies(page) /\ t \in DOMAIN seen[m] => seen[m][t].version = tools[t].version
          /\ t \in DOMAIN Copies(page) /\ t \in DOMAIN snapshot[m] => t \in DOMAIN seen[m]
    BY <1>1, NoRace
  <2>5. ASSUME NEW k \in Listers, t \in DOMAIN seen'[k], tools[t] # None
        PROVE  seen'[k][t].version <= tools[t].version
    BY <1>n, <2>2, <2>3, <2>5 DEF FreshLists
  <2>6. ASSUME NEW k \in Listers, NEW m \in Listers, t \in DOMAIN seen'[k], t \in DOMAIN seen'[m]
        PROVE  seen'[m][t].version = seen'[k][t].version
    BY <2>2, <2>3, <2>4, <2>6 DEF FreshLists
  <2>7. ASSUME NEW k \in Listers, NEW m \in Listers, t \in DOMAIN seen'[k], t \in DOMAIN snapshot[m]
        PROVE  seen'[k][t].version <= snapshot[m][t].version
    <3>1. CASE k = l
      <4>1. m # l /\ t \in DOMAIN seen[m] /\ seen[m][t].version = tools[t].version
        BY <2>2, <2>4, <2>7, <3>1
      <4> QED
        BY <2>2, <2>3, <2>7, <3>1, <4>1 DEF FreshLists
    <3>2. CASE k # l
      BY <2>2, <2>7, <3>2 DEF FreshLists
    <3> QED
      BY <3>1, <3>2
  <2> QED
    BY <2>1, <2>5, <2>6, <2>7 DEF FreshLists
<1>2. ASSUME \A l \in Listers : seen'[l] = seen[l] \/ DOMAIN seen'[l] = {} PROVE FreshLists(t)'
  <2>1. ASSUME NEW k \in Listers, t \in DOMAIN seen'[k]
        PROVE  /\ tools'[t] # None => seen'[k][t].version <= tools'[t].version
               /\ \A m \in Listers :
                    /\ t \in DOMAIN seen'[m] => seen'[m][t].version = seen'[k][t].version
                    /\ t \in DOMAIN snapshot'[m] => seen'[k][t].version <= snapshot'[m][t].version
    <3>1. seen'[k] = seen[k] /\ t \in DOMAIN seen[k]
      BY <1>2, <2>1
    <3>2. tools'[t] # None => seen[k][t].version <= tools'[t].version
      BY <1>n, <3>1, ToolMoves DEF FreshLists
    <3>3. ASSUME NEW m \in Listers, t \in DOMAIN snapshot'[m]
          PROVE  seen[k][t].version <= snapshot'[m][t].version
      <4>1. CASE snapshot'[m] = snapshot[m]
        BY <3>1, <3>3, <4>1 DEF FreshLists
      <4>2. ASSUME NEW names, snapshot'[m] = Copies(names)
            PROVE  seen[k][t].version <= snapshot'[m][t].version
        BY <3>1, <3>3, <4>2, Collected DEF FreshLists
      <4> QED
        BY <3>3, <4>1, <4>2, SnapshotMoves
    <3> QED
      BY <1>2, <3>1, <3>2, <3>3 DEF FreshLists
  <2> QED
    BY <2>1 DEF FreshLists
<1> QED
  BY <1>1, <1>2, SeenMoves

(* What is no newer than all there is stays so: the versions only go up, or   *)
(* back to one that was copied.                                               *)
LEMMA NoNewerNext ==
  ASSUME NEW h, Types, Genuine(h), [Next]_vars, NEW t \in Tools, NEW n \in Versions(t),
         NoNewer(t, n)
  PROVE  NoNewer(t, n)'
<1>n. version[t] \in Nat /\ n \in 1..version[t]
  BY Numbers DEF Versions
<1>1. tools'[t] # None => n <= tools'[t].version
  BY <1>n, ToolMoves DEF NoNewer
<1>2. ASSUME NEW l \in Listers, lpc'[l] = "loaded", t \in DOMAIN seen'[l]
      PROVE  n <= seen'[l][t].version
  <2>1. ASSUME NEW page, Collect(l, page) PROVE n <= seen'[l][t].version
    <3>1. seen'[l] = Copies(page)
      BY <2>1 DEF Collect, Types, MapsTyped
    <3> QED
      BY <1>2, <3>1, Collected DEF NoNewer
  <2>2. CASE seen'[l] = seen[l] /\ lpc[l] = "loaded"
    BY <1>2, <2>2 DEF NoNewer
  <2> QED
    BY <1>2, <2>1, <2>2, SeenMoves
<1>3. ASSUME NEW l \in Listers, t \in DOMAIN snapshot'[l] PROVE n <= snapshot'[l][t].version
  <2>1. CASE snapshot'[l] = snapshot[l]
    BY <1>3, <2>1 DEF NoNewer
  <2>2. ASSUME NEW names, snapshot'[l] = Copies(names) PROVE n <= snapshot'[l][t].version
    BY <1>3, <2>2, Collected DEF NoNewer
  <2> QED
    BY <1>3, <2>1, <2>2, SnapshotMoves
<1> QED
  BY <1>1, <1>2, <1>3 DEF NoNewer

(* The client knows what it knew, or what a list tells it of. *)
LEMMA KnownMoves ==
  ASSUME [Next]_vars, NEW t \in Tools
  PROVE  \/ known'[t] = known[t]
         \/ \E l \in Listers : /\ lpc[l] = "return" /\ t \in DOMAIN seen[l]
                               /\ known'[t] = Heard(Advertised(cfg, seen[l][t]), TRUE)
<1>1. ASSUME NEW l \in Listers, Return(l)
      PROVE  \/ known'[t] = known[t]
             \/ /\ lpc[l] = "return" /\ t \in DOMAIN seen[l]
                /\ known'[t] = Heard(Advertised(cfg, seen[l][t]), TRUE)
  BY <1>1 DEF Return
<1>2. ASSUME NEW l \in Listers, ListSteps(l), ~Return(l) PROVE known' = known
  BY <1>2 DEF ListSteps, MergeRegistries, CopyGlobalTools, ApplyDeclarations, CopySessionTools,
       AddSessionTools, Copy, client
<1>3. ASSUME NEW c \in Calls, CallSteps(c) PROVE known' = known
  BY <1>3 DEF CallSteps, LoadForCall, Rebuild, RebuildFails, StripArguments, Dispatch, Finish,
       client
<1>4. ASSUME NEW l \in Lists, ListTools(l) PROVE known' = known
  BY <1>4 DEF ListTools
<1>5. ASSUME NEW c \in Calls, NEW u \in Tools, NEW args, CallTool(c, u, args)
      PROVE  known' = known
  BY <1>5 DEF CallTool, client
<1>6. ASSUME NEW u \in Tools, DeleteTool(u) \/ \E form \in Forms : AddTool(u, form)
      PROVE  known' = known
  BY <1>6 DEF DeleteTool, AddTool, Change, client
<1>7. CASE UNCHANGED vars
  BY <1>7 DEF vars, client
<1> QED
  BY <1>1, <1>2, <1>3, <1>4, <1>5, <1>6, <1>7 DEF Next

(* What is no older than all that was merged or told stays so, unless a list  *)
(* merges something newer.                                                    *)
LEMMA NoOlderNext ==
  ASSUME NEW h \in Histories, Types, Genuine(h), Resting, Rebuilding, [Next]_vars, NEW t \in Tools,
         NEW n \in Versions(t), NoOlder(t, n),
         \A l \in Listers : /\ lpc[l] = "loaded" /\ lpc'[l] # "loaded"
                            /\ t \in DOMAIN seen[l]
                            => seen[l][t].version <= n
  PROVE  NoOlder(t, n)'
<1>0. /\ GenuineCopies(h) /\ GenuineCalls(h) /\ Shaped /\ version[t] \in 0..MaxVersions
  BY DEF Genuine, Types, ServerTyped
<1>k. ASSUME NEW x, IsCopy(cfg, h, t, version[t], x)
      PROVE  Heard(Advertised(cfg, x), TRUE).tool.version = x.version
  <2>1. IsTool(x)
    BY <1>0, <1>k, Copying
  <2> QED
    BY <2>1, Advertising DEF Heard
<1>1. ASSUME known'[t] # None, known'[t].here PROVE known'[t].tool.version <= n
  <2>1. CASE known'[t] = known[t]
    BY <1>1, <2>1 DEF NoOlder
  <2>2. ASSUME NEW l \in Listers, lpc[l] = "return", t \in DOMAIN seen[l],
               known'[t] = Heard(Advertised(cfg, seen[l][t]), TRUE)
        PROVE  known'[t].tool.version <= n
    <3> DEFINE x == seen[l][t]
    <3>1. IsCopy(cfg, h, t, version[t], x)
      BY <1>0, <2>2 DEF GenuineCopies
    <3> HIDE DEF x
    <3>2. Heard(Advertised(cfg, x), TRUE).tool.version = x.version
      BY <1>k, <3>1
    <3>3. x.version <= n
      BY <2>2 DEF NoOlder, x
    <3> QED
      BY <2>2, <3>2, <3>3 DEF x
  <2> QED
    BY <2>1, <2>2, KnownMoves
<1>2. ASSUME NEW l \in Listers, lpc'[l] # "loaded", t \in DOMAIN seen'[l]
      PROVE  seen'[l][t].version <= n
  <2>1. seen'[l] = seen[l]
    BY <1>2, SeenMoves
  <2> QED
    BY <1>2, <2>1 DEF NoOlder
<1>3. ASSUME NEW c \in Calls, HeardHere(c, t)' PROVE call'[c].heard.tool.version <= n
  <2>1. /\ Asked(c) \/ (Active(c) /\ SameCall(c))
        /\ call'[c].tool = t /\ call'[c].heard.here
    BY <1>0, <1>3, SameOrAsked DEF HeardHere
  <2>2. CASE Asked(c)
    BY <2>1, <2>2 DEF Asked, NoOlder
  <2>3. CASE Active(c) /\ SameCall(c)
    BY <2>1, <2>3 DEF NoOlder, HeardHere, SameCall
  <2> QED
    BY <2>1, <2>2, <2>3
<1> QED
  BY <1>1, <1>2, <1>3 DEF NoOlder

(* Entries in hand are older than the entry that is stored, which may become  *)
(* newer, and a call takes the stored one.                                    *)
LEMMA InHandNext ==
  ASSUME NEW h \in Histories, Types, Genuine(h), Rebuilding, HereKnown, [Next]_vars,
         NEW t \in Tools, NEW n \in Versions(t), NEW l \in Listers, Holds(l, t)',
         IsEntry(cfg, h, t, n, registries'[t]), NoOlder(t, n),
         Holds(l, t) => \E m \in Versions(t) : m <= n /\ InHand(h, t, m, l)
  PROVE  InHand(h, t, n, l)'
<1>0. /\ GenuineCalls(h) /\ Shaped /\ Grows /\ version[t] \in Nat /\ n \in 1..version[t]
      /\ \A k \in Versions(t) : k \in Versions(t)' /\ k \in Nat
  BY Growing, Numbers DEF Genuine, Versions, Grows
<1>c. cfg' = cfg
  BY <1>0 DEF Grows, cfg
<1>1. ASSUME l \in Calls, cpc'[l] = "strip", HeardHere(l, t)'
      PROVE  /\ HeardHere(l, t) /\ call'[l].heard = call[l].heard
             /\ \/ cpc[l] = "strip" /\ reg'[l] = reg[l]
                \/ cpc[l] = "load" /\ reg'[l] = registries'
  <2>1. Active(l) /\ SameCall(l)
    BY <1>0, <1>1, SameOrAsked DEF HeardHere, Asked
  <2>2. HeardHere(l, t) /\ call'[l].heard = call[l].heard
    BY <1>1, <2>1 DEF HeardHere, SameCall
  <2>3. cpc[l] \notin {"rebuild", "rebuilding"}
    BY <1>1, <2>2 DEF HereKnown
  <2> QED
    BY <1>1, <2>2, <2>3, Standing
<1>2. CASE reg'[l] = registries'
  <2>1. l \in Calls /\ cpc'[l] = "strip" /\ HeardHere(l, t)' => call'[l].heard.tool.version <= n
    BY <1>1 DEF NoOlder
  <2> QED
    BY <1>0, <1>c, <1>2, <2>1 DEF InHand
<1>3. CASE reg'[l] = reg[l] /\ reg'[l] # registries'
  <2>1. Holds(l, t)
    BY <1>3 DEF Holds
  <2>2. PICK m \in Versions(t) : m <= n /\ InHand(h, t, m, l)
    BY <2>1
  <2>3. PICK k \in Versions(t) :
          /\ IsEntry(cfg, h, t, k, reg[l][t]) /\ k <= m
          /\ l \in Calls /\ cpc[l] = "strip" /\ HeardHere(l, t) => call[l].heard.tool.version <= k
    BY <2>2 DEF InHand
  <2>4. k <= n
    BY <1>0, <2>2, <2>3
  <2>5. l \in Calls /\ cpc'[l] = "strip" /\ HeardHere(l, t)' => call'[l].heard.tool.version <= k
    BY <1>1, <1>3, <2>3
  <2> QED
    BY <1>0, <1>c, <1>3, <2>3, <2>4, <2>5 DEF InHand
<1> QED
  BY <1>2, <1>3, Holding DEF Holds

(* A merge stores entries that are no older than those it replaces, and       *)
(* nothing else changes what is stored.                                       *)
LEMMA FreshNext ==
  ASSUME NEW h \in Histories, Types, Genuine(h), Resting, Rebuilding, Counted, Handed, HereKnown,
         Fresh(h), [Next]_vars
  PROVE  Fresh(h)'
<1> SUFFICES ASSUME NEW t \in Tools \ raced'
             PROVE  FreshLists(t)' /\ (Known(t)' => (\E n \in Versions(t) : FreshEntry(h, t, n))')
  BY DEF Fresh
<1>0. /\ t \in Tools \ raced /\ FreshLists(t)
      /\ Known(t) => \E n \in Versions(t) : FreshEntry(h, t, n)
  BY RacesStay DEF Fresh
<1>g. GenuineCopies(h) /\ Grows /\ version[t] \in 0..MaxVersions /\ version[t] \in Nat
  BY Growing, Numbers DEF Genuine, Types, ServerTyped
<1>c. cfg' = cfg
  BY <1>g DEF Grows, cfg
<1>v. \A n \in Versions(t) : n \in Versions(t)'
  BY <1>g DEF Versions, Grows
<1>1. FreshLists(t)'
  BY <1>0, FreshListsNext
<1>2. ASSUME NEW n \in Versions(t), IsEntry(cfg, h, t, n, registries'[t]), NoNewer(t, n), NoOlder(t, n),
             \A l \in Listers : /\ lpc[l] = "loaded" /\ lpc'[l] # "loaded"
                                /\ t \in DOMAIN seen[l]
                                => seen[l][t].version <= n,
             \A l \in Listers : Holds(l, t) => \E m \in Versions(t) : m <= n /\ InHand(h, t, m, l)
      PROVE  (\E k \in Versions(t) : FreshEntry(h, t, k))'
  <2>1. NoNewer(t, n)'
    BY <1>0, <1>2, NoNewerNext
  <2>2. NoOlder(t, n)'
    BY <1>0, <1>2, NoOlderNext
  <2>3. \A l \in Listers : Holds(l, t)' => InHand(h, t, n, l)'
    BY <1>0, <1>2, InHandNext
  <2>4. FreshEntry(h, t, n)'
    BY <1>c, <1>2, <2>1, <2>2, <2>3 DEF FreshEntry
  <2> QED
    BY <1>v, <2>4
<1>3. ASSUME NEW l \in Listers, lpc[l] = "loaded", lpc'[l] # "loaded", t \in DOMAIN seen[l]
      PROVE  (\E n \in Versions(t) : FreshEntry(h, t, n))'
  <2> DEFINE x == seen[l][t]
             n == x.version
  <2>1. IsCopy(cfg, h, t, version[t], x)
    BY <1>g, <1>3 DEF GenuineCopies
  <2>2. registries'[t] = Entry(cfg, x)
    BY <1>3, Leaving, Merged
  <2>3. n \in Versions(t) /\ IsEntry(cfg, h, t, n, registries'[t])
    <3>1. t \in Tools
      BY <1>0
    <3> HIDE DEF x
    <3>2. x.version \in 1..version[t] /\ IsEntry(cfg, h, t, x.version, Entry(cfg, x))
      BY <1>g, <2>1, <3>1, Copying
    <3> QED
      BY <2>2, <3>2 DEF Versions
  <2>4. ASSUME Known(t)
        PROVE  \E k \in Versions(t) : k <= n /\ FreshEntry(h, t, k)
    BY <1>0, <1>3, <2>4 DEF FreshEntry, NoNewer
  <2>5. NoNewer(t, n)
    <3>1. \A m \in Listers : t \in DOMAIN seen[m] => seen[m][t].version = n
      BY <1>0, <1>3 DEF FreshLists
    <3>2. n \in Nat
      BY <1>g, <2>3 DEF Versions
    <3> QED
      BY <1>0, <1>3, <3>1, <3>2 DEF FreshLists, NoNewer
  <2>6. NoOlder(t, n)
    <3>1. \A m \in Listers : t \in DOMAIN seen[m] => seen[m][t].version <= n
      BY <1>0, <1>g, <1>3, <2>3 DEF FreshLists, Versions
    <3>2. ASSUME Known(t)
          PROVE  /\ known[t] # None /\ known[t].here => known[t].tool.version <= n
                 /\ \A c \in Calls : HeardHere(c, t) => call[c].heard.tool.version <= n
      <4>1. PICK k \in Versions(t) : k <= n /\ FreshEntry(h, t, k)
        BY <2>4, <3>2
      <4>2. k \in Nat /\ n \in Nat
        BY <1>g, <2>3, <4>1 DEF Versions
      <4>3. known[t] # None => known[t].tool.version \in Nat
        BY <1>0, <1>g, Numbers
      <4>4. \A c \in Calls : HeardHere(c, t) => call[c].heard.tool.version \in Nat
        BY <1>0, <1>g, Numbers DEF HeardHere
      <4> HIDE DEF n
      <4> QED
        BY <4>1, <4>2, <4>3, <4>4 DEF FreshEntry, NoOlder
    <3>3. ASSUME ~Known(t)
          PROVE  /\ ~(known[t] # None /\ known[t].here)
                 /\ \A c \in Calls : ~HeardHere(c, t)
      BY <1>0, <3>3 DEF Counted, Told, HereKnown
    <3> QED
      BY <3>1, <3>2, <3>3 DEF NoOlder
  <2>7. ASSUME NEW m \in Listers, Holds(m, t)
        PROVE  \E k \in Versions(t) : k <= n /\ InHand(h, t, k, m)
    <3>1. Known(t)
      BY <1>0, <2>7 DEF Handed
    <3> QED
      BY <2>4, <2>7, <3>1 DEF FreshEntry
  <2>8. \A m \in Listers : t \in DOMAIN seen[m] => seen[m][t].version <= n
    BY <1>0, <1>g, <1>3, <2>3 DEF FreshLists, Versions
  <2> HIDE DEF n
  <2> QED
    BY <1>2, <2>3, <2>5, <2>6, <2>7, <2>8
<1>4. ASSUME Known(t)',
             ~\E l \in Listers : lpc[l] = "loaded" /\ lpc'[l] # "loaded" /\ t \in DOMAIN seen[l]
      PROVE  (\E n \in Versions(t) : FreshEntry(h, t, n))'
  <2>1. Known(t) /\ registries'[t] = registries[t]
    <3>1. CASE registries' = registries
      BY <1>4, <3>1 DEF Known
    <3>2. ASSUME NEW l \in Listers, MergeRegistries(l), registries = reg[l],
                 registries' = Merge(registries, Registries(cfg, seen[l]), None)
          PROVE  Known(t) /\ registries'[t] = registries[t]
      <4>1. lpc[l] = "loaded" /\ lpc'[l] # "loaded"
        BY <3>2 DEF MergeRegistries, Step, AfterMerge, Types, PlacesTyped
      <4>2. t \notin DOMAIN seen[l]
        BY <1>4, <4>1
      <4> QED
        BY <1>4, <3>2, <4>2, Merged DEF Known
    <3> QED
      BY <3>1, <3>2, Storing
  <2>2. PICK n \in Versions(t) : FreshEntry(h, t, n)
    BY <1>0, <2>1
  <2>3. n <= n
    BY <1>g DEF Versions
  <2> QED
    BY <1>2, <1>4, <2>1, <2>2, <2>3 DEF FreshEntry
<1> QED
  BY <1>1, <1>3, <1>4

(* --------------------- Declared before the client is told --------------------- *)

IsDeclared(t, n) == tools[t] # None /\ tools[t].version = n => Declared(cfg, tools[t]) = tools[t]

(* A list is about to declare on a tool, of which it holds a copy that is     *)
(* still what is registered.                                                  *)
Pending(l, t) ==
  /\ lpc[l] = IF t \in SessionTools THEN "add" ELSE "declare"
  /\ t \in DOMAIN snapshot[l] /\ snapshot[l][t] = tools[t]

(* From here on what a list has seen is declared on, or is about to be. *)
Due(l, t) ==
  /\ lpc[l] \notin {"idle", "loaded", "merged"}
  /\ t \in SessionTools => lpc[l] \in {"add", "return"}
DueLists == \A l \in Listers : \A t \in DOMAIN seen[l] :
  Due(l, t) => IsDeclared(t, seen[l][t].version) \/ Pending(l, t)
DueTold == \A t \in Tools : known[t] # None /\ (known[t].here \/ t \in GlobalTools \ Late) =>
  IsDeclared(t, known[t].tool.version)

(* With mcp-go what this instance tells the client of, and what Track found,  *)
(* is declared on the registered schemas.                                     *)
Declaring == adapter = "mcpgo" => DueLists /\ DueTold

(* What is declared on stays so, and what is replaced is of no concern.       *)
LEMMA DeclaredStays ==
  ASSUME NEW h \in Histories, Types, Genuine(h), [Next]_vars, NEW t \in Tools,
         NEW n \in 1..version[t], IsDeclared(t, n)
  PROVE  IsDeclared(t, n)'
<1>0. /\ Grows /\ GenuineTools(h) /\ GenuineCopies(h) /\ version[t] \in 0..MaxVersions
      /\ version[t] \in Nat
  BY Growing, Numbers DEF Genuine, Types, ServerTyped
<1>c. cfg' = cfg
  BY <1>0 DEF Grows, cfg
<1>k. ASSUME NEW x, IsCopy(cfg, h, t, version[t], x)
      PROVE  Declared(cfg, Declared(cfg, x)) = Declared(cfg, x)
  <2>1. IsTool(x)
    BY <1>0, <1>k, Copying
  <2> QED
    BY <2>1, DeclaredOnce
<1>1. tools[t] # None => IsCopy(cfg, h, t, version[t], tools[t])
  BY <1>0 DEF GenuineTools
<1>2. \A l \in Listers : t \in DOMAIN snapshot[l] => IsCopy(cfg, h, t, version[t], snapshot[l][t])
  BY <1>0 DEF GenuineCopies
<1> SUFFICES ASSUME tools'[t] # None, tools'[t].version = n
             PROVE  Declared(cfg, tools'[t]) = tools'[t]
  BY <1>c DEF IsDeclared
<1>3. CASE tools'[t] = tools[t]
  BY <1>3 DEF IsDeclared
<1>4. CASE tools'[t].version = version[t] + 1
  BY <1>0, <1>4
<1>5. CASE tools[t] # None /\ tools'[t] = Declared(cfg, tools[t])
  BY <1>k, <1>1, <1>5
<1>6. ASSUME NEW l \in Listers, t \in DOMAIN snapshot[l], tools'[t] = Declared(cfg, snapshot[l][t])
      PROVE  Declared(cfg, tools'[t]) = tools'[t]
  BY <1>k, <1>2, <1>6
<1> QED
  BY <1>3, <1>4, <1>5, <1>6, ToolMoves

(* A pending declaration is made, by this list or another, or its copy is     *)
(* out of date.                                                               *)
LEMMA PendingStays ==
  ASSUME NEW h \in Histories, Types, Genuine(h), [Next]_vars, NEW t \in Tools, NEW l \in Listers,
         NEW n \in 1..version[t], Pending(l, t), lpc'[l] = lpc[l], snapshot'[l] = snapshot[l]
  PROVE  IsDeclared(t, n)' \/ Pending(l, t)'
<1>0. /\ Grows /\ GenuineTools(h) /\ GenuineCopies(h) /\ version[t] \in 0..MaxVersions
      /\ version[t] \in Nat
  BY Growing, Numbers DEF Genuine, Types, ServerTyped
<1>c. cfg' = cfg /\ SessionTools' = SessionTools
  BY <1>0 DEF Grows, cfg, SessionTools
<1>k. ASSUME NEW x, IsCopy(cfg, h, t, version[t], x)
      PROVE  Declared(cfg, Declared(cfg, x)) = Declared(cfg, x)
  <2>1. IsTool(x)
    BY <1>0, <1>k, Copying
  <2> QED
    BY <2>1, DeclaredOnce
<1>1. tools[t] # None => IsCopy(cfg, h, t, version[t], tools[t])
  BY <1>0 DEF GenuineTools
<1>2. \A m \in Listers : t \in DOMAIN snapshot[m] => IsCopy(cfg, h, t, version[t], snapshot[m][t])
  BY <1>0 DEF GenuineCopies
<1>3. CASE tools'[t] = tools[t]
  BY <1>c, <1>3 DEF Pending
<1>4. ASSUME tools'[t] # tools[t], tools'[t] # None, tools'[t].version = n
      PROVE  Declared(cfg, tools'[t]) = tools'[t]
  <2>1. CASE tools'[t].version = version[t] + 1
    BY <1>0, <1>4, <2>1
  <2>2. CASE tools[t] # None /\ tools'[t] = Declared(cfg, tools[t])
    BY <1>k, <1>1, <2>2
  <2>3. ASSUME NEW m \in Listers, t \in DOMAIN snapshot[m],
               tools'[t] = Declared(cfg, snapshot[m][t])
        PROVE  Declared(cfg, tools'[t]) = tools'[t]
    BY <1>k, <1>2, <2>3
  <2> QED
    BY <1>4, <2>1, <2>2, <2>3, ToolMoves
<1> QED
  BY <1>c, <1>3, <1>4 DEF IsDeclared

(* A list moves by its own steps alone. *)
LEMMA ListMoves ==
  ASSUME Types, [Next]_vars, NEW l \in Listers
  PROVE  \/ lpc'[l] = lpc[l] /\ seen'[l] = seen[l] /\ snapshot'[l] = snapshot[l]
         \/ ListSteps(l)
         \/ \E page : Collect(l, page)
<1>0. DOMAIN seen = Listers /\ DOMAIN lpc = Listers /\ DOMAIN snapshot = Listers
  BY DEF Types, MapsTyped, PlacesTyped
<1> DEFINE Same == lpc'[l] = lpc[l] /\ seen'[l] = seen[l] /\ snapshot'[l] = snapshot[l]
<1>1. ASSUME UNCHANGED lists PROVE Same
  BY <1>1 DEF lists
<1>2. ASSUME NEW m \in Listers, ListSteps(m), ~Return(m), m # l PROVE Same
  BY <1>2, Moving
<1>3. ASSUME NEW m \in Listers, Return(m), m # l PROVE Same
  BY <1>0, <1>3 DEF Return, Step
<1>4. ASSUME NEW m \in Listers, NEW page, Collect(m, page), m # l PROVE Same
  BY <1>0, <1>4 DEF Collect, Step
<1>5. ASSUME NEW c \in Calls, CallSteps(c), ~Rebuild(c) PROVE Same
  BY <1>1, <1>5, CallMoving
<1>6. ASSUME NEW c \in Calls, Rebuild(c) PROVE c \in Listers /\ \E page : Collect(c, page)
  BY <1>6 DEF Rebuild, Listers
<1>7. ASSUME NEW m \in Lists, ListTools(m) PROVE m \in Listers /\ \E page : Collect(m, page)
  BY <1>7 DEF ListTools, Listers
<1>8. ASSUME NEW c \in Calls, NEW t \in Tools, NEW args, CallTool(c, t, args) PROVE Same
  BY <1>1, <1>8 DEF CallTool
<1>9. ASSUME NEW t \in Tools, DeleteTool(t) \/ \E form \in Forms : AddTool(t, form) PROVE Same
  BY <1>1, <1>9 DEF DeleteTool, AddTool, Change
<1>10. CASE UNCHANGED vars
  BY <1>1, <1>10 DEF vars
<1> QED
  BY <1>2, <1>3, <1>4, <1>5, <1>6, <1>7, <1>8, <1>9, <1>10 DEF Next, CallSteps

(* A copy is pending, or there is nothing to declare. *)
LEMMA CopyPends ==
  ASSUME Types, NEW l \in Listers, NEW names, NEW place, NEW next,
         Copy(l, names, place, next), NEW t \in names \cap Tools, tools[t] # None
  PROVE  \/ lpc'[l] = place /\ t \in DOMAIN snapshot'[l] /\ snapshot'[l][t] = tools'[t]
         \/ lpc'[l] = next /\ tools' = tools /\ Declared(cfg, tools[t]) = tools[t]
<1> DEFINE copies == Copies(names)
           needed == Undeclared(copies) # {}
<1>1. /\ snapshot' = [snapshot EXCEPT ![l] = IF needed THEN copies ELSE <<>>]
      /\ lpc' = [lpc EXCEPT ![l] = IF needed THEN place ELSE next] /\ tools' = tools
  BY DEF Copy, Step, server
<1>2. t \in DOMAIN copies /\ copies[t] = tools[t]
  BY DEF Copies, Registered
<1>3. ~needed => Declared(cfg, tools[t]) = tools[t]
  BY <1>2 DEF Undeclared
<1> HIDE DEF needed, copies
<1>4. DOMAIN snapshot = Listers /\ DOMAIN lpc = Listers
  BY DEF Types, MapsTyped, PlacesTyped
<1> QED
  BY <1>1, <1>2, <1>3, <1>4

(* A list comes by a declaration of all it has seen before it returns. *)
LEMMA DueListsNext ==
  ASSUME NEW h \in Histories, Types, Genuine(h), [Next]_vars, adapter = "mcpgo", DueLists
  PROVE  DueLists'
<1> SUFFICES ASSUME NEW l \in Listers, NEW t \in DOMAIN seen'[l], Due(l, t)',
                    NEW n, n = seen'[l][t].version
             PROVE  IsDeclared(t, n)' \/ Pending(l, t)'
  BY DEF DueLists
<1>0. /\ Grows /\ DOMAIN lpc = Listers /\ DOMAIN seen = Listers /\ DOMAIN snapshot = Listers
      /\ \A f : IsToolMap(f) => \A u \in DOMAIN f : u \in Tools
      /\ IsToolMap(seen[l]) /\ IsToolMap(snapshot[l])
  BY Growing DEF Types, MapsTyped, PlacesTyped, IsToolMap
<1>c. SessionTools' = SessionTools /\ cfg' = cfg
  BY <1>0 DEF Grows, SessionTools, cfg
<1>1. ASSUME seen'[l] = seen[l]
      PROVE  t \in Tools /\ t \in DOMAIN seen[l] /\ n = seen[l][t].version /\ n \in 1..version[t]
  BY <1>0, <1>1, Numbers
<1>2. ASSUME seen'[l] = seen[l], IsDeclared(t, n) PROVE IsDeclared(t, n)'
  BY <1>1, <1>2, DeclaredStays
<1>3. CASE lpc'[l] = lpc[l] /\ seen'[l] = seen[l] /\ snapshot'[l] = snapshot[l]
  <2>1. Due(l, t)
    BY <1>c, <1>3 DEF Due
  <2>2. IsDeclared(t, n) \/ Pending(l, t)
    BY <1>1, <1>3, <2>1 DEF DueLists
  <2> QED
    BY <1>1, <1>2, <1>3, <2>2, PendingStays
<1>4. ASSUME NEW page, Collect(l, page) PROVE FALSE
  BY <1>0, <1>4 DEF Collect, Step, Due
<1>5. CASE MergeRegistries(l)
  BY <1>0, <1>5 DEF MergeRegistries, Step, AfterMerge, Due
<1>6. CASE Return(l)
  BY <1>0, <1>6 DEF Return, Step, Due
<1>7. CASE CopyGlobalTools(l)
  <2>1. seen' = seen /\ Copy(l, GlobalTools, "declare", AfterGlobal) /\ tools' = tools
    BY <1>7 DEF CopyGlobalTools, Copy, server
  <2>2. lpc'[l] \in {"declare", AfterGlobal}
    BY <1>0, <2>1 DEF Copy, Step
  <2>3. t \notin SessionTools
    BY <1>c, <2>2 DEF Due, AfterGlobal
  <2>4. t \in GlobalTools \cap Tools
    BY <1>1, <2>1, <2>3 DEF GlobalTools
  <2>5. CASE tools[t] # None
    BY <1>c, <2>1, <2>3, <2>4, <2>5, CopyPends DEF IsDeclared, Pending
  <2>6. CASE tools[t] = None
    BY <2>1, <2>6 DEF IsDeclared
  <2> QED
    BY <2>5, <2>6
<1>8. CASE CopySessionTools(l)
  <2>1. /\ lpc[l] = "session" /\ seen' = seen /\ Copy(l, SessionTools, "add", "return")
        /\ tools' = tools
    BY <1>8 DEF CopySessionTools, Copy, server
  <2>2. CASE t \notin SessionTools
    <3>1. IsDeclared(t, n) \/ Pending(l, t)
      BY <1>1, <2>1, <2>2 DEF DueLists, Due
    <3> QED
      BY <1>2, <2>1, <2>2, <3>1 DEF Pending
  <2>3. CASE t \in SessionTools
    <3>1. t \in SessionTools \cap Tools
      BY <1>1, <2>1, <2>3
    <3>2. CASE tools[t] # None
      BY <1>c, <2>1, <2>3, <3>1, <3>2, CopyPends DEF IsDeclared, Pending
    <3>3. CASE tools[t] = None
      BY <2>1, <3>3 DEF IsDeclared
    <3> QED
      BY <3>2, <3>3
  <2> QED
    BY <2>2, <2>3
<1>9. CASE ApplyDeclarations(l)
  <2>1. /\ lpc[l] = "declare" /\ seen' = seen /\ lpc'[l] = AfterGlobal
        /\ \A u \in Tools : tools'[u] =
             IF /\ u \in Undeclared(snapshot[l]) /\ tools[u] # None
                /\ Schema(tools[u]) = Schema(snapshot[l][u])
             THEN Declared(cfg, tools[u]) ELSE tools[u]
    BY <1>0, <1>9 DEF ApplyDeclarations, Step
  <2>2. t \notin SessionTools
    BY <1>c, <2>1 DEF Due, AfterGlobal
  <2>3. IsDeclared(t, n) \/ Pending(l, t)
    BY <1>1, <2>1, <2>2 DEF DueLists, Due
  <2>4. ASSUME Pending(l, t) PROVE IsDeclared(t, n)'
    <3>1. t \in Tools /\ t \in DOMAIN snapshot[l] /\ snapshot[l][t] = tools[t]
      BY <1>1, <2>1, <2>4 DEF Pending
    <3>2. CASE tools[t] = None
      BY <2>1, <3>1, <3>2 DEF IsDeclared
    <3>3. CASE tools[t] # None /\ t \in Undeclared(snapshot[l])
      <4>1. tools'[t] = Declared(cfg, tools[t]) /\ IsTool(tools[t])
        BY <2>1, <3>1, <3>3 DEF Types, ServerTyped
      <4> QED
        BY <1>c, <4>1, DeclaredOnce DEF IsDeclared
    <3>4. CASE t \notin Undeclared(snapshot[l])
      BY <1>c, <2>1, <3>1, <3>4 DEF Undeclared, IsDeclared
    <3> QED
      BY <3>2, <3>3, <3>4
  <2> QED
    BY <1>2, <2>1, <2>3, <2>4
<1>10. CASE AddSessionTools(l)
  <2>1. /\ lpc[l] = "add" /\ seen' = seen
        /\ \A u \in Tools : tools'[u] = IF u \in Undeclared(snapshot[l])
                                        THEN Declared(cfg, snapshot[l][u]) ELSE tools[u]
    BY <1>0, <1>10 DEF AddSessionTools
  <2>2. IsDeclared(t, n) \/ Pending(l, t)
    BY <1>1, <2>1 DEF DueLists, Due
  <2>3. ASSUME Pending(l, t) PROVE IsDeclared(t, n)'
    <3>1. t \in Tools /\ t \in DOMAIN snapshot[l] /\ snapshot[l][t] = tools[t]
      BY <1>1, <2>1, <2>3 DEF Pending
    <3>2. CASE t \in Undeclared(snapshot[l])
      <4>1. tools'[t] = Declared(cfg, tools[t]) /\ IsTool(tools[t])
        BY <1>0, <2>1, <3>1, <3>2 DEF IsToolMap
      <4> QED
        BY <1>c, <4>1, DeclaredOnce DEF IsDeclared
    <3>3. CASE t \notin Undeclared(snapshot[l])
      BY <1>c, <2>1, <3>1, <3>3 DEF Undeclared, IsDeclared
    <3> QED
      BY <3>2, <3>3
  <2> QED
    BY <1>2, <2>1, <2>2, <2>3
<1> QED
  BY <1>3, <1>4, <1>5, <1>6, <1>7, <1>8, <1>9, <1>10, ListMoves DEF ListSteps

(* What the client is told of has been declared. *)
LEMMA DeclaringNext ==
  ASSUME NEW h \in Histories, Types, Genuine(h), [Next]_vars, Declaring
  PROVE  Declaring'
<1> SUFFICES ASSUME adapter' = "mcpgo" PROVE DueLists' /\ DueTold'
  BY DEF Declaring
<1>0. Grows /\ GenuineCopies(h) /\ GenuineTools(h)
  BY Growing DEF Genuine
<1>1. adapter = "mcpgo" /\ DueLists /\ DueTold /\ GlobalTools' = GlobalTools /\ Late' = Late
  BY <1>0 DEF Grows, adapter, Declaring, GlobalTools, SessionTools, Late
<1>2. DueLists'
  BY <1>1, DueListsNext
<1>3. ASSUME NEW t \in Tools, known'[t] # None, known'[t].here \/ t \in GlobalTools \ Late,
             NEW n, n = known'[t].tool.version
      PROVE  IsDeclared(t, n)'
  <2>1. CASE known'[t] = known[t]
    <3>1. n \in 1..version[t] /\ IsDeclared(t, n)
      BY <1>1, <1>3, <2>1, Numbers DEF DueTold
    <3> QED
      BY <3>1, DeclaredStays
  <2>2. ASSUME NEW l \in Listers, lpc[l] = "return", t \in DOMAIN seen[l],
               known'[t] = Heard(Advertised(cfg, seen[l][t]), TRUE)
        PROVE  IsDeclared(t, n)'
    <3> DEFINE x == seen[l][t]
    <3>1. IsTool(x)
      BY <2>2 DEF Types, MapsTyped, IsToolMap
    <3>2. n = x.version
      BY <1>3, <2>2, <3>1, Advertising DEF Heard
    <3>3. n \in 1..version[t]
      BY <2>2, <3>2, Numbers
    <3>4. IsDeclared(t, n)
      BY <1>1, <2>2, <3>2 DEF DueLists, Due, Pending
    <3> QED
      BY <3>3, <3>4, DeclaredStays
  <2> QED
    BY <2>1, <2>2, KnownMoves
<1>4. DueTold'
  BY <1>1, <1>3 DEF DueTold
<1> QED
  BY <1>2, <1>4

(* With the official SDK nothing is declared, so no copies are taken. *)
Plain == adapter = "official" =>
  crossed = {} /\ \A l \in Listers : lpc[l] \in {"idle", "loaded", "return"}

(* Its lists return when they have merged. *)
LEMMA PlainNext ==
  ASSUME Types, Resting, Plain, [Next]_vars
  PROVE  Plain'
<1>0. /\ Grows /\ \A l \in Listers : DOMAIN lpc = Listers
  BY Growing DEF Types, PlacesTyped
<1> SUFFICES ASSUME adapter = "official"
             PROVE  crossed' = {} /\ \A l \in Listers : lpc'[l] \in {"idle", "loaded", "return"}
  BY <1>0 DEF Plain, Grows, adapter
<1>1. \A l \in Listers : lpc[l] \in {"idle", "loaded", "return"} /\ DOMAIN snapshot[l] = {}
  BY DEF Plain, Resting
<1>2. ASSUME NEW l \in Listers PROVE lpc'[l] \in {"idle", "loaded", "return"}
  <2>1. CASE lpc'[l] = lpc[l]
    BY <1>1, <2>1
  <2>2. CASE ListSteps(l)
    <3>1. MergeRegistries(l) \/ Return(l)
      BY <1>1, <2>2 DEF ListSteps, CopyGlobalTools, ApplyDeclarations, CopySessionTools,
           AddSessionTools
    <3> QED
      BY <1>0, <1>1, <3>1 DEF MergeRegistries, Return, Step, AfterMerge
  <2>3. ASSUME NEW page, Collect(l, page) PROVE lpc'[l] = "loaded"
    BY <1>0, <2>3 DEF Collect, Step
  <2> QED
    BY <2>1, <2>2, <2>3, ListMoves
<1>3. crossed' = crossed \/ \E t \in Tools : crossed' = crossed \cup Crossing(t)
  <2>1. ASSUME NEW l \in Listers, ListSteps(l) PROVE crossed' = crossed
    BY <2>1 DEF ListSteps, MergeRegistries, CopyGlobalTools, ApplyDeclarations, CopySessionTools,
         AddSessionTools, Return, Copy, faults
  <2>2. ASSUME NEW c \in Calls, CallSteps(c) PROVE crossed' = crossed
    BY <2>2 DEF CallSteps, LoadForCall, Rebuild, RebuildFails, StripArguments, Dispatch, Finish,
         Collect, faults
  <2>3. ASSUME NEW l \in Lists, ListTools(l) PROVE crossed' = crossed
    BY <2>3 DEF ListTools, Collect
  <2>4. ASSUME NEW c \in Calls, NEW t \in Tools, NEW args, CallTool(c, t, args)
        PROVE  crossed' = crossed
    BY <2>4 DEF CallTool, faults
  <2>5. ASSUME NEW t \in Tools, DeleteTool(t) \/ \E form \in Forms : AddTool(t, form)
        PROVE  crossed' = crossed \cup Crossing(t)
    BY <2>5 DEF DeleteTool, AddTool, Change
  <2>6. CASE UNCHANGED vars
    BY <2>6 DEF vars, faults
  <2> QED
    BY <2>1, <2>2, <2>3, <2>4, <2>5, <2>6 DEF Next
<1>4. \A t \in Tools : Crossing(t) = {}
  BY <1>1 DEF Crossing
<1> QED
  BY <1>2, <1>3, <1>4 DEF Plain

(* ----------------------------- What a call comes to ----------------------------- *)

(* What the handler and the event are given: the property, for one call. *)
Given(c) ==
  LET told == call[c].heard.tool
      out  == outcome[c] IN
  /\ Settled(c) =>
       /\ out.args = told.owns
       /\ ~cfg.hook /\ out.resolution # None =>
            (out.resolution.source = "foreign" <=> "session_id" \notin told.ours)
       /\ out.mirror => told.mirror
  /\ call[c].tool = GetMoreTools => "context" \in out.args

(* What the official SDK checks has been stripped by the entry of what the    *)
(* client was told of, and if that is registered still it was so then.        *)
Checkable(c) ==
  /\ adapter = "official"
  /\ call[c].heard.here => outcome[c].ground = "entry"
  /\ tools[call[c].tool] # None /\ version[call[c].tool] = call[c].heard.tool.version =>
       outcome[c].version = version[call[c].tool]

(* Why a call was turned down: the property, for one call. *)
Refused(c) == call[c].version = call[c].heard.tool.version =>
  /\ adapter = "mcpgo" => ~call[c].heard.here /\ call[c].tool \in SessionTools \cup Late
  /\ adapter = "official" =>
       \/ ~call[c].heard.here /\ outcome[c].ground # "entry"
       \/ call[c].tool \in raced

Answered(c) ==
  /\ cpc[c] \notin {"dispatch", "done", "rejected", "notfound"} => outcome[c] = None
  /\ outcome[c] # None \/ cpc[c] = "dispatch" => Given(c)
  /\ cpc[c] = "dispatch" => Checkable(c)
  /\ cpc[c] = "rejected" => Refused(c)
Answers == \A c \in Calls : Answered(c)

(* A call is stripped and looked up by its own steps alone. *)
LEMMA CallMoves ==
  ASSUME Types, Shaped, Rebuilding, [Next]_vars, NEW c \in Calls
  PROVE  \/ cpc'[c] = cpc[c] /\ call'[c] = call[c] /\ outcome'[c] = outcome[c]
         \/ /\ cpc[c] \in {"load", "rebuild", "rebuilding"}
            /\ cpc'[c] \in {"rebuild", "rebuilding", "strip"} /\ outcome'[c] = outcome[c]
         \/ \E t \in Tools, args \in SUBSET Params : CallTool(c, t, args)
         \/ StripArguments(c) \/ Dispatch(c) \/ Finish(c)
<1>0. DOMAIN call = Calls /\ DOMAIN cpc = Calls /\ DOMAIN outcome = Calls
  BY DEF Shaped, Types, PlacesTyped
<1> DEFINE Same == cpc'[c] = cpc[c] /\ call'[c] = call[c] /\ outcome'[c] = outcome[c]
           Goes == /\ cpc[c] \in {"load", "rebuild", "rebuilding"}
                   /\ cpc'[c] \in {"rebuild", "rebuilding", "strip"} /\ outcome'[c] = outcome[c]
<1>1. ASSUME UNCHANGED calls PROVE Same
  BY <1>1 DEF calls
<1>2. ASSUME NEW l \in Listers, ListSteps(l), ~Return(l) PROVE Same
  BY <1>1, <1>2, Moving
<1>3. ASSUME NEW l \in Listers, Return(l) PROVE Same \/ Goes
  <2>1. /\ lpc[l] = "return" /\ UNCHANGED <<call, outcome>>
        /\ cpc' = (IF l \in Calls THEN [cpc EXCEPT ![l] = "strip"] ELSE cpc)
    BY <1>3 DEF Return
  <2>2. CASE l = c
    BY <1>0, <2>1, <2>2 DEF Rebuilding
  <2>3. CASE l # c
    BY <1>0, <2>1, <2>3
  <2> QED
    BY <2>2, <2>3
<1>4. ASSUME NEW d \in Calls, d # c, CallSteps(d) \/ \E t \in Tools : \E args : CallTool(d, t, args)
      PROVE  Same
  BY <1>0, <1>4 DEF CallSteps, LoadForCall, Rebuild, RebuildFails, StripArguments, Dispatch,
       Finish, CallTool, Lookup
<1>5. CASE LoadForCall(c) \/ Rebuild(c) \/ RebuildFails(c)
  <2>1. cpc[c] \in {"load", "rebuild"} /\ outcome' = outcome
    BY <1>5 DEF LoadForCall, Rebuild, RebuildFails
  <2>2. \E place \in {"rebuild", "rebuilding", "strip"} : cpc' = [cpc EXCEPT ![c] = place]
    BY <1>5 DEF LoadForCall, Rebuild, RebuildFails
  <2> QED
    BY <1>0, <2>1, <2>2
<1>6. ASSUME NEW l \in Lists, ListTools(l) PROVE Same
  BY <1>1, <1>6 DEF ListTools
<1>7. ASSUME NEW t \in Tools, DeleteTool(t) \/ \E form \in Forms : AddTool(t, form) PROVE Same
  BY <1>1, <1>7 DEF DeleteTool, AddTool, Change
<1>8. CASE UNCHANGED vars
  BY <1>1, <1>8 DEF vars
<1> QED
  BY <1>2, <1>3, <1>4, <1>5, <1>6, <1>7, <1>8 DEF Next, ListSteps, CallSteps

(* The validators take what the customer declared, and on a tool that is      *)
(* declared on also what was injected (registered_schema.go).                 *)
LEMMA Accepting ==
  ASSUME NEW c, NEW w, IsTool(w), w.required \subseteq w.owns
  PROVE  /\ Accepts(w, w.owns) /\ Accepts(Declared(c, w), w.owns)
         /\ Accepts(Declared(c, w), w.owns \cup Injected(c, w))
<1> DEFINE d == Declared(c, w)
<1>1. /\ d.input = w.input /\ d.owns = w.owns /\ d.required = w.required
      /\ d.ours = w.ours \cup Injected(c, w)
  BY DEF Declared, IsTool, ToolFields
<1> HIDE DEF d
<1> QED
  BY <1>1 DEF Accepts, d

(* A call that is of the history has its entry's registration: an entry that  *)
(* is not left by a race is of what the client was told of, if that is still  *)
(* registered.                                                                *)
LEMMA EntryInHand ==
  ASSUME NEW h \in Histories, Types, Genuine(h), Fresh(h), Handed, NEW c \in Calls,
         cpc[c] = "strip", NEW t \in Tools \ raced, call[c].tool = t, Holds(c, t),
         tools[t] # None, NEW v, tools[t].version = v, call[c].heard.tool.version = v
  PROVE  IsEntry(cfg, h, t, v, reg[c][t])
<1>0. c \in Listers /\ Active(c) /\ GenuineCalls(h) /\ Known(t)
  BY DEF Listers, Active, Genuine, Handed
<1>1. v \in 1..version[t] /\ version[t] \in Nat /\ (call[c].heard.here \/ v = 1)
  BY <1>0, Numbers DEF GenuineCalls, WasTold
<1>2. PICK n \in Versions(t) : FreshEntry(h, t, n)
  BY <1>0 DEF Fresh
<1>3. PICK k \in Versions(t) :
        /\ IsEntry(cfg, h, t, k, reg[c][t]) /\ k <= n
        /\ c \in Calls /\ cpc[c] = "strip" /\ HeardHere(c, t) => call[c].heard.tool.version <= k
  BY <1>0, <1>2 DEF FreshEntry, InHand
<1>4. n <= v
  BY <1>2 DEF FreshEntry, NoNewer
<1>5. v <= k
  <2>1. CASE call[c].heard.here
    BY <1>0, <1>3, <2>1 DEF HeardHere
  <2>2. CASE ~call[c].heard.here
    BY <1>1, <1>3, <2>2 DEF Versions
  <2> QED
    BY <2>1, <2>2
<1>6. k = v
  BY <1>1, <1>2, <1>3, <1>4, <1>5 DEF Versions
<1> QED
  BY <1>3, <1>6

(* What is left of a call when its tool's entry has been taken away: exactly  *)
(* what the customer declared, and its session_id only if it was ours.        *)
LEMMA StrippedByEntry ==
  ASSUME NEW h \in Histories, NEW t \in Tools, NEW v \in 1..MaxVersions, NEW heard, NEW args,
         heard.tool = Advertised(cfg, Nth(h, t, v)),
         args \in {heard.tool.owns, heard.tool.owns \cup heard.tool.ours},
         NEW r, r # None, t \in DOMAIN r, IsEntry(cfg, h, t, v, r[t])
  PROVE  /\ Strip(t, args, r, GetMoreTools, None) = heard.tool.owns
         /\ SessionParamIsOurs(t, r, None) <=> "session_id" \in heard.tool.ours
         /\ ShouldMirror(t, r, None) => heard.tool.mirror
<1> DEFINE w == Nth(h, t, v)
<1>1. IsTool(w) /\ w.ours = {}
  BY Writing
<1>2. /\ heard.tool.owns = w.owns /\ heard.tool.ours = Injected(cfg, w)
      /\ heard.tool.mirror = (w.mirror \/ OutputInjected(cfg, w))
  BY <1>1, Advertising
<1>3. r[t].params = Injected(cfg, w) /\ r[t].mirror = OutputInjected(cfg, w)
  BY DEF IsEntry, Entry
<1> HIDE DEF w
<1>4. Injected(cfg, w) \cap w.owns = {}
  BY DEF Injected
<1>5. Strip(t, args, r, GetMoreTools, None) = args \ Injected(cfg, w)
  BY <1>3 DEF Strip
<1>6. Strip(t, args, r, GetMoreTools, None) = heard.tool.owns
  BY <1>2, <1>4, <1>5
<1>7. SessionParamIsOurs(t, r, None) <=> "session_id" \in heard.tool.ours
  BY <1>2, <1>3 DEF SessionParamIsOurs
<1>8. ShouldMirror(t, r, None) => heard.tool.mirror
  BY <1>2, <1>3 DEF ShouldMirror
<1> QED
  BY <1>6, <1>7, <1>8

(* The context of get_more_tools is never taken away: it is the tool's own,   *)
(* whatever the registries say (get_more_tools.go).                           *)
LEMMA ContextKept ==
  ASSUME NEW h \in Histories, NEW v \in 1..MaxVersions, GetMoreTools \in Tools,
         NEW heard, NEW args, heard.tool = Advertised(cfg, Nth(h, GetMoreTools, v)),
         args \in {heard.tool.owns, heard.tool.owns \cup heard.tool.ours},
         NEW r, r # None /\ GetMoreTools \in DOMAIN r =>
                  \E k \in 1..MaxVersions : IsEntry(cfg, h, GetMoreTools, k, r[GetMoreTools])
  PROVE  "context" \in Strip(GetMoreTools, args, r, GetMoreTools, None)
<1> DEFINE t == GetMoreTools
           w == Nth(h, t, v)
<1>1. IsTool(w) /\ "context" \in w.owns
  BY Writing
<1>2. heard.tool.owns = w.owns
  BY <1>1, Advertising
<1>3. "context" \in args
  BY <1>1, <1>2
<1>4. CASE r # None /\ t \in DOMAIN r
  <2>1. PICK k \in 1..MaxVersions : IsEntry(cfg, h, t, k, r[t])
    BY <1>4
  <2>2. "context" \in Nth(h, t, k).owns
    BY <2>1, Writing
  <2>3. r[t].params = Injected(cfg, Nth(h, t, k))
    BY <2>1 DEF IsEntry, Entry
  <2>4. "context" \notin r[t].params
    BY <2>2, <2>3 DEF Injected
  <2> QED
    BY <1>3, <1>4, <2>4 DEF Strip
<1>5. CASE ~(r # None /\ t \in DOMAIN r)
  BY <1>3, <1>5 DEF Strip
<1> QED
  BY <1>4, <1>5

(* With the official SDK what is registered is what the customer last wrote. *)
LEMMA PlainVersions ==
  ASSUME Kept, Plain, adapter = "official", NEW t \in Tools, tools[t] # None
  PROVE  tools[t].version = version[t]
  BY DEF Kept, CustomerRegistrationKept, Plain

(* The version of a tool that a call finds. *)
LEMMA VersionFound ==
  ASSUME NEW t \in Tools
  PROVE  VersionIn(Copies(Tools), t) = IF tools[t] # None THEN tools[t].version ELSE 0
  BY DEF VersionIn, Copies, Registered

(* A call is stripped of what was injected, and of nothing else. *)
LEMMA Stripping ==
  ASSUME NEW h \in Histories, Types, Kept, Genuine(h), Fresh(h), Handed, HereKnown, Plain,
         NEW c \in Calls, StripArguments(c)
  PROVE  Given(c)' /\ (cpc'[c] = "dispatch" => Checkable(c)')
<1>0. /\ DOMAIN outcome = Calls /\ DOMAIN cpc = Calls /\ c \in Listers /\ cpc[c] = "strip"
      /\ cpc' = [cpc EXCEPT ![c] = IF adapter = "mcpgo" THEN "done" ELSE "dispatch"]
      /\ call' = call /\ tools' = tools /\ version' = version /\ setup' = setup /\ raced' = raced
      /\ version \in [Tools -> 0..MaxVersions] /\ MaxVersions \in Nat
  BY SchemasAssumption
     DEF Genuine, Shaped, Types, PlacesTyped, ServerTyped, Listers, StripArguments, server, faults
<1> DEFINE t == call[c].tool
           heard == call[c].heard
           args == call[c].args
           r == reg[c]
           v == heard.tool.version
<1>1. PICK value \in SessionValues, answer \in HookAnswers :
        /\ outcome'[c] = Stripped(call[c], value, r, answer)
        /\ ~cfg.hook => answer = "none"
  <2>1. PICK value \in IF "session_id" \in call[c].args THEN SessionValues ELSE {"absent"},
             answer \in IF cfg.hook THEN HookAnswers \ {"none"} ELSE {"none"} :
               outcome' = [outcome EXCEPT ![c] = Stripped(call[c], value, reg[c], answer)]
    BY DEF StripArguments
  <2>2. value \in SessionValues /\ answer \in HookAnswers /\ (~cfg.hook => answer = "none")
    BY <2>1 DEF SessionValues, HookAnswers
  <2> QED
    BY <1>0, <2>1, <2>2
<1>2. /\ outcome'[c].args = Strip(t, args, r, GetMoreTools, None)
      /\ outcome'[c].resolution = IF ~cfg.handles THEN None
           ELSE ResolveSessionHandle(value, answer, SessionParamIsOurs(t, r, None))
      /\ outcome'[c].mirror = (cfg.handles /\ ShouldMirror(t, r, None))
      /\ outcome'[c].ground = Ground(call[c], r)
      /\ outcome'[c].version = VersionIn(Copies(Tools), t)
  BY <1>1 DEF Stripped
<1>3. /\ t \in Tools /\ WasTold(cfg, h, t, version[t], heard)
      /\ args \in {heard.tool.owns, heard.tool.owns \cup heard.tool.ours}
  BY <1>0 DEF Genuine, GenuineCalls, Active
<1>4. /\ v \in 1..MaxVersions /\ v \in Nat /\ v # 0 /\ heard.tool = Advertised(cfg, Nth(h, t, v))
      /\ \A k \in Versions(t) : k \in 1..MaxVersions
  BY <1>0, <1>3 DEF WasTold, Versions
<1>5. Ground(call[c], r) = "entry" <=> Holds(c, t)
  BY DEF Ground, Holds
<1>6. outcome'[c].version = IF tools[t] # None THEN tools[t].version ELSE 0
  BY <1>2, <1>3, VersionFound
<1>7. t = GetMoreTools => "context" \in outcome'[c].args
  <2>1. Holds(c, t) => \E k \in 1..MaxVersions : IsEntry(cfg, h, t, k, r[t])
    BY <1>0, <1>3, <1>4 DEF Genuine, GenuineEntries
  <2> HIDE DEF v, heard, args, r
  <2> SUFFICES ASSUME t = GetMoreTools PROVE "context" \in outcome'[c].args
    OBVIOUS
  <2>2. r # None /\ t \in DOMAIN r => \E k \in 1..MaxVersions : IsEntry(cfg, h, t, k, r[t])
    BY <2>1 DEF Holds, r
  <2> HIDE DEF t
  <2> QED
    BY <1>2, <1>3, <1>4, <2>2, ContextKept
<1>8. ASSUME Settled(c)'
      PROVE  /\ outcome'[c].args = heard.tool.owns
             /\ ~cfg.hook /\ outcome'[c].resolution # None =>
                  (outcome'[c].resolution.source = "foreign" <=> "session_id" \notin heard.tool.ours)
             /\ outcome'[c].mirror => heard.tool.mirror
  <2>1. Holds(c, t) /\ t \notin raced /\ v = outcome'[c].version
    BY <1>0, <1>2, <1>5, <1>8 DEF Settled
  <2>2. tools[t] # None /\ tools[t].version = v
    BY <1>4, <1>6, <2>1
  <2>3. IsEntry(cfg, h, t, v, r[t])
    BY <1>0, <1>3, <2>1, <2>2, EntryInHand
  <2>4. r # None /\ t \in DOMAIN r
    BY <2>1 DEF Holds
  <2> HIDE DEF t, heard, args, r, v
  <2>5. /\ Strip(t, args, r, GetMoreTools, None) = heard.tool.owns
        /\ SessionParamIsOurs(t, r, None) <=> "session_id" \in heard.tool.ours
        /\ ShouldMirror(t, r, None) => heard.tool.mirror
    BY <1>3, <1>4, <2>3, <2>4, StrippedByEntry
  <2>6. ASSUME NEW ours, ~cfg.hook
        PROVE  ResolveSessionHandle(value, answer, ours).source = "foreign" <=> ~ours
    BY <1>1, <2>6 DEF ResolveSessionHandle, Resolution, SessionValues
  <2>7. ~cfg.hook /\ outcome'[c].resolution # None =>
          (outcome'[c].resolution.source = "foreign" <=> "session_id" \notin heard.tool.ours)
    BY <1>2, <2>5, <2>6
  <2> QED
    BY <1>2, <2>5, <2>7
<1>9. Given(c)'
  <2>1. call'[c] = call[c] /\ cfg' = cfg
    BY <1>0 DEF cfg
  <2> QED
    BY <1>7, <1>8, <2>1 DEF Given
<1>10. ASSUME cpc'[c] = "dispatch" PROVE Checkable(c)'
  <2>1. adapter = "official" /\ adapter' = adapter /\ call'[c] = call[c]
    <3>1. adapter # "mcpgo"
      BY <1>0, <1>10
    <3>2. setup \in Setups
      BY DEF Types, ServerTyped
    <3>3. adapter \in {"mcpgo", "official"}
      BY <3>2, SchemasAssumption DEF adapter
    <3> QED
      BY <1>0, <3>1, <3>3 DEF adapter
  <2>2. heard.here => outcome'[c].ground = "entry"
    <3>1. heard.here => HeardHere(c, t)
      BY <1>0 DEF HeardHere, Active
    <3> QED
      BY <1>0, <1>2, <1>3, <1>5, <3>1 DEF HereKnown
  <2>3. tools[t] # None => outcome'[c].version = version[t]
    BY <1>3, <1>6, <2>1, PlainVersions
  <2> QED
    BY <1>0, <2>1, <2>2, <2>3 DEF Checkable
<1> QED
  BY <1>9, <1>10

(* mcp-go turns a call as advertised down only for a tool that no list on     *)
(* this instance has told the client of, and that Track did not find.         *)
LEMMA TurnedDownAtOnce ==
  ASSUME NEW h \in Histories, Types, Genuine(h), Declaring, NEW c \in Calls, NEW t \in Tools,
         NEW args, CallTool(c, t, args), cpc'[c] = "rejected"
  PROVE  Refused(c)'
<1> DEFINE heard == known[t]
           tool == tools[t]
           v == tool.version
           w == Nth(h, t, v)
<1>0. /\ GenuineTools(h) /\ Shaped /\ version \in [Tools -> 0..MaxVersions] /\ MaxVersions \in Nat
  BY SchemasAssumption DEF Genuine, Types, ServerTyped
<1>1. /\ Asked(c) /\ call'[c].tool = t /\ adapter = "mcpgo" /\ tool # None
      /\ ~Accepts(tool, call'[c].args) /\ call'[c].version = VersionIn(Copies(Tools), t)
  BY <1>0, Asking
<1>2. /\ known[t] # None /\ call'[c].heard = heard /\ setup' = setup
      /\ call'[c].args \in {heard.tool.owns, heard.tool.owns \cup heard.tool.ours}
  BY <1>1 DEF Asked, server
<1>3. call'[c].version = v
  BY <1>1, VersionFound
<1> SUFFICES ASSUME v = heard.tool.version, ~(t \in SessionTools \cup Late /\ ~heard.here)
             PROVE  FALSE
  BY <1>1, <1>2, <1>3 DEF Refused, SessionTools, Late, adapter
<1>4. IsCopy(cfg, h, t, version[t], tool) /\ WasTold(cfg, h, t, version[t], heard)
  BY <1>0, <1>1, <1>2 DEF GenuineTools
<1>5. Declared(cfg, tool) = tool
  BY <1>1, <1>2 DEF Declaring, DueTold, IsDeclared, GlobalTools
<1>6. v \in 1..MaxVersions
  BY <1>0, <1>4 DEF IsCopy
<1>7. IsTool(w) /\ w.required \subseteq w.owns /\ w.ours = {}
  BY <1>6, Writing
<1>8. tool = Declared(cfg, w)
  BY <1>4, <1>5 DEF IsCopy
<1>9. heard.tool = Advertised(cfg, w)
  BY <1>4 DEF WasTold
<1> HIDE DEF w
<1>10. heard.tool.owns = w.owns /\ heard.tool.ours = Injected(cfg, w)
  <2>1. /\ Advertised(cfg, w).owns = w.owns
        /\ Advertised(cfg, w).ours = w.ours \cup Injected(cfg, w)
    BY <1>7, Advertising
  <2>2. w.ours \cup Injected(cfg, w) = Injected(cfg, w)
    BY <1>7
  <2> QED
    BY <1>9, <2>1, <2>2
<1>11. /\ Accepts(Declared(cfg, w), w.owns)
       /\ Accepts(Declared(cfg, w), w.owns \cup Injected(cfg, w))
  BY <1>7, Accepting
<1>12. call'[c].args \in {w.owns, w.owns \cup Injected(cfg, w)}
  BY <1>2, <1>10
<1> QED
  BY <1>1, <1>8, <1>11, <1>12

(* The official SDK turns a stripped call down only if it was not stripped by *)
(* an entry, or its tool's lists raced.                                       *)
LEMMA TurnedDownLater ==
  ASSUME NEW h \in Histories, Types, Kept, Plain, Genuine(h), NEW c \in Calls, Answered(c),
         Dispatch(c), cpc'[c] = "rejected"
  PROVE  Refused(c)'
<1> DEFINE t == call[c].tool
           heard == call[c].heard
           tool == tools[t]
           v == tool.version
           w == Nth(h, t, v)
<1>0. /\ GenuineTools(h) /\ Shaped /\ version \in [Tools -> 0..MaxVersions] /\ MaxVersions \in Nat
      /\ cpc[c] = "dispatch" /\ Lookup(c, call[c], outcome[c].args, "done")
      /\ setup' = setup /\ raced' = raced /\ outcome' = outcome
  BY SchemasAssumption DEF Genuine, Types, ServerTyped, Dispatch, server, faults
<1>1. /\ DOMAIN call[c] = CallFields /\ t \in Tools /\ WasTold(cfg, h, t, version[t], heard)
  BY <1>0 DEF Genuine, GenuineCalls, Active
<1>2. Given(c) /\ Checkable(c)
  BY <1>0 DEF Answered
<1>3. /\ call'[c].tool = t /\ call'[c].heard = heard
      /\ call'[c].version = VersionIn(Copies(Tools), t)
      /\ tool # None /\ ~Accepts(tool, outcome[c].args)
  BY <1>0, <1>1, LookingUp
<1>4. call'[c].version = v /\ v = version[t]
  BY <1>1, <1>2, <1>3, VersionFound, PlainVersions DEF Checkable
<1> SUFFICES ASSUME v = heard.tool.version, heard.here \/ outcome[c].ground = "entry", t \notin raced
             PROVE  FALSE
  BY <1>0, <1>2, <1>3, <1>4 DEF Refused, Checkable, adapter
<1>5. outcome[c].ground = "entry" /\ outcome[c].version = v
  BY <1>2, <1>3, <1>4 DEF Checkable
<1>6. outcome[c].args = heard.tool.owns
  BY <1>2, <1>5 DEF Given, Settled
<1>7. IsCopy(cfg, h, t, version[t], tool)
  BY <1>0, <1>1, <1>3 DEF GenuineTools
<1>8. v \in 1..MaxVersions
  BY <1>0, <1>1, <1>7 DEF IsCopy
<1>9. IsTool(w) /\ w.required \subseteq w.owns
  BY <1>1, <1>8, Writing
<1>10. heard.tool = Advertised(cfg, w) /\ tool \in {w, Declared(cfg, w)}
  BY <1>1, <1>7 DEF WasTold, IsCopy
<1> HIDE DEF w
<1>11. heard.tool.owns = w.owns
  <2>1. Advertised(cfg, w).owns = w.owns
    BY <1>9, Advertising
  <2> QED
    BY <1>10, <2>1
<1> QED
  BY <1>3, <1>6, <1>9, <1>10, <1>11, Accepting

(* What was found when a call was stripped stays so until it is looked up,    *)
(* unless the tool is registered anew.                                        *)
LEMMA CheckableStays ==
  ASSUME NEW h \in Histories, Types, Kept, Kept', Plain, Plain', Resting, Genuine(h), [Next]_vars,
         NEW c \in Calls, Checkable(c), cpc[c] = "dispatch", call'[c] = call[c],
         outcome'[c] = outcome[c]
  PROVE  Checkable(c)'
<1> DEFINE t == call[c].tool
           v == call[c].heard.tool.version
<1>0. /\ Grows /\ t \in Tools /\ adapter = "official" /\ adapter' = "official"
      /\ version[t] \in Nat /\ version'[t] \in Nat /\ version[t] <= version'[t]
      /\ \A l \in Listers : DOMAIN snapshot[l] = {}
  BY Growing DEF Genuine, GenuineCalls, Active, Grows, Checkable, adapter, Plain, Resting
<1>1. v \in 1..version[t]
  BY <1>0, Numbers DEF Active
<1> SUFFICES ASSUME tools'[t] # None, version'[t] = v
             PROVE  outcome[c].version = version'[t]
  BY <1>0 DEF Checkable
<1>2. version'[t] = version[t]
  BY <1>0, <1>1
<1>3. tools'[t].version = version'[t]
  BY <1>0 DEF Kept, CustomerRegistrationKept, Plain
<1>4. tools[t] # None
  BY <1>0, <1>2, <1>3, ToolMoves
<1> QED
  BY <1>2, <1>4 DEF Checkable

(* What was true of a call's arguments and of its refusal stays true, and the *)
(* other steps of a call leave nothing to be true of.                         *)
LEMMA AnswersNext ==
  ASSUME NEW h \in Histories, Types, Kept, Kept', Plain, Plain', Resting, Rebuilding, Handed,
         HereKnown, Declaring, Genuine(h), Fresh(h), Answers, [Next]_vars
  PROVE  Answers'
<1> SUFFICES ASSUME NEW c \in Calls PROVE Answered(c)'
  BY DEF Answers
<1>0. /\ Answered(c) /\ Shaped /\ setup' = setup /\ cfg' = cfg /\ raced \subseteq raced'
      /\ DOMAIN call = Calls /\ DOMAIN cpc = Calls /\ DOMAIN outcome = Calls
  BY Growing, RacesStay DEF Answers, Genuine, Grows, Shaped, Types, PlacesTyped, cfg
<1>1. ASSUME call'[c].heard = call[c].heard, call'[c].tool = call[c].tool,
             outcome'[c] = outcome[c], Given(c)
      PROVE  Given(c)'
  BY <1>0, <1>1 DEF Given, Settled
<1>2. ASSUME call'[c] = call[c], outcome'[c] = outcome[c], Refused(c) PROVE Refused(c)'
  BY <1>0, <1>2 DEF Refused, SessionTools, Late, adapter
<1>3. CASE cpc'[c] = cpc[c] /\ call'[c] = call[c] /\ outcome'[c] = outcome[c]
  <2>1. cpc'[c] = "dispatch" => Checkable(c)'
    BY <1>0, <1>3, CheckableStays DEF Answered
  <2>2. Given(c) => Given(c)'
    BY <1>1, <1>3
  <2>3. Refused(c) => Refused(c)'
    BY <1>2, <1>3
  <2> QED
    BY <1>0, <1>3, <2>1, <2>2, <2>3 DEF Answered
<1>4. CASE /\ cpc[c] \in {"load", "rebuild", "rebuilding"}
           /\ cpc'[c] \in {"rebuild", "rebuilding", "strip"} /\ outcome'[c] = outcome[c]
  BY <1>0, <1>4 DEF Answered
<1>5. ASSUME NEW t \in Tools, NEW args \in SUBSET Params, CallTool(c, t, args)
      PROVE  Answered(c)'
  <2>1. cpc[c] = "idle" /\ outcome' = outcome /\ cpc'[c] \in {"load", "notfound", "rejected"}
    BY <1>0, <1>5, Asking DEF Asked
  <2>2. cpc'[c] = "rejected" => Refused(c)'
    BY <1>5, TurnedDownAtOnce
  <2> QED
    BY <1>0, <2>1, <2>2 DEF Answered
<1>6. CASE StripArguments(c)
  <2>1. cpc'[c] \in {"done", "dispatch"}
    BY <1>0, <1>6 DEF StripArguments
  <2>2. Given(c)' /\ (cpc'[c] = "dispatch" => Checkable(c)')
    BY <1>6, Stripping
  <2> QED
    BY <2>1, <2>2 DEF Answered
<1>7. CASE Dispatch(c)
  <2>1. cpc[c] = "dispatch" /\ Lookup(c, call[c], outcome[c].args, "done") /\ outcome' = outcome
    BY <1>7 DEF Dispatch
  <2>2. DOMAIN call[c] = CallFields
    BY <2>1 DEF Genuine, GenuineCalls, Active
  <2>3. /\ call'[c].heard = call[c].heard /\ call'[c].tool = call[c].tool
        /\ cpc'[c] \in {"notfound", "rejected", "done"}
    BY <1>0, <2>1, <2>2, LookingUp
  <2>4. Given(c)'
    BY <1>0, <1>1, <2>1, <2>3 DEF Answered
  <2>5. cpc'[c] = "rejected" => Refused(c)'
    BY <1>0, <1>7, TurnedDownLater
  <2> QED
    BY <2>3, <2>4, <2>5 DEF Answered
<1>8. CASE Finish(c)
  <2>1. cpc'[c] = "over" /\ outcome'[c] = None
    BY <1>0, <1>8 DEF Finish
  <2> QED
    BY <2>1 DEF Answered
<1> QED
  BY <1>0, <1>3, <1>4, <1>5, <1>6, <1>7, <1>8, CallMoves

(* ------------------------------ From the beginning ------------------------------ *)

Account == \E h \in Histories : Genuine(h) /\ Fresh(h)

(* Two histories that agree on what was registered so far serve alike. *)
LEMMA Agreeing ==
  ASSUME NEW h, NEW g, Types, Genuine(h), Fresh(h),
         \A t \in Tools : \A n \in Versions(t) : g[t][n] = h[t][n]
  PROVE  Genuine(g) /\ Fresh(g)
<1>n. \A t \in Tools : \A n \in Versions(t) : Nth(g, t, n) = Nth(h, t, n)
  BY DEF Nth
<1>1. ASSUME NEW t \in Tools, NEW x, IsCopy(cfg, h, t, version[t], x)
      PROVE  IsCopy(cfg, g, t, version[t], x)
  BY <1>n, <1>1 DEF IsCopy, Versions
<1>2. ASSUME NEW t \in Tools, NEW x, WasTold(cfg, h, t, version[t], x)
      PROVE  WasTold(cfg, g, t, version[t], x)
  BY <1>n, <1>2 DEF WasTold, Versions
<1>3. \A t \in Tools : \A n \in Versions(t) : \A x :
        IsEntry(cfg, h, t, n, x) => IsEntry(cfg, g, t, n, x)
  BY <1>n DEF IsEntry
<1>4. GenuineTools(g)
  BY <1>1, <1>2 DEF Genuine, GenuineTools
<1>5. GenuineCopies(g)
  BY <1>1 DEF Genuine, GenuineCopies, Types, MapsTyped, IsToolMap
<1>6. GenuineEntries(g)
  BY <1>3 DEF Genuine, GenuineEntries
<1>7. GenuineCalls(g)
  BY <1>2 DEF Genuine, GenuineCalls
<1>8. ASSUME NEW t \in Tools, NEW n \in Versions(t), FreshEntry(h, t, n) PROVE FreshEntry(g, t, n)
  <2>1. ASSUME NEW l \in Listers, InHand(h, t, n, l) PROVE InHand(g, t, n, l)
    BY <1>3, <2>1 DEF InHand
  <2> QED
    BY <1>3, <1>8, <2>1 DEF FreshEntry
<1>9. Fresh(g)
  BY <1>8 DEF Fresh
<1> QED
  BY <1>4, <1>5, <1>6, <1>7, <1>9 DEF Genuine

(* The history is open to whatever the customer registers next. *)
LEMMA Foretelling ==
  ASSUME Types, Account, [Next]_vars
  PROVE  \E h \in Histories : Genuine(h) /\ Fresh(h) /\ Foretold(h)
<1>0. version \in [Tools -> 0..MaxVersions] /\ MaxVersions \in Nat
  BY SchemasAssumption DEF Types, ServerTyped
<1>1. PICK h \in Histories : Genuine(h) /\ Fresh(h)
  BY DEF Account
<1>2. CASE ~\E t \in Tools, form \in Forms : AddTool(t, form)
  BY <1>1, <1>2 DEF Foretold
<1>3. ASSUME NEW t \in Tools, NEW form \in Forms, AddTool(t, form)
      PROVE  \E g \in Histories : Genuine(g) /\ Fresh(g) /\ Foretold(g)
  <2> DEFINE v == version[t] + 1
             g == [h EXCEPT ![t] = [@ EXCEPT ![v] = form]]
  <2>1. /\ t # GetMoreTools /\ version[t] < MaxVersions /\ Change(t, Written(form, v))
        /\ version' = [version EXCEPT ![t] = @ + 1]
    BY <1>3 DEF AddTool, Change
  <2>2. v \in 1..MaxVersions /\ \A n \in Versions(t) : n # v
    BY <1>0, <2>1 DEF Versions
  <2>3. h \in [Tools -> [1..MaxVersions -> Forms \cup {GetMoreForm}]]
    BY DEF Histories
  <2> HIDE DEF v
  <2>4. /\ g \in [Tools -> [1..MaxVersions -> Forms \cup {GetMoreForm}]]
        /\ \A u \in Tools : u # t => g[u] = h[u]
        /\ g[t] = [h[t] EXCEPT ![v] = form]
    BY <2>2, <2>3
  <2> HIDE DEF g
  <2>5. g[t][v] = form /\ \A n \in 1..MaxVersions : n # v => g[t][n] = h[t][n]
    <3>1. h[t] \in [1..MaxVersions -> Forms \cup {GetMoreForm}]
      BY <2>3
    <3> QED
      BY <2>2, <2>4, <3>1
  <2>6. g \in Histories
    BY <2>1, <2>4 DEF Histories
  <2>7. \A u \in Tools : \A n \in Versions(u) : g[u][n] = h[u][n]
    <3>1. \A n \in Versions(t) : n \in 1..MaxVersions
      BY <1>0 DEF Versions
    <3> QED
      BY <2>2, <2>4, <2>5, <3>1
  <2>8. Genuine(g) /\ Fresh(g)
    BY <1>1, <2>7, Agreeing
  <2>9. ASSUME NEW u \in Tools, NEW f \in Forms, AddTool(u, f)
        PROVE  Change(u, Nth(g, u, version[u] + 1))
    <3>1. version' = [version EXCEPT ![u] = @ + 1]
      BY <2>9 DEF AddTool, Change
    <3>2. u = t
      BY <1>0, <2>1, <3>1
    <3>3. Nth(g, t, v) = Written(form, v)
      BY <2>5 DEF Nth
    <3> QED
      BY <2>1, <3>2, <3>3 DEF v
  <2> QED
    BY <2>6, <2>8, <2>9 DEF Foretold
<1> QED
  BY <1>2, <1>3

(* Everything that the argument carries along. *)
Ordered == Resting /\ Rebuilding /\ Handed /\ HereKnown
Served == Account /\ Ordered /\ Declaring /\ Plain /\ Answers

(* Track has registered each name at most once, and declared on what it found. *)
LEMMA ServedInit == Init => Served
<1> SUFFICES ASSUME Init PROVE Served
  OBVIOUS
<1>1. PICK forms \in [Tools -> Forms \cup {GetMoreForm, None}] :
       /\ \A t \in Tools : forms[t] \in FormsOf(t)
       /\ version = [t \in Tools |-> IF forms[t] = None THEN 0 ELSE 1]
       /\ tools = [t \in Tools |->
            IF forms[t] = None THEN None
            ELSE IF adapter = "mcpgo" /\ t \in GlobalTools \ Late
                 THEN Declared(cfg, Written(forms[t], 1))
                 ELSE Written(forms[t], 1)]
       /\ known = [t \in Tools |->
            IF forms[t] = None THEN None
            ELSE Heard(Advertised(cfg, Written(forms[t], 1)), FALSE)]
  BY DEF Init
<1>2. /\ registries = None
      /\ \A l \in Listers : /\ lpc[l] = "idle" /\ seen[l] = <<>> /\ reg[l] = None
                            /\ snapshot[l] = <<>>
      /\ crossed = {} /\ DOMAIN call = Calls /\ DOMAIN outcome = Calls
      /\ \A c \in Calls : cpc[c] = "idle" /\ outcome[c] = None
      /\ \A c \in Calls : c \in Listers
  BY DEF Init, Listers
<1>3. MaxVersions \in Nat /\ 1 \in 1..MaxVersions
  BY SchemasAssumption
<1> DEFINE h == [t \in Tools |-> [n \in 1..MaxVersions |->
                   IF forms[t] = None THEN GetMoreForm ELSE forms[t]]]
<1>4. h \in Histories
  BY <1>1 DEF Histories, FormsOf
<1>5. \A t \in Tools : forms[t] # None =>
        /\ Nth(h, t, 1) = Written(forms[t], 1) /\ version[t] = 1
        /\ tools[t] \in {Nth(h, t, 1), Declared(cfg, Nth(h, t, 1))}
        /\ adapter = "mcpgo" /\ t \in GlobalTools \ Late => tools[t] = Declared(cfg, Nth(h, t, 1))
        /\ known[t] = Heard(Advertised(cfg, Nth(h, t, 1)), FALSE)
  BY <1>1, <1>3 DEF Nth
<1>6. \A t \in Tools : forms[t] = None => tools[t] = None /\ known[t] = None
  BY <1>1
<1> HIDE DEF h
<1>7. \A t \in Tools : IsTool(Nth(h, t, 1)) /\ Nth(h, t, 1).version = 1
  BY <1>3, <1>4, Writing
<1>8. \A t \in Tools : /\ Declared(cfg, Nth(h, t, 1)).version = 1
                       /\ Declared(cfg, Declared(cfg, Nth(h, t, 1))) = Declared(cfg, Nth(h, t, 1))
                       /\ Advertised(cfg, Nth(h, t, 1)).version = 1
  BY <1>7, DeclaredOnce, Advertising
<1>9. GenuineTools(h)
  <2>1. ASSUME NEW t \in Tools, tools[t] # None PROVE IsCopy(cfg, h, t, version[t], tools[t])
    <3>1. forms[t] # None
      BY <1>6, <2>1
    <3>2. /\ version[t] = 1 /\ tools[t] \in {Nth(h, t, 1), Declared(cfg, Nth(h, t, 1))}
          /\ tools[t].version = 1
      BY <1>5, <1>7, <1>8, <3>1
    <3> QED
      BY <3>2 DEF IsCopy
  <2>2. ASSUME NEW t \in Tools, known[t] # None PROVE WasTold(cfg, h, t, version[t], known[t])
    <3>1. forms[t] # None
      BY <1>6, <2>2
    <3>2. version[t] = 1 /\ known[t] = Heard(Advertised(cfg, Nth(h, t, 1)), FALSE)
      BY <1>5, <3>1
    <3>3. known[t].tool = Advertised(cfg, Nth(h, t, 1))
      BY <3>2 DEF Heard
    <3>4. known[t].tool.version = 1
      BY <1>8, <3>3
    <3> DEFINE n == known[t].tool.version
    <3>5. n = 1
      BY <3>4
    <3> HIDE DEF n
    <3>6. n \in 1..version[t]
      BY <3>2, <3>5
    <3>7. known[t].tool = Advertised(cfg, Nth(h, t, n))
      BY <3>3, <3>5
    <3> QED
      BY <3>5, <3>6, <3>7 DEF WasTold, n
  <2> QED
    BY <2>1, <2>2 DEF GenuineTools
<1>10. Genuine(h)
  <2>1. GenuineCopies(h)
    BY <1>2, EmptyMap DEF GenuineCopies
  <2>2. GenuineEntries(h)
    BY <1>2 DEF GenuineEntries, Known, Holds
  <2>3. GenuineCalls(h) /\ Shaped
    BY <1>2 DEF GenuineCalls, Active, Shaped
  <2> QED
    BY <1>9, <2>1, <2>2, <2>3 DEF Genuine
<1>11. Fresh(h)
  BY <1>2, EmptyMap DEF Fresh, FreshLists, Known
<1>12. Ordered
  <2>1. Resting /\ Rebuilding
    BY <1>2, EmptyMap DEF Resting, Rebuilding
  <2>2. Handed /\ HereKnown
    BY <1>2 DEF Handed, HereKnown, Holds, HeardHere, Active
  <2> QED
    BY <2>1, <2>2 DEF Ordered
<1>13. Declaring
  <2>1. DueLists
    BY <1>2, EmptyMap DEF DueLists
  <2>2. ASSUME adapter = "mcpgo", NEW t \in Tools, known[t] # None, known[t].here \/ t \in GlobalTools \ Late
        PROVE  IsDeclared(t, known[t].tool.version)
    <3>1. forms[t] # None
      BY <1>6, <2>2
    <3>2. known[t] = Heard(Advertised(cfg, Nth(h, t, 1)), FALSE)
      BY <1>5, <3>1
    <3>3. known[t].here = FALSE
      BY <3>2 DEF Heard
    <3>4. tools[t] = Declared(cfg, Nth(h, t, 1))
      BY <1>5, <2>2, <3>1, <3>3
    <3> DEFINE w == Nth(h, t, 1)
    <3>5. IsTool(w)
      BY <1>7
    <3> HIDE DEF w
    <3>6. Declared(cfg, tools[t]) = tools[t]
      BY <3>4, <3>5, DeclaredOnce DEF w
    <3> QED
      BY <3>6 DEF IsDeclared
  <2> QED
    BY <2>1, <2>2 DEF Declaring, DueTold
<1>14. Plain /\ Answers
  BY <1>2 DEF Plain, Answers, Answered
<1> QED
  BY <1>4, <1>10, <1>11, <1>12, <1>13, <1>14 DEF Served, Account

(* Each part of the argument leans on the others as they were before the step. *)
LEMMA ServedNext ==
  ASSUME Types, Counted, Kept, Kept', Served, [Next]_vars
  PROVE  Served'
<1>1. PICK h \in Histories : Genuine(h) /\ Fresh(h) /\ Foretold(h)
  BY Foretelling DEF Served
<1>2. /\ Resting /\ Rebuilding /\ Handed /\ HereKnown /\ Declaring /\ Plain /\ Answers
      /\ GenuineCalls(h) /\ Shaped
  BY <1>1 DEF Served, Ordered, Genuine
<1>3. Genuine(h)'
  <2>1. GenuineTools(h)' /\ GenuineCopies(h)'
    BY <1>1, GenuineToolsNext, GenuineCopiesNext
  <2>2. GenuineEntries(h)'
    BY <1>1, GenuineEntriesNext
  <2>3. GenuineCalls(h)' /\ Shaped'
    BY <1>1, <1>2, GenuineCallsNext, ShapedNext
  <2> QED
    BY <2>1, <2>2, <2>3 DEF Genuine
<1>4. Fresh(h)'
  BY <1>1, <1>2, FreshNext
<1>5. Account'
  BY <1>3, <1>4 DEF Account
<1>6. Resting' /\ Rebuilding'
  BY <1>2, RestingNext
<1>7. Handed' /\ HereKnown'
  BY <1>2, HandedNext, HereKnownNext
<1>8. Declaring'
  BY <1>1, <1>2, DeclaringNext
<1>9. Plain'
  BY <1>2, PlainNext
<1>10. Answers'
  BY <1>1, <1>2, <1>9, AnswersNext
<1> QED
  BY <1>5, <1>6, <1>7, <1>8, <1>9, <1>10 DEF Served, Ordered

(* All of it holds in every state of every behaviour. *)
LEMMA AlwaysServed == Spec => []Served
<1>1. Init => Types /\ Counted /\ Kept /\ Served
  BY TypesInit, CountedInit, KeptInit, ServedInit
<1>2. Types /\ Counted /\ Kept /\ Served /\ [Next]_vars => Types' /\ Counted' /\ Kept' /\ Served'
  BY TypesNext, CountedNext, KeptNext, ServedNext
<1> QED
  BY <1>1, <1>2, PTL DEF Spec

(* However lists overlap, tools are replaced and calls come in between, a     *)
(* call made as the client was told passes the library's check while the tool *)
(* is still the one it was told of.  With mcp-go that is so of every tool that *)
(* a list of this instance told it of, or that was registered globally before *)
(* Track, and not of one that another instance listed and that came here      *)
(* after Track or with a session; with the official SDK it is so of every     *)
(* tool told of here, and of the others whose entry the registries have,      *)
(* unless its lists raced (registered_schema.go:20, middleware.go:119).       *)
THEOREM AdvertisedAlwaysAccepted == Spec => []AdvertisedCallsAccepted
<1>1. Served => AdvertisedCallsAccepted
  BY DEF Served, Answers, Answered, Refused, AdvertisedCallsAccepted
<1> QED
  BY <1>1, AlwaysServed, PTL

(* What the handler and the event are given is what the customer declared, of *)
(* the registration the client was told of, whenever that is still what is    *)
(* registered and no race left another entry; and get_more_tools always gets  *)
(* its context (inject.go:95, 502, 571).                                       *)
THEOREM HandlerAlwaysSeesItsArguments == Spec => []HandlerSeesItsArguments
<1>1. Served => HandlerSeesItsArguments
  BY DEF Served, Answers, Answered, Given, HandlerSeesItsArguments
<1> QED
  BY <1>1, AlwaysServed, PTL
=============================================================================
