------------------------------ MODULE MCPipeline ------------------------------
(* Small instances of the event pipeline for TLC: events with one difficulty *)
(* each, or several that meet.                                                *)
EXTENDS PipelineProps

Wide(n, value) == Map([i \in 1..n |-> Kid("key", value)])
RECURSIVE Deep(_, _)
Deep(n, value) ==
  Map(<<Kid("text", value), Kid("down", IF n = 1 THEN value ELSE Deep(n - 1, value))>>)
Slice(values) == Node("slice", [i \in DOMAIN values |-> Kid("", values[i])])
List(values) == Node("list", [i \in DOMAIN values |-> Kid("", values[i])])
Back == [kind |-> "back"]
Opaque == [kind |-> "opaque"]
Block(type, kids) == Map(<<Kid("type", String(type, 8, 1))>> \o kids)

Call ==
  [custom |-> FALSE, request |-> Map(<<Kid("arg", Text(50))>>), header |-> Nil,
   response |-> Nil, failed |-> FALSE, error |-> NoError, identify |-> Nil,
   intent |-> Text(80), resource |-> Nil, tags |-> {}, own |-> {1, 7},
   properties |-> Nil]
Custom == [Call EXCEPT !.custom = TRUE, !.own = {}, !.resource = Text(400)]

Content ==
  Slice(<<Block("text", <<Kid("text", String("plain", 40000, 6))>>),
          Block("image", <<Kid("data", String("base64", 20000, 1))>>),
          Block("resource", <<Kid("resource", Map(<<Kid("blob", Text(500))>>))>>),
          Block("resource", <<Kid("resource", Map(<<Kid("text", Text(500))>>))>>),
          Block("resource_link", <<>>), Block("video", <<>>), Text(10)>>)

Tags == {[key |-> k, valid |-> k % 9 # 0, by |-> "customer"] : k \in 1..62}

Link == [length |-> 100, panics |-> FALSE, hashable |-> TRUE, frames |-> 0]
Links(n) == [i \in 1..n |-> Link]
Failure(e) == [Call EXCEPT !.failed = TRUE, !.error = e]

MCSources ==
  << (* a call over HTTP with every kind of content, and tags of the SDK's names *)
    [Call EXCEPT !.header = Node("struct", <<Kid("Authorization", List(<<Text(60)>>))>>),
                 !.response = Map(<<Kid("content", Content), Kid("isError", Scalar),
                   Kid("structuredContent", Map(<<Kid("a", String("base64", 12000, 1)),
                                                  Kid("b", String("base64", 900, 1))>>))>>),
                 !.intent = Text(3000), !.tags = Tags],
    (* too many and too long strings, and some that together are too long *)
    [Custom EXCEPT !.request = Wide(103, Text(40000)),
                   !.response = Map(<<Kid("text", String("plain", 9000, 6))>>)],
    [Custom EXCEPT !.request = Wide(100, String("plain", 90, 6)),
                   !.response = Wide(100, String("plain", 90, 6))],
    [Custom EXCEPT !.request = Wide(90, Text(1130)), !.response = Wide(7, Text(105))],
    (* too deep, and too long only if kept deep *)
    [Call EXCEPT !.request = Deep(12, Text(30)), !.identify = Deep(14, Text(30))],
    [Call EXCEPT !.identify = Deep(9, Text(25000)), !.response = Deep(3, Slice(<<>>))],
    (* errors that unwrap for long, in a circle, or panic on the way *)
    Failure(NoError),
    Failure([links |-> [Links(13) EXCEPT ![2].frames = 60, ![1].length = 5000], loop |-> 1]),
    Failure([links |-> Links(1), loop |-> 1]),
    Failure([links |-> [Links(4) EXCEPT ![1].frames = 70, ![3].hashable = FALSE], loop |-> 2]),
    Failure([links |-> [Links(3) EXCEPT ![2].hashable = FALSE], loop |-> 0]),
    Failure([links |-> [Links(3) EXCEPT ![3].panics = TRUE], loop |-> 0]),
    Failure([links |-> [Links(2) EXCEPT ![1].panics = TRUE], loop |-> 0]),
    (* values that are no JSON, or only typed JSON *)
    [Custom EXCEPT !.request = Map(<<Kid("list", List(<<Text(40), Wide(3, Text(9))>>)),
                                     Kid("self", Slice(<<Back, [kind |-> "nan"]>>)),
                                     Kid("chan", Node("struct", <<Kid("c", Opaque)>>)),
                                     Kid("func", Opaque)>>),
                   !.tags = Tags],
    [Custom EXCEPT !.request = Wide(103, Text(40000)), !.properties = Map(<<Kid("p", Opaque)>>)],
    [Custom EXCEPT !.response = Map(<<Kid("list", List(<<Map(<<Kid("up", Back)>>)>>))>>)] >>

MCSettings ==
  { [hook |-> "none", redact |-> "none"], [hook |-> "keeps", redact |-> "keeps"],
    [hook |-> "rewrites", redact |-> "keeps"], [hook |-> "none", redact |-> "masks"],
    [hook |-> "none", redact |-> "panics"], [hook |-> "drops", redact |-> "none"] }
=============================================================================
