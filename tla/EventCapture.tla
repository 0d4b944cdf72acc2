------------------------------ MODULE EventCapture ------------------------------
(***************************************************************************)
(* How an event comes to carry its values: the one event of a tool call     *)
(* (captureToolCallEvent, NewToolCallEvent) and a customer's own            *)
(* (PublishCustomEvent), with the exception of a failure and the tags.      *)
(*                                                                         *)
(* An error is the chain of links that Unwrap walks and the link, loop,     *)
(* that the last one unwraps to (0: nil).  A link has the length of its     *)
(* message, whether its Error panics, whether it can be a key of a map, and *)
(* the frames of its own stack trace (0: none).  A tag is a record with its *)
(* key, whether its text is valid, and who set it.                          *)
(***************************************************************************)
EXTENDS EventValues, FiniteSets

CONSTANT Sources \* a sequence of what events are built from

MaxMessageLength == 2048
MaxStackFrames   == 50
MaxChainDepth    == 10
MaxTagEntries    == 50
RuntimeFrames    == 3 \* frames of the customer in a trace of runtime.Stack

NoError == [links |-> <<>>, loop |-> 0]
Map(kids) == Node("map", kids)

-----------------------------------------------------------------------------
(* exceptions.go.  Frames and chained_errors are []map[string]any. *)

TruncateMessage(length) == IF length <= MaxMessageLength THEN length ELSE MaxMessageLength

TruncateFrames(n) == IF n <= MaxStackFrames THEN n ELSE 2 * (MaxStackFrames \div 2)

Frame == Kid("", Map(<<Kid("function", Text(40)), Kid("abs_path", Text(60))>>))

(* The stack and the frames of a trace. *)
Trace(frames) ==
  IF frames = 0 THEN <<>>
  ELSE <<Kid("stack", Text(100 * frames)),
         Kid("frames", Node("list", [i \in 1..TruncateFrames(frames) |-> Frame]))>>

Entry(link) == <<Kid("message", Text(TruncateMessage(link.length))), Kid("type", Text(20))>>

(* Fault: the chain is followed to its end. *)
UnboundedChain(e) ==
  [i \in 1..(Len(e.links) - 1) |-> i + 1] \o IF e.loop = 1 THEN <<1>> ELSE <<>>

(* unwrapErrorChain: the links after the first, until one was seen, of which *)
(* the first itself is not.                                                  *)
Chain(e) ==
  LET unseen == [i \in 1..(Len(e.links) - 1) |-> i + 1] \o IF e.loop = 1 THEN <<1>> ELSE <<>>
  IN First(unseen, MaxChainDepth)

ChainedErrors(e) ==
  [i \in DOMAIN Chain(e) |->
     LET link == e.links[Chain(e)[i]] IN Kid("", Map(Entry(link) \o Trace(link.frames)))]

(* CaptureException: what a panic of the customer's error cuts short is left *)
(* out.  extractStackTracer looks no further than the first link with a      *)
(* trace.                                                                    *)
CaptureException(e) ==
  LET traced == {i \in DOMAIN e.links : e.links[i].frames > 0}
      origin == IF traced = {} THEN Len(e.links) ELSE CHOOSE i \in traced : \A j \in traced : i <= j
      stack  == IF traced = {} THEN Trace(RuntimeFrames) ELSE Trace(e.links[origin].frames)
      base   == <<Kid("platform", [Text(2) EXCEPT !.raw = FALSE])>>
  IN IF e.links = <<>> THEN Nil
     ELSE IF e.links[1].panics THEN Map(<<Kid("message", Text(60)), Kid("type", Text(20))>> \o base)
     ELSE IF \E i \in 1..origin : ~e.links[i].hashable THEN Map(Entry(e.links[1]) \o base)
     ELSE IF \/ Chain(e) = <<>>
             \/ \E i \in ToSet(Chain(e)) : e.links[i].panics \/ ~e.links[i].hashable
       THEN Map(Entry(e.links[1]) \o base \o stack)
     ELSE Map(Entry(e.links[1]) \o base \o stack
                \o <<Kid("chained_errors", Node("list", ChainedErrors(e)))>>)

-----------------------------------------------------------------------------
(* Tags. *)

ValidateTags(tags) ==
  LET valid == {tag \in tags : tag.valid}
  IN {tag \in valid : Cardinality({other \in valid : other.key < tag.key}) < MaxTagEntries}

(* The SDK's own tags, which it sets last. *)
ApplySDKTags(tags, own) ==
  {tag \in tags : tag.key \notin own} \cup {[key |-> k, valid |-> TRUE, by |-> "sdk"] : k \in own}

-----------------------------------------------------------------------------
(* Events. *)

(* captureToolCallEvent: what came off the wire is JSON, but for the HTTP *)
(* header, and the response is made JSON by ConvertToMap.                  *)
ToolCallEvent(c) ==
  [params     |-> Map(<<Kid("name", Text(20)), Kid("arguments", c.request)>>
                        \o IF c.header = Nil THEN <<>>
                           ELSE <<Kid("extra", Map(<<Kid("header", c.header)>>))>>),
   response   |-> IF c.failed \/ c.response = Nil THEN Nil
                  ELSE [c.response EXCEPT !.kids = [i \in DOMAIN @ |->
                          Kid(@[i].key, IF Encodable(@[i].value) THEN RoundTrip(@[i].value)
                                        ELSE @[i].value)]],
   error      |-> IF c.failed THEN CaptureException(c.error) ELSE Nil,
   identify   |-> c.identify,
   intent     |-> c.intent,
   resource   |-> Text(20),
   tags       |-> ApplySDKTags(ValidateTags(c.tags), c.own),
   properties |-> c.properties,
   session    |-> "given"]

(* PublishCustomEvent: the customer's values as they are. *)
CustomEvent(c) ==
  [params     |-> c.request,
   response   |-> c.response,
   error      |-> IF c.failed THEN CaptureException(c.error) ELSE Nil,
   identify   |-> Nil,
   intent     |-> c.intent,
   resource   |-> c.resource,
   tags       |-> ValidateTags(c.tags),
   properties |-> c.properties,
   session    |-> "given"]

EventOf(c) == IF c.custom THEN CustomEvent(c) ELSE ToolCallEvent(c)
=============================================================================
