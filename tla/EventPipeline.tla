------------------------------ MODULE EventPipeline ------------------------------
(***************************************************************************)
(* The way of one event from its capture to the wire: the customer's        *)
(* event-level hook, redaction, sanitization and truncation, in the order   *)
(* of publishEvent.  Publisher has the same stages for many events and      *)
(* workers and nothing of what they carry; here it is the other way round.  *)
(*                                                                         *)
(* An action is one stage; the loops of truncateToSize take a step each     *)
(* time around.                                                             *)
(***************************************************************************)
EXTENDS EventCapture, Integers

CONSTANT Settings \* how a server's hook and redaction behave: [hook, redact]

MaxEventBytes         == 102400
MaxUserIntentLength   == 2048
MaxErrorMessageLength == 2048
MaxResourceNameLength == 256
MaxContentTextLength  == 32768
MaxRounds             == 10
CutAbove              == 100 \* truncateLargestFields leaves shorter strings alone
Envelope              == 400 \* bytes of the fields the model leaves out

VARIABLES
  source,   \* which source the event is built from
  settings, \* the server's
  stage,    \* the next thing to happen to the event
  event,    \* its fields, once it is built
  whole,    \* the fields before their depth is reduced
  depth,    \* to which they are reduced next
  rounds    \* of truncateLargestFields

pipelineVars == <<source, settings, stage, event, whole, depth, rounds>>

(* The fields truncation works on, and those redaction does. *)
Fields   == {"params", "response", "identify", "error"}
Redacted == {"params", "response", "error", "intent"}

PipelineInit ==
  /\ source \in DOMAIN Sources /\ settings \in Settings
  /\ stage = "build" /\ event = Nil /\ whole = Nil
  /\ depth = MaxDepth - 1 /\ rounds = 0

Continue(next) ==
  /\ stage' = next
  /\ UNCHANGED <<source, settings, whole, depth, rounds>>

-----------------------------------------------------------------------------
(* The customer's functions. *)

(* What a hook that makes an event of its own may put in it. *)
Rewritten(e) ==
  [e EXCEPT !.session = "another", !.intent = Text(3000), !.resource = Text(300),
            !.tags = {},
            !.error = Map(<<Kid("message", Text(5000)),
                            Kid("frames", Node("slice", [i \in 1..60 |-> Frame]))>>)]

(* The event is built and, on a worker, comes to the hook. *)
Build ==
  /\ stage = "build" /\ event' = EventOf(Sources[source])
  /\ Continue("hook")

HookPasses ==
  /\ stage = "hook" /\ settings.hook \in {"none", "keeps"}
  /\ Continue("redact") /\ UNCHANGED event

(* The fields the system manages are put back. *)
HookRewrites ==
  /\ stage = "hook" /\ settings.hook = "rewrites"
  /\ event' = [Rewritten(event) EXCEPT !.session = event.session]
  /\ Continue("redact")

(* It answers nil, an error, or panics. *)
HookDrops ==
  /\ stage = "hook" /\ settings.hook = "drops"
  /\ Continue("dropped") /\ UNCHANGED event

(* RedactEvent *)
Redact ==
  /\ stage = "redact"
  /\ event' = IF settings.redact = "none" THEN event
              ELSE [f \in DOMAIN event |->
                      IF f \in Redacted /\ event[f].kind # "nil"
                      THEN Bounded(event[f], settings.redact, WalkDepth) ELSE event[f]]
  /\ Continue("sanitize")

-----------------------------------------------------------------------------
(* SanitizeEvent *)

TextBlock(text) ==
  Map(<<Kid("type", [String("text", 4, 1) EXCEPT !.raw = FALSE]), Kid("text", text)>>)
TypeOf(block) == IF Has(block, "type") /\ At(block, "type").kind = "string"
                 THEN At(block, "type").is ELSE ""

SanitizeBlock(block) ==
  CASE block.kind # "map" \/ TypeOf(block) \in {"text", "resource_link"} -> block
    [] block.kind = "map" /\ TypeOf(block) = "resource" ->
         IF Has(block, "resource") /\ At(block, "resource").kind = "map"
              /\ Has(At(block, "resource"), "blob")
         THEN TextBlock(Mark) ELSE block
    [] OTHER -> TextBlock(Mark)

(* Each block of a response's content, if that is a []any, changed. *)
Blocks(response, Change(_)) ==
  IF Has(response, "content") /\ At(response, "content").kind = "slice"
  THEN Put(response, "content", [At(response, "content") EXCEPT
         !.kids = [i \in DOMAIN @ |-> Kid(@[i].key, Change(@[i].value))]])
  ELSE response

SanitizeResponse(response) ==
  LET r == Blocks(response, SanitizeBlock) IN
  IF Has(r, "structuredContent") /\ At(r, "structuredContent").kind = "map"
  THEN Put(r, "structuredContent", Bounded(At(r, "structuredContent"), "sanitize", WalkDepth))
  ELSE r

Sanitize ==
  /\ stage = "sanitize"
  /\ event' = [event EXCEPT !.response = SanitizeResponse(@),
                            !.params = Bounded(@, "sanitize", WalkDepth)]
  /\ Continue("limit")

-----------------------------------------------------------------------------
(* TruncateEvent *)

CutField(s, limit) == IF s.kind = "string" THEN Cut(s, limit) ELSE s

(* truncateErrorFields *)
LimitError(error) ==
  LET half == MaxStackFrames \div 2
      cut  == IF Has(error, "message")
              THEN Put(error, "message", CutField(At(error, "message"), MaxErrorMessageLength))
              ELSE error
      frames == IF Has(error, "frames") THEN At(error, "frames").kids ELSE <<>>
  IN IF Len(frames) <= MaxStackFrames THEN cut
     ELSE Put(cut, "frames", Node("slice", SubSeq(frames, 1, half)
            \o SubSeq(frames, Len(frames) - half + 1, Len(frames))))

(* truncateResponseContent *)
LimitBlock(block) ==
  IF block.kind = "map" /\ TypeOf(block) = "text" /\ Has(block, "text")
  THEN Put(block, "text", CutField(At(block, "text"), MaxContentTextLength))
  ELSE block

NormalizeFields(e, d) ==
  [f \in DOMAIN e |-> IF f \in Fields THEN Normalize(e[f], d) ELSE e[f]]

(* eventByteSize: 0 of an event json.Marshal cannot encode. *)
EventBytes(e) ==
  LET encoded == Fields \cup {"intent", "resource", "properties"} IN
  IF \E f \in encoded : ~Encodable(e[f]) THEN 0
  ELSE MapThenSumSet(LAMBDA f : Bytes(e[f]), encoded) + 20 * Cardinality(e.tags) + Envelope

(* Fault: what identifies the actor is not counted. *)
FitsWithoutIdentity(e) == EventBytes([e EXCEPT !.identify = Nil]) <= MaxEventBytes

Fits(e) == EventBytes(e) <= MaxEventBytes

Fatal(e) == \E f \in Fields : [kind |-> "fatal"] \in Parts(e[f])

Limit ==
  /\ stage = "limit"
  /\ LET cut == [event EXCEPT !.intent = CutField(@, MaxUserIntentLength),
                              !.resource = CutField(@, MaxResourceNameLength),
                              !.error = LimitError(@),
                              !.response = Blocks(@, LimitBlock)]
         normal == NormalizeFields(cut, MaxDepth)
     IN /\ event' = normal /\ whole' = normal
        /\ stage' = IF Fatal(normal) THEN "fatal" ELSE IF Fits(normal) THEN "prepared" ELSE "reduce"
  /\ UNCHANGED <<source, settings, depth, rounds>>

(* The loop of truncateToSize. *)
Reduce ==
  /\ stage = "reduce"
  /\ event' = NormalizeFields(whole, depth)
  /\ depth' = depth - 1
  /\ stage' = IF Fits(event') THEN "prepared" ELSE IF depth = 1 THEN "cut" ELSE "reduce"
  /\ UNCHANGED <<source, settings, whole, rounds>>

(* collectStringPaths, the longest first.  At depth 1 the fields are flat. *)
LongIn(e, f) ==
  IF e[f].kind = "nil" THEN <<>>
  ELSE SelectSeq([i \in DOMAIN e[f].kids |-> <<f, i>>],
                 LAMBDA path : LET s == e[f].kids[path[2]].value
                               IN s.kind = "string" /\ s.len > CutAbove)

Paths(e) ==
  LET Length(path) == e[path[1]].kids[path[2]].value.len
  IN SortSeq(LongIn(e, "params") \o LongIn(e, "response") \o LongIn(e, "identify")
               \o LongIn(e, "error"), LAMBDA p, q : Length(p) > Length(q))

(* setNestedValue, for each path that has a new string. *)
SetNestedValues(e, new) ==
  [f \in DOMAIN e |->
     IF f \in Fields /\ e[f].kind = "map"
     THEN [e[f] EXCEPT !.kids = [i \in DOMAIN @ |->
             IF <<f, i>> \in DOMAIN new THEN Kid(@[i].key, new[<<f, i>>]) ELSE @[i]]]
     ELSE e[f]]

(* Each of the paths gives up to half its bytes, as far as the ones before it *)
(* left some of the excess: no fewer than ten at a time.                      *)
Shorten(e, paths) ==
  LET StringAt(path) == e[path[1]].kids[path[2]].value
      half == [j \in DOMAIN paths |-> StringAt(paths[j]).len \div 2]
      remaining(j) == EventBytes(e) + 200 - MaxEventBytes
                        - Sum(SubSeq(half, 1, j - 1))
      reduction == [j \in DOMAIN paths |-> IF half[j] < remaining(j) THEN half[j] ELSE remaining(j)]
      cuts == {j \in DOMAIN paths : reduction[j] >= 10}
      By(path) == reduction[CHOOSE j \in cuts : paths[j] = path]
  IN SetNestedValues(e, [path \in {paths[j] : j \in cuts} |->
                           Cut(StringAt(path), StringAt(path).len - By(path))])

Round(e) == Shorten(e, Paths(e))

(* truncateLargestFields *)
CutLargest ==
  /\ stage = "cut"
  /\ IF rounds = MaxRounds \/ Fits(event) \/ Round(event) = event
     THEN stage' = "prepared" /\ UNCHANGED <<event, rounds>>
     ELSE stage' = "cut" /\ event' = Round(event) /\ rounds' = rounds + 1
  /\ UNCHANGED <<source, settings, whole, depth>>

PipelineNext ==
  \/ Build \/ HookPasses \/ HookRewrites \/ HookDrops
  \/ Redact \/ Sanitize \/ Limit \/ Reduce \/ CutLargest

PipelineSpec == PipelineInit /\ [][PipelineNext]_pipelineVars
=============================================================================
