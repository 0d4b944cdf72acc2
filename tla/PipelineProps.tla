------------------------------ MODULE PipelineProps ------------------------------
(* What the way of an event to the wire promises. *)
EXTENDS EventPipeline

Kinds == {"string", "map", "slice", "struct", "list", "opaque", "nan", "scalar",
          "nil", "back", "fatal"}

(* Every variable has its type; an event's values are values (truncation.go *)
(* and what comes before it).                                               *)
PipelineTypeOK ==
  /\ stage \in {"build", "hook", "redact", "sanitize", "limit", "reduce", "cut", "prepared",
                "dropped", "fatal"}
  /\ depth \in 0..(MaxDepth - 1) /\ rounds \in 0..MaxRounds
  /\ stage # "build" =>
       /\ \A f \in Fields : event[f].kind \in {"nil", "map"}
       /\ \A f \in Fields \cup {"properties"} : \A v \in Parts(event[f]) : v.kind \in Kinds
       /\ \A f \in {"intent", "resource"} : event[f].kind \in {"nil", "string"}

(* An event is prepared only when its JSON is within the budget or there is *)
(* no string left that could be shortened: the depths and the ten rounds    *)
(* are enough, whatever the suffixes and the escaping add.  An event that    *)
(* cannot be encoded is not measured (truncateToSize, truncation.go).        *)
Sized ==
  stage = "prepared" => EventBytes(event) <= MaxEventBytes \/ Paths(event) = <<>>

(* What a value may be once it was normalized. *)
Normal(v) ==
  /\ v.kind \in {"string", "map", "slice", "scalar", "nil"}
  /\ v.kind = "string" => v.len <= MaxStringLength + SuffixLength
  /\ v.kind \in Containers => Len(v.kids) <= MaxBreadth + 1

Short(s, limit) == s.kind = "string" => s.len <= limit + SuffixLength

AtMost(error, key, n) ==
  Has(error, key) /\ At(error, key).kind \in Containers => Len(At(error, key).kids) <= n

(* A prepared event has no typed, cyclic, overlong, overwide or too deep     *)
(* value left in any field of the customer's; its exception has at most 50   *)
(* frames and ten causes, however its errors unwrap; of the customer's tags  *)
(* at most 50 came with it and none in place of the SDK's; and it is filed   *)
(* under the session it was given, whatever the hook put there.  Only a      *)
(* typed container on a cycle of its own ends the process (capture,          *)
(* redactor.go, truncation.go, validation.go).                               *)
PreparedWithinLimits ==
  /\ stage = "prepared" =>
       /\ \A f \in Fields : Height(event[f]) <= MaxDepth /\ \A v \in Parts(event[f]) : Normal(v)
       /\ Short(event.intent, MaxUserIntentLength) /\ Short(event.resource, MaxResourceNameLength)
       /\ Has(event.error, "message") => Short(At(event.error, "message"), MaxErrorMessageLength)
       /\ AtMost(event.error, "frames", MaxStackFrames)
       /\ AtMost(event.error, "chained_errors", MaxChainDepth)
       /\ Cardinality({tag \in event.tags : tag.by = "customer"}) <= MaxTagEntries
       /\ \A tag \in event.tags : tag.valid /\ (~Sources[source].custom /\ tag.key \in Sources[source].own => tag.by = "sdk")
       /\ event.session = "given"
  /\ stage = "fatal" =>
       \E f \in Fields : \E v \in Parts(event[f]) : v.kind = "fatal"
         /\ \E given \in {EventOf(Sources[source])[f]} : \E u \in Parts(given) : u.kind \in Typed /\ Cyclic(u)

(* No string of the customer's is left in what redaction is for, unless the  *)
(* redaction function has answered for it (RedactEvent, redactor.go:21).     *)
RedactionReachesEverything ==
  stage = "sanitize" /\ settings.redact # "none" =>
    \A f \in Redacted : \A v \in Parts(event[f]) : v.kind = "string" => ~v.raw
=============================================================================
