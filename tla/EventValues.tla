------------------------------ MODULE EventValues ------------------------------
(***************************************************************************)
(* The values an event carries, and the three walks over them: redaction's  *)
(* and sanitization's (internal/walk) and truncation's.                     *)
(*                                                                         *)
(* A value is a record with its kind.  "string": len bytes, of which the    *)
(* last tail are the suffix of a cut and the others take width bytes each   *)
(* in JSON; is says what it is, raw that it is a customer's text no         *)
(* redaction function has seen.  "map" and "slice" are map[string]any and   *)
(* []any, "struct" and "list" any other Go type that JSON writes as an      *)
(* object or an array, such as []map[string]any: all four have kids.        *)
(* "back" refers to an enclosing container.  "opaque" and "nan" have no     *)
(* JSON form, "scalar" is any other value, "nil" a field that is not there. *)
(* "fatal" is the end of the process by stack overflow.                     *)
(***************************************************************************)
EXTENDS Naturals, Sequences, SequencesExt

WalkDepth       == 100
MaxDepth        == 10
MaxBreadth      == 100
MaxStringLength == 32768
SizeGate        == 10240
SuffixLength    == 3

String(is, len, width) ==
  [kind |-> "string", is |-> is, len |-> len, width |-> width, tail |-> 0, raw |-> TRUE]
Text(len) == String("plain", len, 1)
Mark == [Text(20) EXCEPT !.is = "mark", !.raw = FALSE]
Scalar == [kind |-> "scalar"]
Nil == [kind |-> "nil"]
Kid(key, value) == [key |-> key, value |-> value]
Node(kind, kids) == [kind |-> kind, kids |-> kids]

Plain == {"map", "slice"}
Typed == {"struct", "list"}
Containers == Plain \cup Typed

(* The kids of a container. *)
Values(v) == {v.kids[i].value : i \in DOMAIN v.kids}
Has(v, key) == v.kind \in Containers /\ \E i \in DOMAIN v.kids : v.kids[i].key = key
At(v, key) == v.kids[CHOOSE i \in DOMAIN v.kids : v.kids[i].key = key].value
Put(v, key, value) ==
  [v EXCEPT !.kids = [i \in DOMAIN @ |-> IF @[i].key = key THEN Kid(key, value) ELSE @[i]]]

First(s, n) == SubSeq(s, 1, IF Len(s) < n THEN Len(s) ELSE n)

(* Half and half, which nests least where sequences are long. *)
RECURSIVE Sum(_)
Sum(s) ==
  LET half == Len(s) \div 2 IN
  CASE s = <<>> -> 0
    [] Len(s) = 1 -> s[1]
    [] OTHER -> Sum(SubSeq(s, 1, half)) + Sum(SubSeq(s, half + 1, Len(s)))

(* truncateString *)
Cut(s, limit) ==
  IF s.len <= limit THEN s ELSE [s EXCEPT !.len = limit + SuffixLength, !.tail = SuffixLength]

(* json.Marshal: whether it succeeds, and how many bytes it yields. *)
RECURSIVE Encodable(_)
Encodable(v) ==
  /\ v.kind \notin {"opaque", "nan", "back", "fatal"}
  /\ v.kind \in Containers => \A kid \in Values(v) : Encodable(kid)

KeyBytes == 10

RECURSIVE Bytes(_)
Bytes(v) ==
  CASE v.kind = "string" -> (v.len - v.tail) * v.width + v.tail + 2
    [] v.kind \in Containers ->
         2 + Sum([i \in DOMAIN v.kids |-> Bytes(v.kids[i].value) + KeyBytes])
    [] OTHER -> 5

(* The functions walk.Bounded is called with: the customer's redaction, which *)
(* may replace every string ("masks"), and sanitizeString.                    *)
Transform(how, s) ==
  CASE how = "keeps" -> [s EXCEPT !.raw = FALSE]
    [] how = "masks" -> Mark
    [] how = "panics" -> Mark
    [] how = "sanitize" -> IF s.len >= SizeGate /\ s.is = "base64" THEN Mark ELSE s

(* walk.Bounded: what is neither a string nor map[string]any nor []any passes. *)
RECURSIVE Bounded(_, _, _)
Bounded(v, how, depth) ==
  CASE v.kind = "string" -> Transform(how, v)
    [] v.kind = "back" -> Mark
    [] v.kind \in Plain /\ (v.kind = "map" \/ v.kids # <<>>) ->
         IF depth = 0 THEN Mark
         ELSE [v EXCEPT !.kids = [i \in DOMAIN @ |->
                 Kid(@[i].key, Bounded(@[i].value, how, depth - 1))]]
    [] OTHER -> v

(* core.JSONRoundTrip, of what can be encoded. *)
RECURSIVE RoundTrip(_)
RoundTrip(v) ==
  IF v.kind \notin Containers THEN v
  ELSE Node(IF v.kind \in {"map", "struct"} THEN "map" ELSE "slice",
            [i \in DOMAIN v.kids |-> Kid(v.kids[i].key, RoundTrip(v.kids[i].value))])

RECURSIVE Cyclic(_)
Cyclic(v) == v.kind = "back" \/ (v.kind \in Containers /\ \E kid \in Values(v) : Cyclic(kid))

(* visit: a value of another type goes through JSON, or, if that fails, *)
(* through fmt, which does not see a cycle.                              *)
RECURSIVE Visit(_, _)
Visit(v, depth) ==
  CASE v.kind = "string" -> Cut(v, MaxStringLength)
    [] v.kind \in {"nan", "back", "opaque"} -> Mark
    [] v.kind \in Typed ->
         IF Encodable(v) THEN Visit(RoundTrip(v), depth)
         ELSE IF Cyclic(v) THEN [kind |-> "fatal"]
         ELSE Cut(Text(Bytes(v)), MaxStringLength)
    [] v.kind \in Plain /\ depth = 0 -> Mark
    [] v.kind \in Plain /\ depth > 0 ->
         LET kept == First(v.kids, MaxBreadth)
             seen == [i \in DOMAIN kept |-> Kid(kept[i].key, Visit(kept[i].value, depth - 1))]
         IN [v EXCEPT !.kids = IF Len(v.kids) <= MaxBreadth THEN seen
                               ELSE Append(seen, Kid("...", Mark))]
    [] OTHER -> v

(* normalizeMapField *)
Normalize(v, depth) == IF v.kind = "nil" THEN v ELSE Visit(v, depth)

(* What a value is made of, and how deep its containers nest. *)
RECURSIVE Parts(_)
Parts(v) == {v} \cup (IF v.kind \in Containers THEN UNION {Parts(kid) : kid \in Values(v)} ELSE {})

RECURSIVE Height(_)
Height(v) ==
  IF v.kind \notin Containers THEN 0
  ELSE 1 + (LET heights == {Height(kid) : kid \in Values(v)}
            IN IF heights = {} THEN 0 ELSE CHOOSE n \in heights : \A m \in heights : m <= n)
=============================================================================
