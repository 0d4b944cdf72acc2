----------------------------- MODULE OutboundProofs -----------------------------
(* Proofs that no record of the diagnostics is lost or doubled, that a        *)
(* Shutdown in time takes the exports' warnings along, and that the panics of *)
(* the WaitGroup need a worker that outlived the deadline: for any events,    *)
(* exporters, callers and size of the buffer.                                 *)
EXTENDS OutboundProps, FiniteSetTheorems, TLAPS

(* ------------------------------ Sequences ------------------------------ *)

Injective(s) == \A i, j \in DOMAIN s : s[i] = s[j] => i = j

(* Appending a new member to a sequence. *)
LEMMA AppendSet ==
  ASSUME NEW S, NEW s \in Seq(S), NEW c \in S
  PROVE  /\ ToSet(Append(s, c)) = ToSet(s) \cup {c}
         /\ Injective(s) /\ c \notin ToSet(s) => Injective(Append(s, c))
         /\ Append(s, c) \in Seq(S) /\ Len(Append(s, c)) = Len(s) + 1
<1> DEFINE a == Append(s, c)
<1>1. /\ a \in Seq(S) /\ Len(a) = Len(s) + 1 /\ Len(s) \in Nat
      /\ DOMAIN a = 1..(Len(s) + 1) /\ DOMAIN s = 1..Len(s)
  OBVIOUS
<1>2. \A i \in 1..Len(s) : a[i] = s[i]
  OBVIOUS
<1>3. a[Len(s) + 1] = c
  OBVIOUS
<1>4. ToSet(a) = ToSet(s) \cup {c}
  <2> HIDE DEF a
  <2> QED
  BY <1>1, <1>2, <1>3 DEF ToSet
<1>5. Injective(s) /\ c \notin ToSet(s) => Injective(a)
  <2> HIDE DEF a
  <2> QED
  BY <1>1, <1>2, <1>3 DEF ToSet, Injective
<1> QED
  BY <1>1, <1>4, <1>5

(* Taking the first member from a sequence without repetitions. *)
LEMMA TailSet ==
  ASSUME NEW S, NEW s \in Seq(S), s # <<>>, Injective(s)
  PROVE  /\ ToSet(Tail(s)) = ToSet(s) \ {Head(s)} /\ Injective(Tail(s))
         /\ Tail(s) \in Seq(S) /\ Len(Tail(s)) = Len(s) - 1 /\ Head(s) \in ToSet(s)
<1> DEFINE r == Tail(s)
<1>1. /\ r \in Seq(S) /\ Len(r) = Len(s) - 1 /\ Len(s) \in Nat \ {0}
      /\ DOMAIN r = 1..(Len(s) - 1) /\ DOMAIN s = 1..Len(s)
  OBVIOUS
<1>2. \A i \in 1..(Len(s) - 1) : r[i] = s[i + 1]
  OBVIOUS
<1>3. Head(s) = s[1]
  OBVIOUS
<1> HIDE DEF r
<1>4. Injective(r) /\ Head(s) \in ToSet(s)
  <2>1. ASSUME NEW i \in DOMAIN r, NEW j \in DOMAIN r, i # j PROVE r[i] # r[j]
    <3>1. r[i] = s[i + 1] /\ r[j] = s[j + 1]
      BY <1>1, <1>2
    <3>2. i + 1 \in DOMAIN s /\ j + 1 \in DOMAIN s /\ i + 1 # j + 1
      BY <1>1, <2>1
    <3> QED
      BY <3>1, <3>2 DEF Injective
  <2>2. s[1] \in ToSet(s)
    BY <1>1 DEF ToSet
  <2> QED
    BY <1>3, <2>1, <2>2 DEF Injective
<1>5. ASSUME NEW x \in ToSet(r) PROVE x \in ToSet(s) \ {Head(s)}
  <2>1. PICK i \in 1..(Len(s) - 1) : x = s[i + 1]
    BY <1>1, <1>2 DEF ToSet
  <2>2. i + 1 \in DOMAIN s /\ 1 \in DOMAIN s /\ i + 1 # 1
    BY <1>1
  <2> QED
    BY <1>3, <2>1, <2>2 DEF ToSet, Injective
<1>6. ASSUME NEW x \in ToSet(s) \ {Head(s)} PROVE x \in ToSet(r)
  <2>1. PICK i \in 1..Len(s) : x = s[i]
    BY <1>1 DEF ToSet
  <2>2. i # 1 /\ i - 1 \in 1..(Len(s) - 1) /\ (i - 1) + 1 = i
    BY <1>1, <1>3, <2>1
  <2> QED
    BY <1>1, <1>2, <2>1, <2>2 DEF ToSet
<1>7. ToSet(r) = ToSet(s) \ {Head(s)}
  BY <1>5, <1>6
<1> QED
  BY <1>1, <1>4, <1>7 DEF r
(* ------------------------------- Types ------------------------------- *)

Started == {x \in Configs : Initializes(x)}
Batches == [by : {"timer", "shutdown"}, records : Seq(Logged), attributed : BOOLEAN]
Runs == [at : {"none", "requesting", "warning", "arming", "finishing", "checking",
               "releasing", "ended"},
         made : Nat, failed : BOOLEAN, panicked : BOOLEAN]

(* What a request makes of its export, part by part. *)
LEMMA RequestedRun ==
  ASSUME NEW run \in Runs, NEW ok \in BOOLEAN, NEW last \in BOOLEAN
  PROVE  LET r == Requested(run, ok, last) IN
         /\ r \in Runs /\ r.made = run.made + 1
         /\ \/ r.at = "requesting" /\ ~last
            \/ r.at = "warning" /\ r.failed /\ last
            \/ r.at = "finishing" /\ ~r.failed /\ last
<1> DEFINE failed == run.failed \/ ~ok
           at == CASE ~last -> "requesting"
                   [] last /\ failed -> "warning"
                   [] OTHER -> "finishing"
           r == Requested(run, ok, last)
<1>1. /\ at \in {"requesting", "warning", "finishing"} /\ failed \in BOOLEAN
      /\ at = "requesting" => ~last
      /\ at = "warning" => failed /\ last
      /\ at = "finishing" => ~failed /\ last
  BY DEF Runs
<1>2. r = [run EXCEPT !.made = @ + 1, !.failed = failed, !.at = at]
  BY DEF Requested
<1> HIDE DEF failed, at, r
<1>3. r = [at |-> at, made |-> run.made + 1, failed |-> failed, panicked |-> run.panicked]
  BY <1>2 DEF Runs
<1>4. /\ run.made \in Nat /\ run.panicked \in BOOLEAN
      /\ r.made = run.made + 1 /\ r.failed = failed /\ r.at = at
  BY <1>3 DEF Runs
<1>5. r \in Runs
  BY <1>1, <1>3, <1>4 DEF Runs
<1> QED
  BY <1>1, <1>4, <1>5 DEF r

DiagnosticsTyped ==
  /\ starting \in [Starters -> {"claim", "attributes", "sink", "beacon", "done"}]
  /\ initialized \in BOOLEAN /\ enabled \in BOOLEAN /\ attributes \in BOOLEAN
  /\ sink \in BOOLEAN /\ flushPending \in BOOLEAN
  /\ buffer \in Seq(Logged) /\ Len(buffer) <= MaxBuffer
  /\ arming \subseteq Logged /\ timers \in Nat /\ posting \subseteq Batches
  /\ posted \subseteq Logged /\ overflowed \subseteq Logged /\ unheard \subseteq Logged

TelemetryTyped ==
  /\ exporters \subseteq Started
  /\ counter \in Int /\ waiters \in Int
  /\ fanned \in [Events -> SUBSET exporters]
  /\ worker \in [Events -> {"exporting", "recovered", "done"}]
  /\ export \in [Exports -> Runs]
  /\ waiting \in {"none", "started", "parked", "woken", "closed", "recovered"}
  /\ crashed \in BOOLEAN

ShutdownTyped ==
  /\ shutdown \in {"open", "draining", "waiting", "flushing", "posting", "returned"}
  /\ expired \in BOOLEAN /\ late \in BOOLEAN

Types == DiagnosticsTyped /\ TelemetryTyped /\ ShutdownTyped

(* Taking a batch out of the buffer keeps the types. *)
LEMMA TakeTyped ==
  ASSUME DiagnosticsTyped, NEW by \in {"timer", "shutdown"}, TakeBuffer(by), timers' \in Nat
  PROVE  DiagnosticsTyped'
<1> USE MaxBufferAssumption DEF DiagnosticsTyped, TakeBuffer, initVars, fates
<1>1. CASE ~enabled \/ buffer = <<>>
  BY <1>1
<1>2. CASE ~(~enabled \/ buffer = <<>>)
  <2>1. Batch(by) \in Batches
    BY DEF Batch, Batches
  <2>2. buffer' = <<>> /\ posting' = posting \cup {Batch(by)}
    BY <1>2
  <2>3. buffer' \in Seq(Logged) /\ Len(buffer') <= MaxBuffer
    BY <2>2
  <2> QED
    BY <2>1, <2>2, <2>3
<1> QED
  BY <1>1, <1>2

(* Capturing a record keeps the types. *)
LEMMA CaptureTyped ==
  ASSUME DiagnosticsTyped, NEW c \in Logged, Capture(c)
  PROVE  /\ flushPending' \in BOOLEAN /\ buffer' \in Seq(Logged) /\ Len(buffer') <= MaxBuffer
         /\ arming' \subseteq Logged /\ timers' \in Nat
         /\ overflowed' \subseteq Logged /\ unheard' \subseteq Logged
<1> USE MaxBufferAssumption DEF DiagnosticsTyped
<1>1. CASE ~sink \/ ~enabled
  BY <1>1 DEF Capture, bufferVars
<1>2. CASE sink /\ enabled
  <2> DEFINE full == Len(buffer) >= MaxBuffer
  <2>1. /\ buffer' = Append(IF full THEN Tail(buffer) ELSE buffer, c)
        /\ overflowed' = overflowed \cup (IF full THEN {Head(buffer)} ELSE {})
        /\ flushPending' = TRUE
        /\ arming' = arming \cup (IF flushPending THEN {} ELSE {c})
        /\ UNCHANGED <<timers, unheard>>
    BY <1>2 DEF Capture
  <2>2. CASE full
    <3>1. buffer # <<>>
      BY <2>2
    <3>2. Tail(buffer) \in Seq(Logged) /\ Len(Tail(buffer)) = Len(buffer) - 1
          /\ Head(buffer) \in Logged
      BY <3>1
    <3> DEFINE r == Tail(buffer)
    <3>3. Append(r, c) \in Seq(Logged) /\ Len(Append(r, c)) = Len(r) + 1
      <4> HIDE DEF r
      <4> QED
        BY <3>2 DEF r
    <3> QED
      BY <2>1, <2>2, <3>2, <3>3
  <2>3. CASE ~full
    <3>1. Append(buffer, c) \in Seq(Logged) /\ Len(Append(buffer, c)) = Len(buffer) + 1
      OBVIOUS
    <3>2. Len(buffer) + 1 <= MaxBuffer
      BY <2>3
    <3> QED
      BY <2>1, <2>3, <3>1, <3>2
  <2> QED
    BY <2>2, <2>3
<1> QED
  BY <1>1, <1>2 DEF DiagnosticsTyped

(* Initially every variable has its type ... *)
LEMMA TypesInit == OutboundInit => Types
<1> SUFFICES ASSUME OutboundInit PROVE Types
  OBVIOUS
<1>1. DiagnosticsTyped
  <2>1. buffer = <<>> /\ buffer \in Seq(Logged) /\ Len(buffer) <= MaxBuffer
    BY MaxBufferAssumption DEF OutboundInit, DiagnosticsInit
  <2> QED
    BY <2>1 DEF OutboundInit, DiagnosticsInit, DiagnosticsTyped
<1>2. TelemetryTyped
  <2>1. PICK load \in Loads :
          /\ exporters = {x \in load.configs : Initializes(x)}
          /\ worker = [e \in Events |-> IF e \in load.events THEN "exporting" ELSE "done"]
    BY DEF OutboundInit, TelemetryInit
  <2>2. exporters \subseteq Started
    BY <2>1, LoadAssumption DEF Started
  <2>3. fanned = [e \in Events |-> {}] /\ export = [g \in Exports |-> Unstarted]
    BY DEF OutboundInit, TelemetryInit
  <2>0. counter = 0 /\ waiters = 0 /\ waiting = "none" /\ crashed \in BOOLEAN
    BY DEF OutboundInit, TelemetryInit
  <2>4. Unstarted \in Runs
    BY DEF Unstarted, Runs
  <2>5. worker \in [Events -> {"exporting", "recovered", "done"}]
    BY <2>1
  <2>6. export \in [Exports -> Runs] /\ fanned \in [Events -> SUBSET exporters]
    BY <2>3, <2>4
  <2>7. /\ counter \in Int /\ waiters \in Int /\ crashed \in BOOLEAN
        /\ waiting \in {"none", "started", "parked", "woken", "closed", "recovered"}
    BY <2>0
  <2> QED
    BY <2>2, <2>5, <2>6, <2>7 DEF TelemetryTyped
<1>3. ShutdownTyped
  BY DEF OutboundInit, ShutdownTyped
<1> QED
  BY <1>1, <1>2, <1>3 DEF Types

(* Each step of Diagnostics keeps its types. *)
LEMMA DiagnosticsTypedNext ==
  ASSUME DiagnosticsTyped, DiagnosticsNext
  PROVE  DiagnosticsTyped'
<1>1. ASSUME NEW t \in Starters, InitClaim(t) PROVE DiagnosticsTyped'
  BY <1>1 DEF DiagnosticsTyped, InitClaim, bufferVars, fates
<1>2. ASSUME NEW t \in Starters, InitAttributes(t) PROVE DiagnosticsTyped'
  BY <1>2 DEF DiagnosticsTyped, InitAttributes, bufferVars, fates
<1>3. ASSUME NEW t \in Starters, InitSink(t) PROVE DiagnosticsTyped'
  BY <1>3 DEF DiagnosticsTyped, InitSink, bufferVars, fates
<1>4. ASSUME NEW t \in Starters, Beacon(t) PROVE DiagnosticsTyped'
  <2>1. t \in Logged /\ Capture(t)
    BY <1>4 DEF Beacon, Logged
  <2>2. /\ starting' = [starting EXCEPT ![t] = "done"]
        /\ UNCHANGED <<initialized, enabled, attributes, sink, posting, posted>>
    BY <1>4 DEF Beacon
  <2> QED
    BY <2>1, <2>2, CaptureTyped DEF DiagnosticsTyped
<1>5. ASSUME NEW t \in Starters, Arm(t) PROVE DiagnosticsTyped'
  BY <1>5 DEF DiagnosticsTyped, Arm, initVars, fates
<1>6. ASSUME TimerFires PROVE DiagnosticsTyped'
  <2>1. timers' \in Nat /\ TakeBuffer("timer")
    BY <1>6 DEF TimerFires, DiagnosticsTyped
  <2> QED
    BY <2>1, TakeTyped
<1>7. ASSUME NEW b \in posting, Post(b) PROVE DiagnosticsTyped'
  <2>1. ToSet(b.records) \subseteq Logged
    BY DEF DiagnosticsTyped, Batches, ToSet
  <2> QED
    BY <1>7, <2>1 DEF DiagnosticsTyped, Post, initVars, bufferVars
<1> QED
  BY <1>1, <1>2, <1>3, <1>4, <1>5, <1>6, <1>7 DEF DiagnosticsNext

(* So does the warning of an export. *)
LEMMA WarnTyped ==
  ASSUME DiagnosticsTyped, NEW g \in Exports, Warn(g) \/ Warned(g)
  PROVE  DiagnosticsTyped'
<1>1. g \in Logged
  BY DEF Logged
<1>2. CASE Warn(g)
  <2>1. Capture(g) /\ UNCHANGED <<initVars, posting, posted>>
    BY <1>2 DEF Warn, Log
  <2> QED
    BY <1>1, <2>1, CaptureTyped DEF DiagnosticsTyped, initVars
<1>3. CASE Warned(g)
  BY <1>3 DEF Warned, DiagnosticsTyped, Arm, initVars, fates
<1> QED
  BY <1>2, <1>3

(* Each step of TelemetryManager keeps its types. *)
LEMMA TelemetryTypedNext ==
  ASSUME TelemetryTyped, TelemetryNext
  PROVE  TelemetryTyped'
<1> USE DEF TelemetryTyped, Goes
<1>1. ASSUME NEW e \in Events, NEW x \in exporters, ExportAsync(e, x) PROVE TelemetryTyped'
  <2>1. counter' = counter + 1 /\ UNCHANGED <<exporters, waiters, waiting, crashed>>
    BY <1>1 DEF ExportAsync
  <2>2. CASE waiters # 0 /\ counter = 0
    <3>1. worker' = [worker EXCEPT ![e] = "recovered"] /\ UNCHANGED <<fanned, export>>
      BY <1>1, <2>2 DEF ExportAsync
    <3> QED
      BY <2>1, <3>1
  <2>3. CASE ~(waiters # 0 /\ counter = 0)
    <3>1. /\ fanned' = [fanned EXCEPT ![e] = @ \cup {x}] /\ worker' = worker
          /\ export' = [export EXCEPT ![<<e, x>>].at = "requesting"]
      BY <1>1, <2>3 DEF ExportAsync
    <3>2. export' \in [Exports -> Runs]
      BY <3>1 DEF Runs
    <3>3. fanned' \in [Events -> SUBSET exporters']
      BY <2>1, <3>1
    <3> QED
      BY <2>1, <3>1, <3>2, <3>3
  <2> QED
    BY <2>2, <2>3
<1>2. ASSUME NEW e \in Events, WorkerGoesOn(e) PROVE TelemetryTyped'
  BY <1>2 DEF WorkerGoesOn
<1>3. ASSUME NEW g \in Exports, Request(g) PROVE TelemetryTyped'
  <2>1. PICK r \in Runs : export' = [export EXCEPT ![g] = r]
    <3>1. PICK ok \in BOOLEAN :
            export' = [export EXCEPT ![g] =
              Requested(@, ok, export[g].made + 1 = Len(Requests(g[2], g[1])))]
      BY <1>3 DEF Request
    <3>2. export \in [Exports -> Runs] /\ export[g] \in Runs
      BY DEF TelemetryTyped
    <3> HIDE DEF TelemetryTyped
    <3>3. \A last \in BOOLEAN : Requested(export[g], ok, last) \in Runs
      BY <3>2, RequestedRun
    <3> QED
      BY <3>1, <3>2, <3>3
  <2>2. UNCHANGED <<exporters, counter, waiters, fanned, worker, waiting, crashed>>
    BY <1>3 DEF Request
  <2> QED
    BY <2>1, <2>2
<1>4. ASSUME NEW g \in Exports, Panic(g) PROVE TelemetryTyped'
  <2>1. export' = [export EXCEPT ![g].at = "warning", ![g].failed = TRUE, ![g].panicked = TRUE]
    BY <1>4 DEF Panic
  <2>2. export[g] \in Runs
    BY DEF TelemetryTyped
  <2>3. [[[export[g] EXCEPT !.at = "warning"] EXCEPT !.failed = TRUE] EXCEPT !.panicked = TRUE] \in Runs
    BY <2>2 DEF Runs
  <2>4. export' \in [Exports -> Runs]
    BY <2>1, <2>3 DEF TelemetryTyped
  <2>5. UNCHANGED <<exporters, counter, waiters, fanned, worker, waiting, crashed>>
    BY <1>4 DEF Panic
  <2> QED
    BY <2>4, <2>5 DEF TelemetryTyped
<1>5. ASSUME NEW g \in Exports, Done(g) PROVE TelemetryTyped'
  BY <1>5 DEF Done, Runs
<1>6. ASSUME NEW g \in Exports, DoneChecks(g) PROVE TelemetryTyped'
  BY <1>6 DEF DoneChecks, Runs
<1>7. ASSUME NEW g \in Exports, DoneReleases(g) PROVE TelemetryTyped'
  BY <1>7 DEF DoneReleases, Runs
<1>8. ASSUME WaitBegins PROVE TelemetryTyped'
  BY <1>8 DEF WaitBegins
<1>9. ASSUME WaitEnds PROVE TelemetryTyped'
  BY <1>9 DEF WaitEnds
<1> QED
  BY <1>1, <1>2, <1>3, <1>4, <1>5, <1>6, <1>7, <1>8, <1>9 DEF TelemetryNext

(* A warning is logged by an export's goroutine, which only moves on. *)
LEMMA WarnGoes ==
  ASSUME TelemetryTyped, NEW g \in Exports, Warn(g) \/ Warned(g)
  PROVE  TelemetryTyped'
<1>1. PICK at \in {"arming", "finishing"} : Goes(g, at)
  BY DEF Warn, Warned
<1>2. UNCHANGED <<exporters, counter, waiters, fanned, worker, waiting, crashed>>
  BY DEF Warn, Warned
<1> QED
  BY <1>1, <1>2 DEF Goes, TelemetryTyped, Runs

(* ... and every step keeps it. *)
LEMMA TypesNext == Types /\ [OutboundNext]_outboundVars => Types'
<1> SUFFICES ASSUME Types, [OutboundNext]_outboundVars PROVE Types'
  OBVIOUS
<1>0. DiagnosticsTyped /\ TelemetryTyped /\ ShutdownTyped
  BY DEF Types
<1> USE DEF Types
<1>1. ASSUME UNCHANGED diagnosticsVars PROVE DiagnosticsTyped'
  BY <1>0, <1>1 DEF DiagnosticsTyped, diagnosticsVars, initVars, bufferVars, fates
<1>2. ASSUME UNCHANGED telemetryVars PROVE TelemetryTyped'
  BY <1>0, <1>2 DEF TelemetryTyped, telemetryVars
<1>3. ASSUME UNCHANGED shutdownVars PROVE ShutdownTyped'
  BY <1>0, <1>3 DEF ShutdownTyped, shutdownVars
<1>4. CASE DiagnosticsNext /\ UNCHANGED <<telemetryVars, shutdownVars>>
  BY <1>0, <1>2, <1>3, <1>4, DiagnosticsTypedNext
<1>5. CASE TelemetryNext /\ UNCHANGED <<diagnosticsVars, shutdownVars>>
  BY <1>0, <1>1, <1>3, <1>5, TelemetryTypedNext
<1>6. ASSUME NEW g \in Exports, Warn(g) \/ Warned(g) PROVE Types'
  <2>1. UNCHANGED shutdownVars
    BY <1>6 DEF Warn, Warned
  <2> QED
    BY <1>0, <1>3, <1>6, <2>1, WarnTyped, WarnGoes
<1>7. CASE BeginShutdown
  BY <1>0, <1>1, <1>2, <1>7 DEF BeginShutdown, ShutdownTyped
<1>8. CASE Expire
  BY <1>0, <1>1, <1>2, <1>8 DEF Expire, ShutdownTyped
<1>9. CASE WaitForExports
  <2>1. /\ waiting' = "started" /\ UNCHANGED diagnosticsVars
        /\ UNCHANGED <<exporters, counter, waiters, fanned, worker, export, crashed>>
        /\ shutdown = "draining" /\ shutdown' = "waiting" /\ late' \in BOOLEAN /\ expired' = expired
    BY <1>9 DEF WaitForExports, Proceed
  <2>2. TelemetryTyped'
    BY <1>0, <2>1 DEF TelemetryTyped
  <2> QED
    BY <1>0, <1>1, <2>1, <2>2 DEF ShutdownTyped
<1>10. CASE ReturnFromWait
  BY <1>0, <1>1, <1>2, <1>10 DEF ReturnFromWait, ShutdownTyped
<1>11. CASE ShutdownFlush
  <2>1. timers' \in Nat
    BY <1>0, <1>11 DEF ShutdownFlush, DiagnosticsTyped
  <2>2. DiagnosticsTyped'
    BY <1>0, <1>11, <2>1, TakeTyped DEF ShutdownFlush
  <2> QED
    BY <1>0, <1>2, <1>11, <2>2 DEF ShutdownFlush, ShutdownTyped
<1>12. CASE Return
  BY <1>0, <1>1, <1>2, <1>12 DEF Return, ShutdownTyped
<1>13. CASE UNCHANGED outboundVars
  BY <1>1, <1>2, <1>3, <1>13 DEF outboundVars
<1> QED
  BY <1>4, <1>5, <1>6, <1>7, <1>8, <1>9, <1>10, <1>11, <1>12, <1>13 DEF OutboundNext

(* ------------------------- One export at a time ------------------------- *)

Total(g) == Len(Requests(g[2], g[1]))

(* Every exporter that started makes at least one request. *)
LEMMA SomeRequests == \A g \in Exports : Total(g) \in Nat \ {0}
<1> SUFFICES ASSUME NEW g \in Exports PROVE Total(g) \in Nat \ {0}
  OBVIOUS
<1>1. PICK e \in Events, x \in Started : g = <<e, x>>
  BY DEF Exports, Started
<1> DEFINE transaction == IF x.tracing THEN <<"transaction">> ELSE <<>>
           error == IF e \in Failed THEN <<"error">> ELSE <<>>
           Names == {"log", "transaction", "error"}
<1>2. ASSUME NEW a \in Seq(Names), NEW b \in Seq(Names), NEW c \in Seq(Names), Len(a) = 1
      PROVE  Len(a \o b \o c) \in Nat \ {0}
  <2> HIDE DEF Names
  <2>1. a \o b \in Seq(Names) /\ Len(a \o b) = Len(a) + Len(b)
    OBVIOUS
  <2>2. Len((a \o b) \o c) = Len(a \o b) + Len(c)
    BY <2>1
  <2> QED
    BY <1>2, <2>1, <2>2
<1>3. <<"log">> \in Seq(Names) /\ <<"transaction">> \in Seq(Names) /\ <<"error">> \in Seq(Names)
  OBVIOUS
<1>9. <<>> \in Seq(Names) /\ Len(<<"log">>) = 1
  OBVIOUS
<1>8. transaction \in Seq(Names) /\ error \in Seq(Names) /\ Len(<<"log">>) = 1
  <2> HIDE DEF Names
  <2>1. transaction \in Seq(Names)
    BY <1>3, <1>9
  <2>2. error \in Seq(Names)
    BY <1>3, <1>9
  <2> QED
    BY <1>9, <2>1, <2>2
<1>4. x.type \in {"otlp", "datadog", "sentry", "posthog"}
  BY DEF Started, Initializes
<1>5. CASE x.type \in {"otlp", "posthog"}
  BY <1>1, <1>5 DEF Total, Requests
<1>6. CASE x.type = "datadog"
  BY <1>1, <1>6 DEF Total, Requests
<1>7. CASE x.type = "sentry"
  <2>1. Requests(x, e) = <<"log">> \o transaction \o error
    BY <1>7 DEF Requests
  <2>2. Total(g) = Len(<<"log">> \o transaction \o error)
    BY <1>1, <2>1 DEF Total
  <2> HIDE DEF transaction, error, Names
  <2> QED
    BY <1>2, <1>3, <1>8, <2>2
<1> QED
  BY <1>4, <1>5, <1>6, <1>7

(* An event has an export for each exporter it has gone to; its requests are *)
(* counted until they are all made, and it ends without them only when one   *)
(* failed; it has yet to arm a timer only between logging and going on.      *)
Fanning ==
  \A e \in Events : \A x \in Started : x \in fanned[e] <=> export[<<e, x>>].at # "none"

Counting ==
  \A g \in Exports :
    /\ export[g].made <= Total(g)
    /\ export[g].at \in {"none", "requesting"} => export[g].made < Total(g)
    /\ export[g].at = "warning" => export[g].failed
    /\ export[g].at \in {"warning", "arming", "finishing", "checking", "releasing", "ended"} =>
         export[g].panicked \/ export[g].made = Total(g)

Armed == \A g \in Exports : g \in arming => export[g].at = "arming"

Exporting == Fanning /\ Counting /\ Armed

(* Where an export's goroutine goes when it neither starts nor requests. *)
Moves(g) ==
  \E at \in {"arming", "finishing", "checking", "releasing", "ended"} :
    /\ export[g].at \in {"warning", "arming", "finishing", "checking", "releasing"}
    /\ export' = [export EXCEPT ![g].at = at]

(* Moving on keeps the bookkeeping of an export. *)
LEMMA MovesKeep ==
  ASSUME TelemetryTyped, Exporting, NEW g \in Exports, Moves(g), fanned' = fanned,
         arming' \subseteq arming \cup {g}, g \in arming' => export'[g].at = "arming"
  PROVE  Exporting'
<1>1. PICK at \in {"arming", "finishing", "checking", "releasing", "ended"} :
        export' = [export EXCEPT ![g].at = at]
  BY DEF Moves
<1>2. export[g].at \in {"warning", "arming", "finishing", "checking", "releasing"}
  BY DEF Moves
<1>3. \A h \in Exports : h # g => export'[h] = export[h]
  BY <1>1 DEF TelemetryTyped
<1>4. /\ export'[g].at = at /\ export'[g].made = export[g].made
      /\ export'[g].failed = export[g].failed /\ export'[g].panicked = export[g].panicked
  BY <1>1 DEF TelemetryTyped, Runs
<1>5. Fanning'
  BY <1>2, <1>3, <1>4 DEF Exporting, Fanning, Exports, Started
<1>6. Counting'
  BY <1>2, <1>3, <1>4 DEF Exporting, Counting, Total
<1>7. Armed'
  BY <1>3 DEF Exporting, Armed
<1> QED
  BY <1>5, <1>6, <1>7 DEF Exporting

(* The end of an export moves on so ... *)
LEMMA MoveCases ==
  ASSUME NEW g \in Exports, Done(g) \/ DoneChecks(g) \/ DoneReleases(g)
  PROVE  Moves(g) /\ fanned' = fanned /\ export[g].at # "arming"
  BY DEF Moves, Done, DoneChecks, DoneReleases, Goes

(* ... and so does its warning, which may leave it a timer to start. *)
LEMMA WarnMoves ==
  ASSUME Armed, TelemetryTyped, NEW g \in Exports, Warn(g) \/ Warned(g)
  PROVE  /\ Moves(g) /\ fanned' = fanned
         /\ arming' \subseteq arming \cup {g}
         /\ g \in arming' => export'[g].at = "arming"
<1>1. CASE Warn(g)
  <2>1. Goes(g, IF g \in arming' THEN "arming" ELSE "finishing") /\ export[g].at = "warning"
        /\ fanned' = fanned
    BY <1>1 DEF Warn
  <2>2. arming' \subseteq arming \cup {g}
    BY <1>1 DEF Warn, Log, Capture, bufferVars
  <2> QED
    BY <2>1, <2>2 DEF Goes, Moves, TelemetryTyped, Runs
<1>2. CASE Warned(g)
  <2>1. /\ g \in arming /\ arming' = arming \ {g} /\ fanned' = fanned
        /\ Goes(g, "finishing")
    BY <1>2 DEF Warned, Arm
  <2> QED
    BY <2>1 DEF Armed, Goes, Moves
<1> QED
  BY <1>1, <1>2

(* What a request makes of its export. *)
LEMMA RequestCases ==
  ASSUME TelemetryTyped, Counting, NEW g \in Exports, Request(g)
  PROVE  \E r \in Runs :
           /\ export' = [export EXCEPT ![g] = r] /\ export[g].at = "requesting"
           /\ r.made <= Total(g)
           /\ \/ r.at = "requesting" /\ r.made < Total(g)
              \/ r.at = "warning" /\ r.failed /\ r.made = Total(g)
              \/ r.at = "finishing" /\ r.made = Total(g) /\ ~r.failed
<1> DEFINE last == export[g].made + 1 = Total(g)
<1>1. PICK ok \in BOOLEAN : export' = [export EXCEPT ![g] = Requested(@, ok, last)]
  BY DEF Request, Total
<1>2. /\ export \in [Exports -> Runs] /\ export[g] \in Runs /\ export[g].at = "requesting"
      /\ Total(g) \in Nat /\ export[g].made \in Nat /\ export[g].made < Total(g)
  BY SomeRequests DEF Request, TelemetryTyped, Runs, Counting
<1> DEFINE r == Requested(export[g], ok, last)
<1>3. export' = [export EXCEPT ![g] = r]
  BY <1>1, <1>2
<1>4. export[g].made + 1 <= Total(g) /\ (~last => export[g].made + 1 < Total(g))
  BY <1>2
<1>5. /\ r \in Runs /\ r.made = export[g].made + 1
      /\ \/ r.at = "requesting" /\ ~last
         \/ r.at = "warning" /\ r.failed /\ last
         \/ r.at = "finishing" /\ ~r.failed /\ last
  <2>1. last \in BOOLEAN
    OBVIOUS
  <2> HIDE DEF last
  <2> QED
    BY <1>2, <2>1, RequestedRun
<1> HIDE DEF r
<1>6. /\ r.made <= Total(g)
      /\ \/ r.at = "requesting" /\ r.made < Total(g)
         \/ r.at = "warning" /\ r.failed /\ r.made = Total(g)
         \/ r.at = "finishing" /\ r.made = Total(g) /\ ~r.failed
  BY <1>4, <1>5
<1>7. r \in Runs
  BY <1>5
<1> HIDE DEF last
<1> QED
  BY <1>2, <1>3, <1>6, <1>7

(* Initially no export has begun ... *)
LEMMA ExportingInit == OutboundInit => Exporting
<1> SUFFICES ASSUME OutboundInit PROVE Exporting
  OBVIOUS
<1>1. fanned = [e \in Events |-> {}]
  BY DEF OutboundInit, TelemetryInit
<1>2. export = [g \in Exports |-> Unstarted]
  BY DEF OutboundInit, TelemetryInit
<1>3. \A g \in Exports : export[g].at = "none" /\ export[g].made = 0
  BY <1>2 DEF Unstarted
<1>4. Counting
  BY <1>3, SomeRequests DEF Counting
<1>5. Fanning
  BY <1>1, <1>3 DEF Fanning, Exports, Started
<1>6. Armed
  BY DEF OutboundInit, DiagnosticsInit, Armed
<1> QED
  BY <1>4, <1>5, <1>6 DEF Exporting

(* ... and every step keeps the bookkeeping. *)
LEMMA ExportingNext == Types /\ Exporting /\ [OutboundNext]_outboundVars => Exporting'
<1> SUFFICES ASSUME Types, Exporting, [OutboundNext]_outboundVars PROVE Exporting'
  OBVIOUS
<1>0. TelemetryTyped /\ Counting /\ Fanning /\ Armed
  BY DEF Types, Exporting
<1>1. ASSUME UNCHANGED <<fanned, export>>, \A g \in Exports : g \in arming' => g \in arming
      PROVE  Exporting'
  BY <1>0, <1>1 DEF Exporting, Fanning, Counting, Armed, Total
<1>2. ASSUME NEW e \in Events, NEW x \in exporters, ExportAsync(e, x), arming' = arming
      PROVE  Exporting'
  <2>1. CASE waiters # 0 /\ counter = 0
    BY <1>1, <1>2, <2>1 DEF ExportAsync
  <2>2. CASE ~(waiters # 0 /\ counter = 0)
    <3>1. /\ fanned' = [fanned EXCEPT ![e] = @ \cup {x}] /\ x \notin fanned[e]
          /\ export' = [export EXCEPT ![<<e, x>>].at = "requesting"]
      BY <1>2, <2>2 DEF ExportAsync, Goes
    <3>2. x \in Started /\ <<e, x>> \in Exports
      BY <1>0 DEF TelemetryTyped, Exports, Started
    <3>3. export[<<e, x>>].at = "none"
      BY <1>0, <3>1, <3>2 DEF Fanning
    <3>4. /\ \A h \in Exports : h # <<e, x>> => export'[h] = export[h]
          /\ export'[<<e, x>>].at = "requesting"
          /\ export'[<<e, x>>].made = export[<<e, x>>].made
      BY <1>0, <3>1, <3>2 DEF TelemetryTyped, Runs
    <3>5. Counting'
      BY <1>0, <3>2, <3>3, <3>4 DEF Counting, Total
    <3>6. Fanning'
      <4> SUFFICES ASSUME NEW d \in Events, NEW y \in Started
                   PROVE  y \in fanned'[d] <=> export'[<<d, y>>].at # "none"
        BY DEF Fanning
      <4>1. <<d, y>> \in Exports
        BY DEF Exports, Started
      <4>2. CASE d = e /\ y = x
        BY <1>0, <3>1, <3>4, <4>2 DEF TelemetryTyped
      <4>3. CASE ~(d = e /\ y = x)
        <5>1. <<d, y>> # <<e, x>>
          BY <4>3
        <5>2. y \in fanned'[d] <=> y \in fanned[d]
          BY <1>0, <3>1, <4>3 DEF TelemetryTyped
        <5> QED
          BY <1>0, <3>4, <4>1, <5>1, <5>2 DEF Fanning
      <4> QED
        BY <4>2, <4>3
    <3>7. Armed'
      BY <1>0, <1>2, <3>2, <3>3, <3>4 DEF Armed
    <3> QED
      BY <3>5, <3>6, <3>7 DEF Exporting
  <2> QED
    BY <2>1, <2>2
<1>3. ASSUME NEW g \in Exports, Request(g), arming' = arming PROVE Exporting'
  <2>1. PICK r \in Runs :
           /\ export' = [export EXCEPT ![g] = r] /\ export[g].at = "requesting"
           /\ r.made <= Total(g)
           /\ \/ r.at = "requesting" /\ r.made < Total(g)
              \/ r.at = "warning" /\ r.failed /\ r.made = Total(g)
              \/ r.at = "finishing" /\ r.made = Total(g) /\ ~r.failed
    BY <1>0, <1>3, RequestCases
  <2>2. export'[g] = r /\ \A h \in Exports : h # g => export'[h] = export[h]
    BY <1>0, <2>1 DEF TelemetryTyped
  <2>3. fanned' = fanned
    BY <1>3 DEF Request
  <2>4. Counting'
    BY <1>0, <2>1, <2>2 DEF Counting, Total
  <2>5. Fanning'
    BY <1>0, <2>1, <2>2, <2>3 DEF Fanning, Exports, Started
  <2>6. Armed'
    BY <1>0, <1>3, <2>1, <2>2 DEF Armed
  <2> QED
    BY <2>4, <2>5, <2>6 DEF Exporting
<1>4. ASSUME NEW g \in Exports, Panic(g), arming' = arming PROVE Exporting'
  <2>1. /\ export[g].at = "requesting" /\ fanned' = fanned
        /\ export' = [export EXCEPT ![g].at = "warning", ![g].failed = TRUE, ![g].panicked = TRUE]
    BY <1>4 DEF Panic
  <2>2. /\ export'[g].at = "warning" /\ export'[g].failed /\ export'[g].panicked
        /\ export'[g].made = export[g].made
        /\ \A h \in Exports : h # g => export'[h] = export[h]
    <3>1. export \in [Exports -> Runs] /\ export[g] \in Runs
      BY <1>0 DEF TelemetryTyped
    <3>2. export'[g] = [[[export[g] EXCEPT !.at = "warning"] EXCEPT !.failed = TRUE]
                          EXCEPT !.panicked = TRUE]
      BY <2>1, <3>1
    <3>3. \A h \in Exports : h # g => export'[h] = export[h]
      BY <2>1, <3>1
    <3> QED
      BY <3>1, <3>2, <3>3 DEF Runs
  <2>3. Counting'
    BY <1>0, <2>1, <2>2 DEF Counting, Total
  <2>4. Fanning'
    BY <1>0, <2>1, <2>2 DEF Fanning, Exports, Started
  <2>5. Armed'
    BY <1>0, <1>4, <2>1, <2>2 DEF Armed
  <2> QED
    BY <2>3, <2>4, <2>5 DEF Exporting
<1>5. ASSUME NEW g \in Exports, Done(g) \/ DoneChecks(g) \/ DoneReleases(g), arming' = arming
      PROVE  Exporting'
  <2>1. Moves(g) /\ fanned' = fanned /\ g \notin arming
    BY <1>0, <1>5, MoveCases DEF Armed
  <2> QED
    BY <1>0, <1>5, <2>1, MovesKeep
<1>6. ASSUME NEW e \in Events, WorkerGoesOn(e), arming' = arming PROVE Exporting'
  BY <1>1, <1>6 DEF WorkerGoesOn
<1>7. ASSUME WaitBegins \/ WaitEnds, arming' = arming PROVE Exporting'
  BY <1>1, <1>7 DEF WaitBegins, WaitEnds
<1>8. ASSUME TelemetryNext, arming' = arming PROVE Exporting'
  BY <1>2, <1>3, <1>4, <1>5, <1>6, <1>7, <1>8 DEF TelemetryNext
<1>9. ASSUME NEW g \in Exports, Warn(g) \/ Warned(g) PROVE Exporting'
  BY <1>0, <1>9, WarnMoves, MovesKeep
<1>10. ASSUME DiagnosticsNext, UNCHANGED telemetryVars PROVE Exporting'
  <2>1. \A t \in Starters : t \notin Exports
    BY CallersAssumption
  <2>2. ASSUME NEW t \in Starters, Capture(t) PROVE arming' \subseteq arming \cup {t}
    BY <2>2 DEF Capture, bufferVars
  <2>3. ASSUME NEW t \in Starters, InitClaim(t) \/ InitAttributes(t) \/ InitSink(t)
        PROVE  arming' = arming
    BY <2>3 DEF InitClaim, InitAttributes, InitSink, bufferVars
  <2>4. ASSUME NEW t \in Starters, Beacon(t) \/ Arm(t) PROVE arming' \subseteq arming \cup {t}
    BY <2>2, <2>4 DEF Beacon, Arm
  <2>5. ASSUME TimerFires \/ \E b \in posting : Post(b) PROVE arming' = arming
    BY <2>5 DEF TimerFires, TakeBuffer, Post, bufferVars
  <2>6. \A g \in Exports : g \in arming' => g \in arming
    BY <1>10, <2>1, <2>3, <2>4, <2>5 DEF DiagnosticsNext
  <2> QED
    BY <1>1, <1>10, <2>6 DEF telemetryVars
<1>11. ASSUME WaitForExports PROVE Exporting'
  BY <1>1, <1>11 DEF WaitForExports, Proceed, diagnosticsVars, bufferVars
<1>12. ASSUME BeginShutdown \/ Expire \/ ReturnFromWait \/ ShutdownFlush \/ Return
              \/ UNCHANGED outboundVars
       PROVE  Exporting'
  BY <1>1, <1>12 DEF BeginShutdown, Expire, ReturnFromWait, ShutdownFlush, Return, TakeBuffer,
       telemetryVars, diagnosticsVars, bufferVars, outboundVars
<1>13. ASSUME TelemetryNext, UNCHANGED diagnosticsVars PROVE Exporting'
  BY <1>8, <1>13 DEF diagnosticsVars, bufferVars
<1> QED
  BY <1>9, <1>10, <1>11, <1>12, <1>13 DEF OutboundNext

(* --------------------------- The WaitGroup --------------------------- *)

Running == {"requesting", "warning", "arming", "finishing"}
Active == {g \in Exports : export[g].at \in Running}
Checkers == {g \in Exports : export[g].at \in {"checking", "releasing"}}

(* Nobody waits before the workers have finished or the deadline has passed. *)
Clocked ==
  /\ late => expired
  /\ shutdown \in {"open", "draining"} => waiting = "none" /\ ~late
  /\ waiters = (IF waiting = "parked" THEN 1 ELSE 0)
  /\ Checkers # {} => waiting # "none"

(* As long as no worker outlived the deadline, the counter is the number of  *)
(* exports that run, and who releases the waiter is alone.                   *)
InTime ==
  /\ shutdown \notin {"open", "draining"} => WorkersDone
  /\ IsFiniteSet(Active) /\ counter = Cardinality(Active)
  /\ \A g \in Checkers : waiting = "parked" /\ Active = {} /\ \A h \in Checkers : g = h
  /\ waiting \in {"woken", "closed"} => Active = {} /\ Checkers = {}
  /\ shutdown \in {"flushing", "posting", "returned"} => waiting = "closed" \/ expired
  /\ ~crashed

Timely == Clocked /\ (~late => InTime)

(* Initially nothing runs and nobody waits ... *)
LEMMA TimelyInit == OutboundInit => Timely
<1> SUFFICES ASSUME OutboundInit PROVE Timely
  OBVIOUS
<1>1. export = [g \in Exports |-> Unstarted]
  BY DEF OutboundInit, TelemetryInit
<1>2. Active = {} /\ Checkers = {}
  BY <1>1 DEF Active, Checkers, Running, Unstarted
<1>3. /\ shutdown = "open" /\ ~late /\ waiting = "none" /\ waiters = 0 /\ counter = 0
      /\ ~crashed
  BY DEF OutboundInit, TelemetryInit
<1>4. IsFiniteSet(Active) /\ counter = Cardinality(Active)
  BY <1>2, <1>3, FS_EmptySet
<1> QED
  BY <1>2, <1>3, <1>4 DEF Timely, Clocked, InTime

(* What one export's move does to the sets of those that run and that check. *)
LEMMA OneMoves ==
  ASSUME TelemetryTyped, NEW g \in Exports, NEW r \in Runs, export' = [export EXCEPT ![g] = r]
  PROVE  /\ export'[g] = r
         /\ Active' = IF r.at \in Running THEN Active \cup {g} ELSE Active \ {g}
         /\ Checkers' = IF r.at \in {"checking", "releasing"} THEN Checkers \cup {g}
                                                              ELSE Checkers \ {g}
<1>1. export'[g] = r /\ \A h \in Exports : h # g => export'[h] = export[h]
  BY DEF TelemetryTyped
<1>2. Active' = IF r.at \in Running THEN Active \cup {g} ELSE Active \ {g}
  BY <1>1 DEF Active, Running
<1>3. Checkers' = IF r.at \in {"checking", "releasing"} THEN Checkers \cup {g}
                                                         ELSE Checkers \ {g}
  BY <1>1 DEF Checkers
<1> QED
  BY <1>1, <1>2, <1>3

(* The same for a goroutine that only moves on. *)
LEMMA OneGoes ==
  ASSUME TelemetryTyped, NEW g \in Exports, NEW at, Goes(g, at),
         at \in {"requesting", "warning", "arming", "finishing", "checking", "releasing", "ended"}
  PROVE  /\ Active' = IF at \in Running THEN Active \cup {g} ELSE Active \ {g}
         /\ Checkers' = IF at \in {"checking", "releasing"} THEN Checkers \cup {g}
                                                            ELSE Checkers \ {g}
<1> DEFINE r == [export[g] EXCEPT !.at = at]
<1>1. r \in Runs /\ r.at = at /\ export' = [export EXCEPT ![g] = r]
  BY DEF TelemetryTyped, Runs, Goes
<1> HIDE DEF r
<1> QED
  BY <1>1, OneMoves

(* An export that keeps running changes nothing here. *)
LEMMA KeepsRunning ==
  ASSUME Timely, Active' = Active, Checkers' = Checkers,
         UNCHANGED <<counter, waiters, worker, waiting, crashed, shutdownVars>>
  PROVE  Timely'
  BY DEF Timely, Clocked, InTime, WorkersDone, shutdownVars

(* ... a step of the exports or of Wait keeps the count ... *)
LEMMA TimelyTelemetry ==
  ASSUME Types, Exporting, Timely, ~crashed, TelemetryNext, UNCHANGED shutdownVars
  PROVE  Timely'
<1>0. TelemetryTyped /\ Clocked /\ (~late => InTime) /\ Fanning
  BY DEF Types, Timely, Exporting
<1>s. shutdown' = shutdown /\ expired' = expired /\ late' = late
  BY DEF shutdownVars
<1>1. ASSUME NEW e \in Events, NEW x \in exporters, ExportAsync(e, x) PROVE Timely'
  <2>1. worker[e] = "exporting" /\ waiting' = waiting /\ waiters' = waiters /\ crashed' = crashed
        /\ counter' = counter + 1 /\ x \notin fanned[e]
    BY <1>1 DEF ExportAsync
  <2>2. x \in Started /\ <<e, x>> \in Exports
    BY <1>0 DEF TelemetryTyped, Exports, Started
  <2>3. CASE waiters # 0 /\ counter = 0
    <3>1. late
      BY <1>0, <2>1, <2>3 DEF Clocked, InTime, WorkersDone
    <3>2. export' = export
      BY <1>1, <2>3 DEF ExportAsync
    <3>3. Checkers' = Checkers
      BY <3>2 DEF Checkers
    <3> QED
      BY <1>0, <1>s, <2>1, <3>1, <3>3 DEF Timely, Clocked
  <2>4. CASE ~(waiters # 0 /\ counter = 0)
    <3> DEFINE g == <<e, x>>
    <3>1. Goes(g, "requesting") /\ worker' = worker
      BY <1>1, <2>4 DEF ExportAsync
    <3>2. export[g].at = "none"
      BY <1>0, <2>1, <2>2 DEF Fanning
    <3> HIDE DEF g
    <3>3. Active' = Active \cup {g} /\ Checkers' = Checkers \ {g}
      BY <1>0, <2>2, <3>1, OneGoes DEF Running, g
    <3>4. g \notin Active /\ g \notin Checkers
      BY <3>2 DEF Active, Checkers, Running
    <3>5. Checkers' = Checkers
      BY <3>3, <3>4
    <3>6. Clocked'
      BY <1>0, <1>s, <2>1, <3>5 DEF Clocked
    <3>7. ASSUME ~late PROVE InTime'
      <4>1. shutdown \in {"open", "draining"} /\ waiting = "none" /\ InTime
        BY <1>0, <2>1, <3>7 DEF Clocked, InTime, WorkersDone, Types, ShutdownTyped
      <4>2. IsFiniteSet(Active') /\ Cardinality(Active') = Cardinality(Active) + 1
        BY <3>3, <3>4, <4>1, FS_AddElement DEF InTime
      <4>3. Checkers = {}
        BY <1>0, <4>1 DEF Clocked
      <4> QED
        BY <1>s, <2>1, <3>1, <3>5, <4>1, <4>2, <4>3 DEF InTime, WorkersDone
    <3> QED
      BY <1>s, <3>6, <3>7 DEF Timely
  <2> QED
    BY <2>3, <2>4
<1>2. ASSUME NEW e \in Events, WorkerGoesOn(e) PROVE Timely'
  <2>1. /\ worker' = [worker EXCEPT ![e] = "done"]
        /\ UNCHANGED <<counter, waiters, export, waiting, crashed>>
    BY <1>2 DEF WorkerGoesOn
  <2>2. Active' = Active /\ Checkers' = Checkers
    BY <2>1 DEF Active, Checkers
  <2>3. WorkersDone => WorkersDone'
    BY <1>0, <2>1 DEF WorkersDone, TelemetryTyped
  <2> QED
    BY <1>0, <1>s, <2>1, <2>2, <2>3 DEF Timely, Clocked, InTime
<1>3. ASSUME NEW g \in Exports, Request(g) \/ Panic(g) PROVE Timely'
  <2>1. PICK r \in Runs : export' = [export EXCEPT ![g] = r] /\ r.at \in Running
    <3>1. CASE Request(g)
      BY <1>0, <3>1, RequestCases DEF Running, Exporting
    <3>2. CASE Panic(g)
      <4> DEFINE r == [export[g] EXCEPT !.at = "warning", !.failed = TRUE, !.panicked = TRUE]
      <4>1. r \in Runs /\ r.at = "warning" /\ export' = [export EXCEPT ![g] = r]
        BY <1>0, <3>2 DEF Panic, TelemetryTyped, Runs
      <4> HIDE DEF r
      <4> QED
        BY <4>1 DEF Running
    <3> QED
      BY <1>3, <3>1, <3>2
  <2>2. g \in Active /\ g \notin Checkers
    BY <1>3 DEF Request, Panic, Active, Checkers, Running
  <2>6. /\ Active' = Active \cup {g}
        /\ Checkers' = IF r.at \in {"checking", "releasing"} THEN Checkers \cup {g}
                                                             ELSE Checkers \ {g}
    BY <1>0, <2>1, OneMoves
  <2>7. r.at \notin {"checking", "releasing"}
    BY <2>1 DEF Running
  <2>3. Active' = Active
    BY <2>2, <2>6
  <2>4. Checkers' = Checkers
    BY <2>2, <2>6, <2>7
  <2>5. UNCHANGED <<counter, waiters, worker, waiting, crashed, shutdownVars>>
    BY <1>3 DEF Request, Panic
  <2> QED
    BY <2>3, <2>4, <2>5, KeepsRunning
<1>4. ASSUME NEW g \in Exports, Done(g) PROVE Timely'
  <2>1. /\ export[g].at = "finishing" /\ counter' = counter - 1 /\ crashed' = (counter' < 0)
        /\ Goes(g, IF counter' = 0 /\ waiters # 0 THEN "checking" ELSE "ended")
        /\ UNCHANGED <<waiters, worker, waiting>>
    BY <1>4 DEF Done
  <2>2. g \in Active /\ g \notin Checkers
    BY <2>1 DEF Active, Checkers, Running
  <2>3. /\ Active' = Active \ {g}
        /\ Checkers' = IF counter' = 0 /\ waiters # 0 THEN Checkers \cup {g} ELSE Checkers
    <3>1. CASE counter' = 0 /\ waiters # 0
      BY <1>0, <2>1, <2>2, <3>1, OneGoes DEF Running
    <3>2. CASE ~(counter' = 0 /\ waiters # 0)
      BY <1>0, <2>1, <2>2, <3>2, OneGoes DEF Running
    <3> QED
      BY <3>1, <3>2
  <2>4. Clocked'
    BY <1>0, <1>s, <2>1, <2>3 DEF Clocked
  <2>5. ASSUME ~late PROVE InTime'
    <3>1. InTime
      BY <1>0, <2>5
    <3>2. IsFiniteSet(Active') /\ Cardinality(Active') = Cardinality(Active) - 1
      BY <2>2, <2>3, <3>1, FS_RemoveElement DEF InTime
    <3>3. Cardinality(Active') \in Nat
      BY <3>2, FS_CardinalityType
    <3>4. Checkers = {} /\ waiting \notin {"woken", "closed"}
      BY <2>2, <3>1 DEF InTime
    <3>8. counter' = Cardinality(Active')
      BY <2>1, <3>1, <3>2 DEF InTime
    <3>9. counter' \in Nat
      BY <3>3, <3>8
    <3>10. ~(counter' < 0)
      BY <3>9
    <3>5. ~crashed'
      BY <2>1, <3>10
    <3>6. ASSUME counter' = 0, waiters # 0
          PROVE  Active' = {} /\ waiting = "parked" /\ Checkers' = {g}
      BY <1>0, <2>3, <3>2, <3>4, <3>6, <3>8, FS_EmptySet DEF Clocked
    <3>7. \A h \in Checkers' : waiting' = "parked" /\ Active' = {} /\ \A i \in Checkers' : h = i
      BY <2>1, <2>3, <3>4, <3>6
    <3> QED
      BY <1>s, <2>1, <3>1, <3>2, <3>4, <3>5, <3>7, <3>8 DEF InTime, WorkersDone
  <2> QED
    BY <1>s, <2>4, <2>5 DEF Timely
<1>5. ASSUME NEW g \in Exports, DoneChecks(g) PROVE Timely'
  <2>1. /\ export[g].at = "checking" /\ crashed' = (counter # 0) /\ Goes(g, "releasing")
        /\ UNCHANGED <<counter, waiters, worker, waiting>>
    BY <1>5 DEF DoneChecks
  <2>2. g \in Checkers /\ g \notin Active
    BY <2>1 DEF Active, Checkers, Running
  <2>3. Active' = Active /\ Checkers' = Checkers
    BY <1>0, <2>1, <2>2, OneGoes DEF Running
  <2>4. ~late => crashed' = FALSE
    BY <1>0, <2>1, <2>2, FS_EmptySet DEF InTime
  <2> QED
    BY <1>0, <1>s, <2>1, <2>3, <2>4 DEF Timely, Clocked, InTime, WorkersDone
<1>6. ASSUME NEW g \in Exports, DoneReleases(g) PROVE Timely'
  <2>1. /\ export[g].at = "releasing" /\ counter' = 0 /\ waiters' = 0 /\ waiting' = "woken"
        /\ Goes(g, "ended") /\ UNCHANGED <<worker, crashed>>
    BY <1>6 DEF DoneReleases
  <2>2. g \in Checkers /\ g \notin Active
    BY <2>1 DEF Active, Checkers, Running
  <2>3. Active' = Active /\ Checkers' = Checkers \ {g}
    BY <1>0, <2>1, <2>2, OneGoes DEF Running
  <2>4. Clocked'
    BY <1>0, <1>s, <2>1, <2>2 DEF Clocked
  <2>5. ASSUME ~late PROVE InTime'
    <3>1. InTime /\ Active = {} /\ waiting = "parked" /\ Checkers' = {}
      BY <1>0, <2>2, <2>3, <2>5 DEF InTime
    <3>2. shutdown \notin {"flushing", "posting", "returned"} \/ expired
      BY <3>1 DEF InTime
    <3> QED
      BY <1>s, <2>1, <2>3, <3>1, <3>2, FS_EmptySet DEF InTime, WorkersDone
  <2> QED
    BY <1>s, <2>4, <2>5 DEF Timely
<1>7. ASSUME WaitBegins PROVE Timely'
  <2>1. waiting = "started" /\ UNCHANGED <<counter, worker, export, crashed>>
    BY <1>7 DEF WaitBegins
  <2>2. Active' = Active /\ Checkers' = Checkers
    BY <2>1 DEF Active, Checkers
  <2>3. shutdown \notin {"open", "draining"}
    BY <1>0, <2>1 DEF Clocked
  <2>4. ~late => Checkers = {} /\ (shutdown \in {"flushing", "posting", "returned"} => expired)
    BY <1>0, <2>1 DEF InTime
  <2>5. CASE counter = 0
    <3>1. waiting' = "closed" /\ waiters' = waiters
      BY <1>7, <2>5 DEF WaitBegins
    <3>2. ~late => Active = {}
      BY <1>0, <2>5, FS_EmptySet DEF InTime
    <3> QED
      BY <1>0, <1>s, <2>1, <2>2, <2>3, <2>4, <3>1, <3>2 DEF Timely, Clocked, InTime, WorkersDone
  <2>6. CASE counter # 0
    <3>1. waiting' = "parked" /\ waiters' = waiters + 1
      BY <1>7, <2>6 DEF WaitBegins
    <3> QED
      BY <1>0, <1>s, <2>1, <2>2, <2>3, <2>4, <3>1 DEF Timely, Clocked, InTime, WorkersDone
  <2> QED
    BY <2>5, <2>6
<1>8. ASSUME WaitEnds PROVE Timely'
  <2>1. waiting = "woken" /\ UNCHANGED <<counter, waiters, worker, export, crashed>>
        /\ waiting' = IF counter # 0 THEN "recovered" ELSE "closed"
    BY <1>8 DEF WaitEnds
  <2>2. Active' = Active /\ Checkers' = Checkers
    BY <2>1 DEF Active, Checkers
  <2>3. ~late => counter = 0 /\ Active = {} /\ Checkers = {}
    BY <1>0, <2>1, FS_EmptySet DEF InTime
  <2>4. shutdown \notin {"open", "draining"}
    BY <1>0, <2>1 DEF Clocked
  <2> QED
    BY <1>0, <1>s, <2>1, <2>2, <2>3, <2>4 DEF Timely, Clocked, InTime, WorkersDone
<1> QED
  BY <1>1, <1>2, <1>3, <1>4, <1>5, <1>6, <1>7, <1>8 DEF TelemetryNext

(* ... and so does every other. *)
LEMMA TimelyNext ==
  Types /\ Exporting /\ Timely /\ [OutboundNext]_outboundVars => Timely'
<1> SUFFICES ASSUME Types, Exporting, Timely, [OutboundNext]_outboundVars PROVE Timely'
  OBVIOUS
<1>0. TelemetryTyped /\ Clocked /\ (~late => InTime) /\ ShutdownTyped
  BY DEF Types, Timely
<1>a. ASSUME UNCHANGED telemetryVars
      PROVE  /\ Active' = Active /\ Checkers' = Checkers /\ (WorkersDone' <=> WorkersDone)
             /\ UNCHANGED <<counter, waiters, worker, waiting, crashed>>
  BY <1>a DEF telemetryVars, Active, Checkers, WorkersDone
<1>1. ASSUME UNCHANGED <<telemetryVars, shutdownVars>> PROVE Timely'
  BY <1>a, <1>1, KeepsRunning
<1>2. ASSUME ~crashed, TelemetryNext, UNCHANGED shutdownVars PROVE Timely'
  BY <1>2, TimelyTelemetry
<1>3. ASSUME NEW g \in Exports, Warn(g) \/ Warned(g) PROVE Timely'
  <2>1. /\ Goes(g, "arming") \/ Goes(g, "finishing")
        /\ export[g].at \in {"warning", "arming"}
        /\ UNCHANGED <<counter, waiters, worker, waiting, crashed, shutdownVars>>
    BY <1>3 DEF Warn, Warned, Arm, Exporting, Armed
  <2>2. g \in Active /\ g \notin Checkers
    BY <2>1 DEF Active, Checkers, Running
  <2>3. Active' = Active
    BY <1>0, <2>1, <2>2, OneGoes DEF Running
  <2>4. Checkers' = Checkers
    BY <1>0, <2>1, <2>2, OneGoes DEF Running
  <2> QED
    BY <2>1, <2>3, <2>4, KeepsRunning
<1>4. ASSUME BeginShutdown PROVE Timely'
  BY <1>0, <1>a, <1>4 DEF BeginShutdown, Timely, Clocked, InTime
<1>5. ASSUME Expire PROVE Timely'
  BY <1>0, <1>a, <1>5 DEF Expire, Timely, Clocked, InTime
<1>6. ASSUME WaitForExports PROVE Timely'
  <2>1. /\ shutdown = "draining" /\ shutdown' = "waiting" /\ waiting' = "started"
        /\ late' = ~WorkersDone /\ (WorkersDone \/ expired) /\ expired' = expired
        /\ UNCHANGED <<counter, waiters, worker, export, crashed>>
    BY <1>6 DEF WaitForExports, Proceed
  <2>2. Active' = Active /\ Checkers' = Checkers /\ (WorkersDone' <=> WorkersDone)
    BY <2>1 DEF Active, Checkers, WorkersDone
  <2>3. waiting = "none" /\ ~late /\ Checkers = {}
    BY <1>0, <2>1 DEF Clocked
  <2> QED
    BY <1>0, <2>1, <2>2, <2>3 DEF Timely, Clocked, InTime
<1>7. ASSUME ReturnFromWait PROVE Timely'
  BY <1>0, <1>a, <1>7 DEF ReturnFromWait, Timely, Clocked, InTime
<1>8. ASSUME ShutdownFlush PROVE Timely'
  BY <1>0, <1>a, <1>8 DEF ShutdownFlush, Timely, Clocked, InTime
<1>9. ASSUME Return PROVE Timely'
  BY <1>0, <1>a, <1>9 DEF Return, Timely, Clocked, InTime
<1>10. ASSUME UNCHANGED outboundVars PROVE Timely'
  BY <1>1, <1>10 DEF outboundVars
<1> QED
  BY <1>1, <1>2, <1>3, <1>4, <1>5, <1>6, <1>7, <1>8, <1>9, <1>10 DEF OutboundNext

(* ------------------------------ Records ------------------------------ *)

(* There is a sink only once Init has come to its end, and an enabled one;   *)
(* what is in the buffer has a timer, or someone about to start it.          *)
Opened ==
  /\ \A t \in Starters : starting[t] \in {"attributes", "sink"} => initialized /\ enabled
  /\ \A t \in Starters : starting[t] = "sink" => attributes
  /\ sink => initialized /\ enabled /\ attributes
  /\ buffer # <<>> => sink /\ flushPending
  /\ flushPending => arming # {} \/ timers > 0
  /\ \A b \in posting : b.attributed

(* Initially there is no sink ... *)
LEMMA OpenedInit == OutboundInit => Opened
  BY DEF OutboundInit, DiagnosticsInit, Opened

(* ... a record comes into the buffer with a timer to come ... *)
LEMMA OpenedCapture ==
  ASSUME DiagnosticsTyped, Opened, NEW c \in Logged, Capture(c)
  PROVE  /\ buffer' # <<>> => sink /\ flushPending'
         /\ flushPending' => arming' # {} \/ timers' > 0
<1>1. CASE ~sink \/ ~enabled
  BY <1>1 DEF Capture, bufferVars, Opened
<1>2. CASE sink /\ enabled
  BY <1>2 DEF Capture, Opened
<1> QED
  BY <1>1, <1>2 DEF DiagnosticsTyped

(* ... taking a batch leaves nothing that needs one ... *)
LEMMA OpenedTake ==
  ASSUME DiagnosticsTyped, Opened, NEW by, TakeBuffer(by)
  PROVE  Opened'
<1>1. flushPending' = FALSE /\ UNCHANGED initVars
  BY DEF TakeBuffer
<1>2. CASE ~enabled \/ buffer = <<>>
  <2>1. buffer' = buffer /\ posting' = posting /\ buffer = <<>>
    BY <1>2 DEF TakeBuffer, Opened
  <2> QED
    BY <1>1, <2>1 DEF Opened, initVars
<1>3. CASE ~(~enabled \/ buffer = <<>>)
  <2>1. buffer' = <<>> /\ posting' = posting \cup {Batch(by)}
    BY <1>3 DEF TakeBuffer
  <2>2. Batch(by).attributed
    BY <1>3 DEF Opened, Batch
  <2> QED
    BY <1>1, <2>1, <2>2 DEF Opened, initVars
<1> QED
  BY <1>2, <1>3

(* ... and every step keeps it so. *)
LEMMA OpenedNext == Types /\ Opened /\ [OutboundNext]_outboundVars => Opened'
<1> SUFFICES ASSUME Types, Opened, [OutboundNext]_outboundVars PROVE Opened'
  OBVIOUS
<1>0. DiagnosticsTyped
  BY DEF Types
<1>1. ASSUME UNCHANGED diagnosticsVars PROVE Opened'
  BY <1>1 DEF Opened, diagnosticsVars, initVars, bufferVars
<1>2. ASSUME NEW t \in Starters, InitClaim(t) PROVE Opened'
  <2>1. UNCHANGED <<attributes, sink, bufferVars, posting>> /\ starting[t] = "claim"
    BY <1>2 DEF InitClaim
  <2>2. CASE initialized
    <3>1. /\ starting' = [starting EXCEPT ![t] = "beacon"]
          /\ UNCHANGED <<initialized, enabled>>
      BY <1>2, <2>2 DEF InitClaim
    <3> QED
      BY <1>0, <2>1, <3>1 DEF Opened, bufferVars, DiagnosticsTyped
  <2>3. CASE ~initialized
    <3>1. /\ initialized' /\ enabled' \in BOOLEAN
          /\ starting' = [starting EXCEPT ![t] = IF enabled' THEN "attributes" ELSE "beacon"]
      BY <1>2, <2>3 DEF InitClaim
    <3>2. ~sink /\ \A u \in Starters : starting[u] \notin {"attributes", "sink"}
      BY <2>3 DEF Opened
    <3>3. \A u \in Starters : starting'[u] # "sink"
                              /\ (starting'[u] = "attributes" => u = t /\ enabled')
      BY <1>0, <3>1, <3>2 DEF DiagnosticsTyped
    <3> QED
      BY <2>1, <3>1, <3>2, <3>3 DEF Opened, bufferVars
  <2> QED
    BY <2>2, <2>3
<1>3. ASSUME NEW t \in Starters, InitAttributes(t) PROVE Opened'
  BY <1>0, <1>3 DEF InitAttributes, Opened, bufferVars, DiagnosticsTyped
<1>4. ASSUME NEW t \in Starters, InitSink(t) PROVE Opened'
  BY <1>0, <1>4 DEF InitSink, Opened, bufferVars, DiagnosticsTyped
<1>5. ASSUME NEW t \in Starters, Beacon(t) PROVE Opened'
  <2>1. /\ starting' = [starting EXCEPT ![t] = "done"] /\ Capture(t) /\ t \in Logged
        /\ UNCHANGED <<initialized, enabled, attributes, sink, posting>>
    BY <1>5 DEF Beacon, Logged
  <2> QED
    BY <1>0, <2>1, OpenedCapture DEF Opened, DiagnosticsTyped
<1>6. ASSUME NEW c \in Logged, Arm(c) PROVE Opened'
  <2>1. UNCHANGED <<initVars, buffer, flushPending, posting>> /\ timers' = timers + 1
    BY <1>6 DEF Arm
  <2>2. timers' > 0
    BY <1>0, <2>1 DEF DiagnosticsTyped
  <2> QED
    BY <2>1, <2>2 DEF Opened, initVars
<1>7. ASSUME TimerFires \/ ShutdownFlush PROVE Opened'
  BY <1>0, <1>7, OpenedTake DEF TimerFires, ShutdownFlush
<1>8. ASSUME NEW b \in posting, Post(b) PROVE Opened'
  BY <1>8 DEF Post, Opened, initVars, bufferVars
<1>9. ASSUME NEW g \in Exports, Warn(g) PROVE Opened'
  <2>1. Capture(g) /\ UNCHANGED <<initVars, posting>> /\ g \in Logged
    BY <1>9 DEF Warn, Log, Logged
  <2> QED
    BY <1>0, <2>1, OpenedCapture DEF Opened, initVars
<1>10. ASSUME NEW g \in Exports, Warned(g) PROVE Opened'
  BY <1>6, <1>10 DEF Warned, Logged
<1>11. ASSUME DiagnosticsNext PROVE Opened'
  <2>1. \A t \in Starters : t \in Logged
    BY DEF Logged
  <2> QED
    BY <1>2, <1>3, <1>4, <1>5, <1>6, <1>7, <1>8, <1>11, <2>1 DEF DiagnosticsNext
<1>12. ASSUME BeginShutdown \/ Expire \/ WaitForExports \/ ReturnFromWait \/ Return
              \/ UNCHANGED outboundVars
       PROVE  Opened'
  BY <1>1, <1>12 DEF BeginShutdown, Expire, WaitForExports, Proceed, ReturnFromWait, Return,
       outboundVars
<1> QED
  BY <1>1, <1>7, <1>9, <1>10, <1>11, <1>12 DEF OutboundNext

(* Where a record can be once it was logged. *)
Placed == InBuffer \cup InBatches \cup posted \cup overflowed \cup unheard

(* It is in one of these places only, and nowhere twice. *)
Placing ==
  /\ Injective(buffer) /\ IsFiniteSet(InBuffer) /\ Cardinality(InBuffer) = Len(buffer)
  /\ InBuffer \cap InBatches = {} /\ InBuffer \cap posted = {}
  /\ InBuffer \cap overflowed = {} /\ InBuffer \cap unheard = {}
  /\ InBatches \cap posted = {} /\ InBatches \cap overflowed = {} /\ InBatches \cap unheard = {}
  /\ posted \cap overflowed = {} /\ posted \cap unheard = {} /\ overflowed \cap unheard = {}
  /\ \A b, c \in posting : b # c => ToSet(b.records) \cap ToSet(c.records) = {}

(* An empty buffer holds nothing. *)
LEMMA EmptyBuffer ==
  ASSUME NEW s, s = <<>>
  PROVE  /\ ToSet(s) = {} /\ Injective(s) /\ Len(s) = 0
         /\ IsFiniteSet(ToSet(s)) /\ Cardinality(ToSet(s)) = Len(s)
<1>1. ToSet(s) = {} /\ Injective(s) /\ Len(s) = 0
  BY DEF ToSet, Injective
<1> QED
  BY <1>1, FS_EmptySet

(* Initially no record is anywhere. *)
LEMMA PlacingInit == OutboundInit => Placing /\ Placed = {}
<1> SUFFICES ASSUME OutboundInit PROVE Placing /\ Placed = {}
  OBVIOUS
<1>1. /\ buffer = <<>> /\ posting = {} /\ posted = {} /\ overflowed = {} /\ unheard = {}
  BY DEF OutboundInit, DiagnosticsInit
<1>2. InBuffer = {} /\ InBatches = {}
  BY <1>1, EmptyBuffer DEF InBuffer, InBatches
<1>3. Injective(buffer) /\ IsFiniteSet(InBuffer) /\ Cardinality(InBuffer) = Len(buffer)
  BY <1>1, EmptyBuffer DEF InBuffer
<1> QED
  BY <1>1, <1>2, <1>3 DEF Placing, Placed

(* What does not touch the places leaves the records where they are. *)
LEMMA SamePlaces ==
  ASSUME Placing, UNCHANGED <<buffer, posting, fates>>
  PROVE  Placing' /\ Placed' = Placed /\ InBuffer' = InBuffer
  BY DEF Placing, Placed, InBuffer, InBatches, fates

(* Capturing puts a new record in its place and moves at most the oldest. *)
LEMMA CapturePlaces ==
  ASSUME DiagnosticsTyped, Placing, NEW c \in Logged, c \notin Placed, Capture(c),
         posting' = posting, posted' = posted
  PROVE  Placing' /\ Placed' = Placed \cup {c} /\ InBuffer' \subseteq InBuffer \cup {c}
<1>1. InBatches' = InBatches
  BY DEF InBatches
<1>2. CASE ~sink \/ ~enabled
  <2>1. buffer' = buffer /\ overflowed' = overflowed /\ unheard' = unheard \cup {c}
    BY <1>2 DEF Capture, bufferVars
  <2>2. InBuffer' = InBuffer
    BY <2>1 DEF InBuffer
  <2> QED
    BY <1>1, <2>1, <2>2 DEF Placing, Placed
<1>3. CASE ~(~sink \/ ~enabled)
  <2> DEFINE full == Len(buffer) >= MaxBuffer
             kept == IF full THEN Tail(buffer) ELSE buffer
             gone == IF full THEN {Head(buffer)} ELSE {}
  <2>1. buffer' = Append(kept, c) /\ overflowed' = overflowed \cup gone /\ unheard' = unheard
    BY <1>3 DEF Capture
  <2>2. buffer \in Seq(Logged) /\ Injective(buffer) /\ Len(buffer) \in Nat
        /\ IsFiniteSet(InBuffer) /\ Cardinality(InBuffer) = Len(buffer)
    BY DEF DiagnosticsTyped, Placing
  <2>3. /\ kept \in Seq(Logged) /\ Injective(kept) /\ ToSet(kept) = InBuffer \ gone
        /\ gone \subseteq InBuffer
        /\ IsFiniteSet(ToSet(kept)) /\ Cardinality(ToSet(kept)) = Len(kept)
    <3>1. CASE full
      <4>1. buffer # <<>>
        BY <2>2, <3>1, MaxBufferAssumption
      <4>2. /\ ToSet(Tail(buffer)) = InBuffer \ {Head(buffer)} /\ Injective(Tail(buffer))
            /\ Tail(buffer) \in Seq(Logged) /\ Len(Tail(buffer)) = Len(buffer) - 1
            /\ Head(buffer) \in InBuffer
        BY <2>2, <4>1, TailSet DEF InBuffer
      <4>3. IsFiniteSet(InBuffer \ {Head(buffer)})
            /\ Cardinality(InBuffer \ {Head(buffer)}) = Cardinality(InBuffer) - 1
        BY <2>2, <4>2, FS_RemoveElement
      <4>4. kept = Tail(buffer) /\ gone = {Head(buffer)}
        BY <3>1
      <4> HIDE DEF kept, gone, full
      <4> QED
        BY <2>2, <4>2, <4>3, <4>4
    <3>2. CASE ~full
      <4>1. kept = buffer /\ gone = {}
        BY <3>2
      <4> HIDE DEF kept, gone, full
      <4> QED
        BY <2>2, <4>1 DEF InBuffer
    <3> QED
      BY <3>1, <3>2
  <2> HIDE DEF kept, gone, full
  <2>4. c \notin InBuffer /\ c \notin ToSet(kept)
    BY <2>3 DEF Placed
  <2>5. /\ ToSet(buffer') = ToSet(kept) \cup {c} /\ Injective(buffer')
        /\ Len(buffer') = Len(kept) + 1
    BY <2>1, <2>3, <2>4, AppendSet
  <2>6. IsFiniteSet(InBuffer') /\ Cardinality(InBuffer') = Len(buffer')
    BY <2>3, <2>4, <2>5, FS_AddElement DEF InBuffer
  <2>7. InBuffer' = (InBuffer \ gone) \cup {c}
    BY <2>3, <2>5 DEF InBuffer
  <2>8. Placed' = Placed \cup {c}
    BY <1>1, <2>1, <2>3, <2>7 DEF Placed
  <2>9. /\ InBuffer' \cap InBatches' = {} /\ InBuffer' \cap posted' = {}
        /\ InBuffer' \cap overflowed' = {} /\ InBuffer' \cap unheard' = {}
    BY <1>1, <2>1, <2>3, <2>7 DEF Placing, Placed
  <2>10. /\ InBatches' \cap posted' = {} /\ InBatches' \cap overflowed' = {}
         /\ InBatches' \cap unheard' = {} /\ posted' \cap overflowed' = {}
         /\ posted' \cap unheard' = {} /\ overflowed' \cap unheard' = {}
    BY <1>1, <2>1, <2>3 DEF Placing
  <2>11. \A a, b \in posting' : a # b => ToSet(a.records) \cap ToSet(b.records) = {}
    BY DEF Placing
  <2>12. Placing'
    BY <2>5, <2>6, <2>9, <2>10, <2>11 DEF Placing
  <2>13. InBuffer' \subseteq InBuffer \cup {c}
    BY <2>7
  <2> QED
    BY <2>8, <2>12, <2>13
<1> QED
  BY <1>2, <1>3

(* Taking a batch moves all of the buffer. *)
LEMMA TakePlaces ==
  ASSUME DiagnosticsTyped, Opened, Placing, NEW by, TakeBuffer(by)
  PROVE  Placing' /\ Placed' = Placed /\ InBuffer' = {}
<1>1. UNCHANGED <<posted, overflowed, unheard>>
  BY DEF TakeBuffer, fates
<1>2. CASE ~enabled \/ buffer = <<>>
  <2>1. buffer' = buffer /\ posting' = posting /\ buffer = <<>>
    BY <1>2 DEF TakeBuffer, Opened
  <2>2. InBuffer = {}
    BY <2>1, EmptyBuffer DEF InBuffer
  <2> QED
    BY <1>1, <2>1, <2>2, SamePlaces DEF fates
<1>3. CASE ~(~enabled \/ buffer = <<>>)
  <2>1. buffer' = <<>> /\ posting' = posting \cup {Batch(by)}
    BY <1>3 DEF TakeBuffer
  <2>2. ToSet(Batch(by).records) = InBuffer
    BY DEF Batch, InBuffer
  <2>3. InBatches' = InBatches \cup InBuffer
    BY <2>1, <2>2 DEF InBatches
  <2>4. /\ InBuffer' = {} /\ Injective(buffer')
        /\ IsFiniteSet(InBuffer') /\ Cardinality(InBuffer') = Len(buffer')
    BY <2>1, EmptyBuffer DEF InBuffer
  <2>5. \A b \in posting : ToSet(b.records) \cap InBuffer = {}
    BY DEF Placing, InBatches
  <2>6. \A b, c \in posting' : b # c => ToSet(b.records) \cap ToSet(c.records) = {}
    BY <2>1, <2>2, <2>5 DEF Placing
  <2> QED
    BY <1>1, <2>3, <2>4, <2>6 DEF Placing, Placed
<1> QED
  BY <1>2, <1>3

(* Posting moves one batch. *)
LEMMA PostPlaces ==
  ASSUME Placing, NEW b \in posting, Post(b)
  PROVE  Placing' /\ Placed' = Placed /\ InBuffer' = InBuffer
<1>1. /\ posting' = posting \ {b} /\ posted' = posted \cup ToSet(b.records)
      /\ buffer' = buffer /\ overflowed' = overflowed /\ unheard' = unheard
  BY DEF Post, bufferVars
<1>2. InBuffer' = InBuffer
  BY <1>1 DEF InBuffer
<1>3. ToSet(b.records) \subseteq InBatches
  BY DEF InBatches
<1>4. InBatches' = InBatches \ ToSet(b.records)
  <2>1. ASSUME NEW x \in InBatches, x \notin ToSet(b.records) PROVE x \in InBatches'
    BY <1>1, <2>1 DEF InBatches
  <2>2. ASSUME NEW x \in InBatches' PROVE x \in InBatches /\ x \notin ToSet(b.records)
    <3>1. PICK c \in posting \ {b} : x \in ToSet(c.records)
      BY <1>1 DEF InBatches
    <3> QED
      BY <3>1 DEF Placing, InBatches
  <2> QED
    BY <2>1, <2>2
<1>5. \A c, d \in posting' : c # d => ToSet(c.records) \cap ToSet(d.records) = {}
  BY <1>1 DEF Placing
<1> QED
  BY <1>1, <1>2, <1>3, <1>4, <1>5 DEF Placing, Placed

(* --------------------- Who has logged, and who has not --------------------- *)

Logs == {"arming", "finishing", "checking", "releasing", "ended"}

(* A record is placed once its caller has logged it; a failed export has, if *)
(* it is past its warning; after Shutdown's flush no export's is in the      *)
(* buffer.                                                                   *)
Told ==
  /\ \A t \in Starters : t \in Placed => starting[t] = "done"
  /\ \A g \in Exports : g \in Placed => export[g].at \in Logs
  /\ \A g \in Exports : export[g].at \in Logs /\ export[g].failed => g \in Placed
  /\ ~expired /\ shutdown \in {"posting", "returned"} => InBuffer \cap Exports = {}

Recorded == Placing /\ Told

(* Initially nothing was logged ... *)
LEMMA RecordedInit == OutboundInit => Recorded
<1> SUFFICES ASSUME OutboundInit PROVE Recorded
  OBVIOUS
<1>1. Placing /\ Placed = {}
  BY PlacingInit
<1>2. export = [g \in Exports |-> Unstarted] /\ shutdown = "open"
  BY DEF OutboundInit, TelemetryInit
<1>3. \A g \in Exports : export[g].at = "none"
  BY <1>2 DEF Unstarted
<1> QED
  BY <1>1, <1>2, <1>3 DEF Recorded, Told, Logs

(* An export may move on as long as a failure is told of. *)
LEMMA MoveRecorded ==
  ASSUME TelemetryTyped, Recorded, UNCHANGED <<diagnosticsVars, shutdownVars>>,
         NEW g \in Exports, NEW r \in Runs, export' = [export EXCEPT ![g] = r],
         \/ export[g].at \in Logs /\ r.at \in Logs /\ r.failed = export[g].failed
         \/ export[g].at \notin Logs /\ (r.at \in Logs => ~r.failed)
  PROVE  Recorded'
<1>1. export'[g] = r /\ \A h \in Exports : h # g => export'[h] = export[h]
  BY DEF TelemetryTyped
<1>2. /\ starting' = starting /\ UNCHANGED <<buffer, posting, fates>>
      /\ expired' = expired /\ shutdown' = shutdown
  BY DEF diagnosticsVars, initVars, bufferVars, shutdownVars
<1>3. Placing' /\ Placed' = Placed /\ InBuffer' = InBuffer
  BY <1>2, SamePlaces DEF Recorded
<1>4. export[g].at \notin Logs => g \notin Placed
  BY DEF Recorded, Told
<1> QED
  BY <1>1, <1>2, <1>3, <1>4 DEF Recorded, Told

(* So may a step that changes no export and no record's place. *)
LEMMA RestRecorded ==
  ASSUME Recorded, Placing', Placed' = Placed, InBuffer' \subseteq InBuffer,
         export' = export, expired \/ shutdown' = shutdown \/ InBuffer' = {}
                           \/ shutdown' \notin {"posting", "returned"} \/ shutdown = "posting",
         expired => expired',
         \A t \in Starters : starting[t] = "done" => starting'[t] = "done"
  PROVE  Recorded'
  BY DEF Recorded, Told

(* ... what the exports do keeps it ... *)
LEMMA RecordedTelemetry ==
  ASSUME Types, Exporting, Recorded, TelemetryNext, UNCHANGED <<diagnosticsVars, shutdownVars>>
  PROVE  Recorded'
<1>0. TelemetryTyped /\ Counting /\ Fanning
  BY DEF Types, Exporting
<1>a. UNCHANGED <<buffer, posting, fates>> /\ starting' = starting
      /\ expired' = expired /\ shutdown' = shutdown
  BY DEF diagnosticsVars, initVars, bufferVars, shutdownVars
<1>b. Placing' /\ Placed' = Placed /\ InBuffer' = InBuffer
  BY <1>a, SamePlaces DEF Recorded
<1>1. ASSUME export' = export PROVE Recorded'
  BY <1>a, <1>b, <1>1, RestRecorded
<1>2. ASSUME NEW e \in Events, NEW x \in exporters, ExportAsync(e, x) PROVE Recorded'
  <2>1. CASE waiters # 0 /\ counter = 0
    BY <1>1, <1>2, <2>1 DEF ExportAsync
  <2>2. CASE ~(waiters # 0 /\ counter = 0)
    <3> DEFINE g == <<e, x>>
               r == [export[g] EXCEPT !.at = "requesting"]
    <3>1. Goes(g, "requesting") /\ x \notin fanned[e]
      BY <1>2, <2>2 DEF ExportAsync
    <3>2. x \in Started /\ g \in Exports
      BY <1>0 DEF TelemetryTyped, Exports, Started
    <3>3. export[g].at = "none"
      BY <1>0, <3>1, <3>2 DEF Fanning
    <3> HIDE DEF g
    <3>4. r \in Runs /\ r.at = "requesting" /\ export' = [export EXCEPT ![g] = r]
      BY <1>0, <3>1, <3>2 DEF TelemetryTyped, Runs, Goes
    <3> HIDE DEF r
    <3> QED
      BY <1>0, <3>2, <3>3, <3>4, MoveRecorded DEF Logs
  <2> QED
    BY <2>1, <2>2
<1>3. ASSUME NEW g \in Exports, Request(g) PROVE Recorded'
  <2>1. PICK r \in Runs :
           /\ export' = [export EXCEPT ![g] = r] /\ export[g].at = "requesting"
           /\ r.made <= Total(g)
           /\ \/ r.at = "requesting" /\ r.made < Total(g)
              \/ r.at = "warning" /\ r.failed /\ r.made = Total(g)
              \/ r.at = "finishing" /\ r.made = Total(g) /\ ~r.failed
    BY <1>0, <1>3, RequestCases
  <2>2. export[g].at \notin Logs /\ (r.at \in Logs => ~r.failed)
    BY <2>1 DEF Logs
  <2> QED
    BY <1>0, <2>1, <2>2, MoveRecorded
<1>4. ASSUME NEW g \in Exports, Panic(g) PROVE Recorded'
  <2> DEFINE r == [export[g] EXCEPT !.at = "warning", !.failed = TRUE, !.panicked = TRUE]
  <2>1. /\ r \in Runs /\ r.at = "warning" /\ export' = [export EXCEPT ![g] = r]
        /\ export[g].at = "requesting"
    BY <1>0, <1>4 DEF Panic, TelemetryTyped, Runs
  <2> HIDE DEF r
  <2> QED
    BY <1>0, <2>1, MoveRecorded DEF Logs
<1>5. ASSUME NEW g \in Exports, Done(g) \/ DoneChecks(g) \/ DoneReleases(g) PROVE Recorded'
  <2>1. PICK at \in Logs : Goes(g, at) /\ export[g].at \in Logs
    BY <1>5 DEF Done, DoneChecks, DoneReleases, Logs
  <2> DEFINE r == [export[g] EXCEPT !.at = at]
  <2>2. /\ r \in Runs /\ r.at = at /\ r.failed = export[g].failed
        /\ export' = [export EXCEPT ![g] = r]
    BY <1>0, <2>1 DEF Goes, TelemetryTyped, Runs, Logs
  <2> HIDE DEF r
  <2> QED
    BY <1>0, <2>1, <2>2, MoveRecorded
<1>6. ASSUME NEW e \in Events, WorkerGoesOn(e) PROVE Recorded'
  BY <1>1, <1>6 DEF WorkerGoesOn
<1>7. ASSUME WaitBegins \/ WaitEnds PROVE Recorded'
  BY <1>1, <1>7 DEF WaitBegins, WaitEnds
<1> QED
  BY <1>2, <1>3, <1>4, <1>5, <1>6, <1>7 DEF TelemetryNext

(* ... and so does every other step. *)
LEMMA RecordedNext ==
  Types /\ Exporting /\ Timely /\ Opened /\ Recorded /\ [OutboundNext]_outboundVars => Recorded'
<1> SUFFICES ASSUME Types, Exporting, Timely, Opened, Recorded, [OutboundNext]_outboundVars
             PROVE  Recorded'
  OBVIOUS
<1>0. DiagnosticsTyped /\ TelemetryTyped /\ Placing /\ Told
  BY DEF Types, Recorded
<1>1. ASSUME UNCHANGED diagnosticsVars
      PROVE  /\ Placing' /\ Placed' = Placed /\ InBuffer' = InBuffer /\ starting' = starting
  <2>1. UNCHANGED <<buffer, posting, fates>> /\ starting' = starting
    BY <1>1 DEF diagnosticsVars, initVars, bufferVars
  <2> QED
    BY <1>0, <2>1, SamePlaces
<1>2. ASSUME NEW t \in Starters, InitClaim(t) \/ InitAttributes(t) \/ InitSink(t),
             UNCHANGED <<telemetryVars, shutdownVars>>
      PROVE  Recorded'
  <2>1. /\ UNCHANGED <<buffer, posting, fates, export, expired, shutdown>>
        /\ \A u \in Starters : starting[u] = "done" => starting'[u] = "done"
    BY <1>0, <1>2 DEF InitClaim, InitAttributes, InitSink, bufferVars, telemetryVars, shutdownVars,
         DiagnosticsTyped
  <2>2. Placing' /\ Placed' = Placed /\ InBuffer' = InBuffer
    BY <1>0, <2>1, SamePlaces
  <2> QED
    BY <2>1, <2>2, RestRecorded
<1>3. ASSUME NEW t \in Starters, Beacon(t), UNCHANGED <<telemetryVars, shutdownVars>>
      PROVE  Recorded'
  <2>1. /\ starting[t] = "beacon" /\ starting' = [starting EXCEPT ![t] = "done"] /\ Capture(t)
        /\ posting' = posting /\ posted' = posted /\ t \in Logged /\ t \notin Exports
        /\ export' = export /\ expired' = expired /\ shutdown' = shutdown
    BY <1>3, CallersAssumption DEF Beacon, Logged, telemetryVars, shutdownVars
  <2>2. t \notin Placed
    BY <1>0, <2>1 DEF Told
  <2>3. Placing' /\ Placed' = Placed \cup {t} /\ InBuffer' \subseteq InBuffer \cup {t}
    BY <1>0, <2>1, <2>2, CapturePlaces
  <2>4. \A u \in Starters : u = t \/ starting[u] = "done" => starting'[u] = "done"
    BY <1>0, <2>1 DEF DiagnosticsTyped
  <2> QED
    BY <1>0, <2>1, <2>3, <2>4 DEF Recorded, Told
<1>4. ASSUME NEW t \in Starters, Arm(t), UNCHANGED <<telemetryVars, shutdownVars>>
      PROVE  Recorded'
  <2>1. UNCHANGED <<buffer, posting, fates, export, expired, shutdown, starting>>
    BY <1>4 DEF Arm, initVars, telemetryVars, shutdownVars
  <2>2. Placing' /\ Placed' = Placed /\ InBuffer' = InBuffer
    BY <1>0, <2>1, SamePlaces
  <2> QED
    BY <2>1, <2>2, RestRecorded
<1>5. ASSUME TimerFires, UNCHANGED <<telemetryVars, shutdownVars>> PROVE Recorded'
  <2>1. TakeBuffer("timer") /\ UNCHANGED <<export, expired, shutdown, starting>>
    BY <1>5 DEF TimerFires, TakeBuffer, initVars, telemetryVars, shutdownVars
  <2>2. Placing' /\ Placed' = Placed /\ InBuffer' = {}
    BY <1>0, <2>1, TakePlaces
  <2> QED
    BY <2>1, <2>2, RestRecorded
<1>6. ASSUME NEW b \in posting, Post(b), UNCHANGED <<telemetryVars, shutdownVars>>
      PROVE  Recorded'
  <2>1. UNCHANGED <<export, expired, shutdown, starting>>
    BY <1>6 DEF Post, initVars, telemetryVars, shutdownVars
  <2>2. Placing' /\ Placed' = Placed /\ InBuffer' = InBuffer
    BY <1>0, <1>6, PostPlaces
  <2> QED
    BY <2>1, <2>2, RestRecorded
<1>7. ASSUME DiagnosticsNext, UNCHANGED <<telemetryVars, shutdownVars>> PROVE Recorded'
  BY <1>2, <1>3, <1>4, <1>5, <1>6, <1>7 DEF DiagnosticsNext
<1>8. ASSUME NEW g \in Exports, Warn(g) PROVE Recorded'
  <2>1. PICK at \in Logs : Goes(g, at)
    BY <1>8 DEF Warn, Logs
  <2>2. /\ export[g].at = "warning" /\ Capture(g) /\ posting' = posting /\ posted' = posted
        /\ starting' = starting /\ expired' = expired /\ shutdown' = shutdown /\ g \in Logged
    BY <1>8 DEF Warn, Log, initVars, shutdownVars, Logged
  <2>3. g \notin Placed
    BY <1>0, <2>2 DEF Told, Logs
  <2>4. Placing' /\ Placed' = Placed \cup {g} /\ InBuffer' \subseteq InBuffer \cup {g}
    BY <1>0, <2>2, <2>3, CapturePlaces
  <2>5. g \in Active
    BY <2>2 DEF Active, Running
  <2>6. shutdown \in {"posting", "returned"} => expired
    BY <2>5 DEF Timely, Clocked, InTime
  <2>7. export'[g].at = at /\ \A h \in Exports : h # g => export'[h] = export[h]
    BY <1>0, <2>1 DEF Goes, TelemetryTyped, Runs
  <2>8. \A t \in Starters : t # g
    BY CallersAssumption
  <2> QED
    BY <1>0, <2>1, <2>2, <2>4, <2>6, <2>7, <2>8 DEF Recorded, Told
<1>9. ASSUME NEW g \in Exports, Warned(g) PROVE Recorded'
  <2>1. /\ Goes(g, "finishing") /\ export[g].at = "arming"
        /\ UNCHANGED <<buffer, posting, fates, starting, expired, shutdown>>
    BY <1>9 DEF Warned, Arm, Exporting, Armed, initVars, shutdownVars
  <2>2. Placing' /\ Placed' = Placed /\ InBuffer' = InBuffer
    BY <1>0, <2>1, SamePlaces
  <2>3. /\ export'[g].at = "finishing" /\ export'[g].failed = export[g].failed
        /\ \A h \in Exports : h # g => export'[h] = export[h]
    BY <1>0, <2>1 DEF Goes, TelemetryTyped, Runs
  <2> QED
    BY <1>0, <2>1, <2>2, <2>3 DEF Recorded, Told, Logs
<1>10. ASSUME BeginShutdown \/ Expire \/ ReturnFromWait \/ Return PROVE Recorded'
  <2>1. /\ UNCHANGED diagnosticsVars /\ export' = export /\ (expired => expired')
        /\ shutdown' = shutdown \/ shutdown' \notin {"posting", "returned"} \/ shutdown = "posting"
    BY <1>10 DEF BeginShutdown, Expire, ReturnFromWait, Return, telemetryVars
  <2> QED
    BY <1>1, <2>1, RestRecorded
<1>11. ASSUME WaitForExports PROVE Recorded'
  <2>1. /\ UNCHANGED diagnosticsVars /\ export' = export /\ expired' = expired
        /\ shutdown' = "waiting"
    BY <1>11 DEF WaitForExports, Proceed
  <2> QED
    BY <1>1, <2>1, RestRecorded
<1>12. ASSUME ShutdownFlush PROVE Recorded'
  <2>1. TakeBuffer("shutdown") /\ UNCHANGED <<export, expired, starting>>
    BY <1>12 DEF ShutdownFlush, TakeBuffer, initVars, telemetryVars
  <2>2. Placing' /\ Placed' = Placed /\ InBuffer' = {}
    BY <1>0, <2>1, TakePlaces
  <2> QED
    BY <2>1, <2>2, RestRecorded
<1>13. ASSUME UNCHANGED outboundVars PROVE Recorded'
  <2>1. UNCHANGED diagnosticsVars /\ UNCHANGED <<export, expired, shutdown>>
    BY <1>13 DEF outboundVars, telemetryVars, shutdownVars
  <2> QED
    BY <1>1, <2>1, RestRecorded
<1> QED
  BY <1>7, <1>8, <1>9, <1>10, <1>11, <1>12, <1>13, RecordedTelemetry DEF OutboundNext

(* ---------------------- The invariant and its theorems ---------------------- *)

OutboundInv == Types /\ Exporting /\ Timely /\ Opened /\ Recorded

(* The invariant all the following theorems rest on. *)
THEOREM OutboundInvariant == OutboundSpec => []OutboundInv
<1>1. OutboundInit => OutboundInv
  BY TypesInit, ExportingInit, TimelyInit, OpenedInit, RecordedInit DEF OutboundInv
<1>2. OutboundInv /\ [OutboundNext]_outboundVars => OutboundInv'
  BY TypesNext, ExportingNext, TimelyNext, OpenedNext, RecordedNext DEF OutboundInv
<1> QED
  BY <1>1, <1>2, PTL DEF OutboundSpec

(* Every variable has its type: the batches, the counter and the goroutines   *)
(* of the exports are what the code's declarations say.                       *)
THEOREM OutboundTypeCorrect == OutboundSpec => []OutboundTypeOK
<1>1. OutboundInv => OutboundTypeOK
  <2> SUFFICES ASSUME OutboundInv PROVE OutboundTypeOK
    OBVIOUS
  <2>0. DiagnosticsTyped /\ TelemetryTyped /\ ShutdownTyped /\ Counting /\ Clocked
    BY DEF OutboundInv, Types, Exporting, Timely
  <2>1. <<initialized, enabled, attributes, sink, flushPending>> \in BOOLEAN \X BOOLEAN
          \X BOOLEAN \X BOOLEAN \X BOOLEAN
    BY <2>0 DEF DiagnosticsTyped
  <2>2. InBuffer \subseteq Logged
    BY <2>0 DEF DiagnosticsTyped, InBuffer, ToSet
  <2>3. \A b \in posting : b.by \in {"timer", "shutdown"} /\ ToSet(b.records) \subseteq Logged
    BY <2>0 DEF DiagnosticsTyped, Batches, ToSet
  <2>4. waiters \in 0..1
    BY <2>0 DEF Clocked
  <2>5. \A g \in Exports :
          /\ export[g].at \in {"none", "requesting", "warning", "arming", "finishing",
                               "checking", "releasing", "ended"}
          /\ export[g].made \in 0..Len(Requests(g[2], g[1]))
          /\ export[g].failed \in BOOLEAN /\ export[g].panicked \in BOOLEAN
    BY <2>0, SomeRequests DEF TelemetryTyped, Runs, Counting, Total
  <2>6. {crashed, expired, late} \subseteq BOOLEAN
    BY <2>0 DEF TelemetryTyped, ShutdownTyped
  <2>7. posted \cup overflowed \cup unheard \subseteq Logged
    BY <2>0 DEF DiagnosticsTyped
  <2> QED
    BY <2>0, <2>1, <2>2, <2>3, <2>4, <2>5, <2>6, <2>7
       DEF OutboundTypeOK, DiagnosticsTyped, TelemetryTyped, ShutdownTyped
<1> QED
  BY <1>1, OutboundInvariant, PTL

(* A record that was logged is in one place, and what is in the buffer has a  *)
(* timer to come, for any callers, exports and size of the buffer.            *)
THEOREM RecordsAlwaysLeave == OutboundSpec => []RecordsLeave
<1>1. OutboundInv => RecordsLeave
  <2> SUFFICES ASSUME OutboundInv PROVE RecordsLeave
    OBVIOUS
  <2>0. Opened /\ Placing
    BY DEF OutboundInv, Recorded
  <2>1. /\ buffer # <<>> => flushPending /\ (arming # {} \/ timers > 0)
        /\ \A b \in posting : b.attributed
    BY <2>0 DEF Opened
  <2>2. /\ Len(buffer) = Cardinality(InBuffer)
        /\ \A b, c \in posting : b # c => ToSet(b.records) \cap ToSet(c.records) = {}
    BY <2>0 DEF Placing
  <2> DEFINE places == <<InBuffer, InBatches, posted, overflowed, unheard>>
  <2>3. \A i, j \in 1..5 : i < j => places[i] \cap places[j] = {}
    <3>1. /\ places[1] = InBuffer /\ places[2] = InBatches /\ places[3] = posted
          /\ places[4] = overflowed /\ places[5] = unheard
      OBVIOUS
    <3> HIDE DEF places
    <3> SUFFICES ASSUME NEW i \in 1..5, NEW j \in 1..5, i < j
                 PROVE  places[i] \cap places[j] = {}
      OBVIOUS
    <3>2. CASE i = 1
      <4>1. j = 2 \/ j = 3 \/ j = 4 \/ j = 5
        BY <3>2
      <4> QED
        BY <2>0, <3>1, <3>2, <4>1 DEF Placing
    <3>3. CASE i = 2
      <4>1. j = 3 \/ j = 4 \/ j = 5
        BY <3>3
      <4> QED
        BY <2>0, <3>1, <3>3, <4>1 DEF Placing
    <3>4. CASE i = 3
      <4>1. j = 4 \/ j = 5
        BY <3>4
      <4> QED
        BY <2>0, <3>1, <3>4, <4>1 DEF Placing
    <3>5. CASE i = 4
      <4>1. j = 5
        BY <3>5
      <4> QED
        BY <2>0, <3>1, <3>5, <4>1 DEF Placing
    <3>6. i = 1 \/ i = 2 \/ i = 3 \/ i = 4
      OBVIOUS
    <3> QED
      BY <3>2, <3>3, <3>4, <3>5, <3>6
  <2> QED
    BY <2>1, <2>2, <2>3 DEF RecordsLeave
<1> QED
  BY <1>1, OutboundInvariant, PTL

(* A Shutdown in time leaves no export unfinished, with a request not made    *)
(* but for a panic, and no warning in the buffer (mcpcat.go Shutdown).        *)
THEOREM WarningsAlwaysTaken == OutboundSpec => []ShutdownTakesWarnings
<1>1. OutboundInv => ShutdownTakesWarnings
  <2> SUFFICES ASSUME OutboundInv, shutdown \in {"posting", "returned"}, ~expired
               PROVE  /\ WorkersDone
                      /\ \A e \in Events : \A x \in fanned[e] :
                           LET run == export[<<e, x>>] IN
                           /\ run.at = "ended"
                           /\ run.panicked \/ run.made = Len(Requests(x, e))
                           /\ run.failed =>
                                <<e, x>> \in InBatches \cup posted \cup overflowed \cup unheard
    BY DEF ShutdownTakesWarnings
  <2>0. TelemetryTyped /\ Fanning /\ Counting /\ Clocked /\ Told
    BY DEF OutboundInv, Types, Exporting, Timely, Recorded
  <2>1. InTime
    BY DEF OutboundInv, Timely, Clocked
  <2>2. WorkersDone /\ Active = {} /\ Checkers = {}
    BY <2>1 DEF InTime
  <2>3. ASSUME NEW e \in Events, NEW x \in fanned[e]
        PROVE  /\ export[<<e, x>>].at = "ended"
               /\ export[<<e, x>>].panicked \/ export[<<e, x>>].made = Len(Requests(x, e))
               /\ export[<<e, x>>].failed =>
                    <<e, x>> \in InBatches \cup posted \cup overflowed \cup unheard
    <3> DEFINE g == <<e, x>>
    <3>1. x \in Started /\ g \in Exports
      BY <2>0 DEF TelemetryTyped, Exports, Started
    <3>2. export[g].at # "none" /\ Total(g) = Len(Requests(x, e))
      BY <2>0, <3>1 DEF Fanning, Total
    <3> HIDE DEF g
    <3>3. export[g].at = "ended"
      BY <2>0, <2>2, <3>1, <3>2 DEF TelemetryTyped, Runs, Active, Checkers, Running
    <3>4. export[g].panicked \/ export[g].made = Total(g)
      BY <2>0, <3>1, <3>3 DEF Counting
    <3>5. export[g].failed => g \in Placed /\ g \notin InBuffer
      BY <2>0, <3>1, <3>3 DEF Told, Logs
    <3> QED
      BY <3>2, <3>3, <3>4, <3>5 DEF Placed, g
  <2> QED
    BY <2>2, <2>3
<1> QED
  BY <1>1, OutboundInvariant, PTL

(* The process dies of the WaitGroup only when a worker was still exporting   *)
(* after the deadline.                                                        *)
THEOREM CrashAlwaysPastDeadline == OutboundSpec => []CrashOnlyPastDeadline
<1>1. OutboundInv => CrashOnlyPastDeadline
  BY DEF OutboundInv, Timely, Clocked, InTime, CrashOnlyPastDeadline
<1> QED
  BY <1>1, OutboundInvariant, PTL
=============================================================================
