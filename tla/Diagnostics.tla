------------------------------ MODULE Diagnostics ------------------------------
(***************************************************************************)
(* The SDK's log of its own working, teed into a bounded buffer and sent in *)
(* batches: by a timer that the first record of a batch arms, and by        *)
(* Shutdown.  Each caller logs one record, which bears the caller's name;   *)
(* debug entries never get as far and are left out.                         *)
(***************************************************************************)
EXTENDS Naturals, Sequences, SequencesExt

CONSTANTS
  Starters,  \* calls of Track, each of which begins with InitDiagnostics
  MaxBuffer  \* maxBuffer

ASSUME MaxBufferAssumption == MaxBuffer \in Nat \ {0}

VARIABLES
  starting,    \* where each InitDiagnostics stands
  initialized, \* as in diagnostics.go
  enabled,
  attributes,  \* staticAttrs and recordVersionAttrs are built
  sink,        \* diagSink is capture
  buffer,
  flushPending,
  arming,      \* callers between the critical section of capture and AfterFunc
  timers,      \* timers of AfterFunc that have not fired
  posting,     \* batches on their way, with whether they bear attributes
  posted, overflowed, unheard  \* what became of the other records

fates == <<posted, overflowed, unheard>>
initVars == <<starting, initialized, enabled, attributes, sink>>
bufferVars == <<buffer, flushPending, arming, timers>>
diagnosticsVars == <<initVars, bufferVars, posting, fates>>

DiagnosticsInit ==
  /\ starting = [t \in Starters |-> "claim"]
  /\ initialized = FALSE /\ enabled = FALSE /\ attributes = FALSE /\ sink = FALSE
  /\ buffer = <<>> /\ flushPending = FALSE /\ arming = {} /\ timers = 0
  /\ posting = {} /\ posted = {} /\ overflowed = {} /\ unheard = {}

(* Init: the first call wins; it may find diagnostics disabled by the option *)
(* or by the environment.                                                    *)
InitClaim(t) ==
  /\ starting[t] = "claim"
  /\ IF initialized
     THEN /\ starting' = [starting EXCEPT ![t] = "beacon"]
          /\ UNCHANGED <<initialized, enabled>>
     ELSE /\ initialized' = TRUE
          /\ enabled' \in BOOLEAN
          /\ starting' = [starting EXCEPT ![t] = IF enabled' THEN "attributes" ELSE "beacon"]
  /\ UNCHANGED <<attributes, sink, bufferVars, posting, fates>>

InitAttributes(t) ==
  /\ starting[t] = "attributes"
  /\ attributes' = TRUE
  /\ starting' = [starting EXCEPT ![t] = "sink"]
  /\ UNCHANGED <<initialized, enabled, sink, bufferVars, posting, fates>>

InitSink(t) ==
  /\ starting[t] = "sink"
  /\ sink' = TRUE
  /\ starting' = [starting EXCEPT ![t] = "beacon"]
  /\ UNCHANGED <<initialized, enabled, attributes, bufferVars, posting, fates>>

(* emit and capture.  The sink is never cleared once set, so reading it and *)
(* the critical section of capture are one step.                            *)
Capture(c) ==
  IF ~sink \/ ~enabled
  THEN unheard' = unheard \cup {c} /\ UNCHANGED <<bufferVars, overflowed>>
  ELSE LET full == Len(buffer) >= MaxBuffer IN
       /\ buffer' = Append(IF full THEN Tail(buffer) ELSE buffer, c)
       /\ overflowed' = overflowed \cup (IF full THEN {Head(buffer)} ELSE {})
       /\ flushPending' = TRUE
       /\ arming' = arming \cup (IF flushPending THEN {} ELSE {c})
       /\ UNCHANGED <<timers, unheard>>

Log(c) == Capture(c) /\ UNCHANGED <<initVars, posting, posted>>

(* The beacon that follows Init. *)
Beacon(t) ==
  /\ starting[t] = "beacon"
  /\ starting' = [starting EXCEPT ![t] = "done"]
  /\ Capture(t)
  /\ UNCHANGED <<initialized, enabled, attributes, sink, posting, posted>>

(* The end of capture: outside the lock, the one that found no flush pending *)
(* starts the timer.                                                         *)
Arm(c) ==
  /\ c \in arming
  /\ arming' = arming \ {c} /\ timers' = timers + 1
  /\ UNCHANGED <<initVars, buffer, flushPending, posting, fates>>

Batch(by) == [by |-> by, records |-> buffer, attributed |-> attributes]

(* Fault: the flag stays up. *)
TakeBufferStillPending(by) ==
  /\ flushPending' = flushPending /\ UNCHANGED arming
  /\ IF ~enabled \/ buffer = <<>> THEN UNCHANGED <<buffer, posting>>
     ELSE buffer' = <<>> /\ posting' = posting \cup {Batch(by)}
  /\ UNCHANGED <<initVars, fates>>

(* Flush, its critical section. *)
TakeBuffer(by) ==
  /\ flushPending' = FALSE /\ UNCHANGED arming
  /\ IF ~enabled \/ buffer = <<>> THEN UNCHANGED <<buffer, posting>>
     ELSE buffer' = <<>> /\ posting' = posting \cup {Batch(by)}
  /\ UNCHANGED <<initVars, fates>>

TimerFires ==
  /\ timers > 0 /\ timers' = timers - 1
  /\ TakeBuffer("timer")

(* Flush, its request: whether it failed is not looked at. *)
Post(b) ==
  /\ b \in posting /\ posting' = posting \ {b}
  /\ posted' = posted \cup ToSet(b.records)
  /\ UNCHANGED <<initVars, bufferVars, overflowed, unheard>>

DiagnosticsNext ==
  \/ \E t \in Starters : InitClaim(t) \/ InitAttributes(t) \/ InitSink(t) \/ Beacon(t)
  \/ \E t \in Starters : Arm(t)
  \/ TimerFires
  \/ \E b \in posting : Post(b)
=============================================================================
