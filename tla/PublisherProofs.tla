---------------------------- MODULE PublisherProofs ----------------------------
(***************************************************************************)
(* The safety of the publisher, for every value of the constants.  IInv is *)
(* inductive: one lemma per group of actions, under each one step per      *)
(* conjunct of IInv.                                                       *)
(***************************************************************************)
EXTENDS PublisherProps, TLAPS

USE PublisherAssumption

(* The channel is open and empty, and nobody has begun. *)
LEMMA InitIInv == Init => IInv
<1> SUFFICES ASSUME Init PROVE IInv
  OBVIOUS
<1> USE DEF Init
<1>1. TypeOK
  <2>1. queue \in Seq(Events) /\ inflight \in SUBSET Exports
    OBVIOUS
  <2>2. attempt \in [Workers -> 0 .. MaxRetries]
    OBVIOUS
  <2>3. fate \in [Events -> Fates] /\ stages \in [Events -> SUBSET Stages]
    BY DEF Fates
  <2>4. QED
    BY <2>1, <2>2, <2>3 DEF TypeOK, PubPcs, WorkPcs, ClosePcs
<1>2. CallStates /\ WorkerStates /\ ShutdownStates /\ ExportsAwaited
  BY DEF CallStates, WorkerStates, ShutdownStates, InBody, ExportsAwaited
<1>3. Accounting
  BY DEF Accounting, InChannel, InHand
<1>4. PipelineStates
  BY DEF PipelineStates, RedactedBeforeLeaving, Leaving
<1>5. QED
  BY <1>1, <1>2, <1>3, <1>4 DEF IInv

-----------------------------------------------------------------------------
(* Publish: the mutex makes the check of p.closed still hold at the send. *)

LEMMA PublishCallStep ==
  ASSUME IInv, NEW p \in Producers, NEW e \in Events, PublishCall(p, e)
  PROVE  IInv'
<1> USE DEF PublishCall, pubVars, workVars, closeVars, teleVars
<1>1. TypeOK'
  BY DEF IInv, TypeOK, PubPcs, Fates
<1>2. CallStates'
  BY DEF IInv, TypeOK, CallStates
<1>3. WorkerStates' /\ ShutdownStates' /\ ExportsAwaited'
  BY DEF IInv, TypeOK, WorkerStates, ShutdownStates, InBody, AllExited,
         ExportsAwaited
<1>4. Accounting'
  <2>1. InChannel' = InChannel /\ InHand' = InHand
    BY DEF InChannel, InHand
  <2>2. QED
    BY <2>1 DEF IInv, TypeOK, Accounting
<1>5. PipelineStates'
  BY DEF IInv, TypeOK, PipelineStates, RedactedBeforeLeaving, Leaving,
         StagesAt
<1>6. QED
  BY <1>1, <1>2, <1>3, <1>4, <1>5 DEF IInv

(* The indices of a sequence that grew by one element. *)
LEMMA UpToNext ==
  ASSUME NEW n \in Nat, NEW i \in 1 .. n + 1
  PROVE  i \in 1 .. n \/ i = n + 1
  OBVIOUS

(* The four steps of Publish, from the mutex to the send. *)
LEMMA PublishStepStep ==
  ASSUME IInv, NEW p \in Producers, PublishStep(p)
  PROVE  IInv'
<1> USE DEF pubVars, workVars, closeVars, teleVars
<1>0. offer[p] \in Events /\ fate[offer[p]] = "offered"
  BY DEF IInv, TypeOK, CallStates, PublishStep, PublishLock, PublishOpen,
         PublishSend, PublishReject
<1>1. CASE PublishLock(p) \/ PublishOpen(p)
  <2> USE <1>1 DEF PublishLock, PublishOpen, PublishGoto
  <2>1. TypeOK'
    BY DEF IInv, TypeOK, PubPcs
  <2>2. CallStates'
    BY DEF IInv, TypeOK, CallStates
  <2>3. WorkerStates' /\ ShutdownStates' /\ ExportsAwaited'
    BY DEF IInv, TypeOK, WorkerStates, ShutdownStates, InBody, AllExited,
           ExportsAwaited
  <2>4. Accounting' /\ PipelineStates'
    <3>1. InChannel' = InChannel /\ InHand' = InHand
      BY DEF InChannel, InHand
    <3>2. Accounting'
      BY <3>1 DEF IInv, Accounting
    <3>3. PipelineStates'
      BY DEF IInv, PipelineStates, RedactedBeforeLeaving, Leaving, StagesAt
    <3>4. QED
      BY <3>2, <3>3
  <2>5. QED
    BY <2>1, <2>2, <2>3, <2>4 DEF IInv
<1>2. CASE PublishReject(p)
  <2> USE <1>2 DEF PublishReject, PublishReturn
  <2>1. TypeOK'
    BY DEF IInv, TypeOK, PubPcs, Fates
  <2>2. CallStates'
    BY <1>0 DEF IInv, TypeOK, CallStates
  <2>3. WorkerStates' /\ ShutdownStates' /\ ExportsAwaited'
    BY DEF IInv, TypeOK, WorkerStates, ShutdownStates, InBody, AllExited,
           ExportsAwaited
  <2>4. Accounting'
    <3>1. InChannel' = InChannel /\ InHand' = InHand
      BY DEF InChannel, InHand
    <3>2. QED
      BY <1>0, <3>1 DEF IInv, TypeOK, Accounting
  <2>5. PipelineStates'
    BY <1>0 DEF IInv, TypeOK, PipelineStates, RedactedBeforeLeaving, Leaving,
           StagesAt
  <2>6. QED
    BY <2>1, <2>2, <2>3, <2>4, <2>5 DEF IInv
<1>3. CASE PublishSend(p)
  <2> USE <1>3 DEF PublishSend, PublishReturn
  <2>0. /\ queue' \in Seq(Events) /\ Len(queue') = Len(queue) + 1
        /\ \A i \in 1 .. Len(queue) : queue'[i] = queue[i]
        /\ queue'[Len(queue) + 1] = offer[p]
        /\ Len(queue) \in Nat
    BY <1>0 DEF IInv, TypeOK
  <2>1. TypeOK'
    BY <2>0 DEF IInv, TypeOK, PubPcs, Fates
  <2>2. CallStates'
    BY <1>0 DEF IInv, TypeOK, CallStates
  <2>3. WorkerStates' /\ ShutdownStates' /\ ExportsAwaited'
    BY DEF IInv, TypeOK, CallStates, WorkerStates, ShutdownStates, InBody,
           AllExited, ExportsAwaited
  <2>4. Accounting'
    <3>1. offer[p] \notin InChannel \cup InHand
      BY <1>0 DEF IInv, Accounting
    <3>2. InChannel' = InChannel \cup {offer[p]}
      BY <2>0 DEF InChannel
    <3>3. InHand' = InHand
      BY DEF InHand
    <3>4. \A i \in 1 .. Len(queue) : queue[i] # offer[p]
      BY <3>1 DEF InChannel
    <3>5. \A i, j \in 1 .. Len(queue') : queue'[i] = queue'[j] => i = j
      BY <2>0, <3>4 DEF IInv, Accounting
    <3>6. \A e \in Events : fate'[e] = "accepted"
                             <=> fate[e] = "accepted" \/ e = offer[p]
      BY <1>0 DEF IInv, TypeOK
    <3>7. QED
      BY <3>1, <3>2, <3>3, <3>5, <3>6 DEF IInv, Accounting
  <2>5. PipelineStates'
    <3>1. \A e \in Events : fate'[e] \in {"new", "offered"} => stages[e] = {}
      BY <1>0 DEF IInv, TypeOK, PipelineStates
    <3>2. ASSUME NEW i \in 1 .. Len(queue') PROVE stages[queue'[i]] = {}
      <4>1. CASE i \in 1 .. Len(queue)
        BY <4>1, <2>0 DEF IInv, PipelineStates
      <4>2. CASE i = Len(queue) + 1
        BY <4>2, <1>0, <2>0 DEF IInv, PipelineStates
      <4>3. i \in 1 .. Len(queue) + 1
        BY <2>0
      <4>4. i \in 1 .. Len(queue) \/ i = Len(queue) + 1
        BY <2>0, <4>3, UpToNext
      <4>5. QED
        BY <4>1, <4>2, <4>4
    <3>3. \A w \in Workers : work[w] # None => StagesAt(w, stages[work[w]])'
      BY DEF IInv, PipelineStates, StagesAt
    <3>4. ASSUME NEW e \in Events, Leaving(e)' PROVE Leaving(e)
      BY <1>0, <3>4 DEF IInv, TypeOK, Leaving
    <3>5. RedactedBeforeLeaving'
      BY <3>4 DEF IInv, PipelineStates, RedactedBeforeLeaving
    <3>6. QED
      BY <3>1, <3>2, <3>3, <3>5 DEF PipelineStates
  <2>6. QED
    BY <2>1, <2>2, <2>3, <2>4, <2>5 DEF IInv
<1>4. QED
  BY <1>1, <1>2, <1>3 DEF PublishStep

-----------------------------------------------------------------------------
(* Workers. *)

Busy == WorkPcs \ {"receive", "exited"}

(* A worker that has an event holds an accepted one, and no drain can have *)
(* been reported meanwhile.                                                *)
LEMMA BusyWorker ==
  ASSUME IInv, NEW w \in Workers, workPc[w] \in Busy
  PROVE  /\ work[w] \in Events /\ fate[work[w]] = "accepted"
         /\ verdict # "drained" /\ (once = "done" => expired)
<1>1. work[w] \in Events
  BY DEF IInv, TypeOK, WorkerStates, Busy
<1>2. work[w] \in InHand
  BY <1>1 DEF InHand
<1>3. fate[work[w]] = "accepted"
  BY <1>1, <1>2 DEF IInv, Accounting
<1>4. verdict # "drained"
  BY DEF IInv, ShutdownStates, AllExited, Busy
<1>5. QED
  BY <1>1, <1>3, <1>4 DEF IInv, TypeOK, ShutdownStates

(* A worker takes the first event of the channel. *)
LEMMA ReceiveStep ==
  ASSUME IInv, NEW w \in Workers, Receive(w)
  PROVE  IInv'
<1> USE DEF Receive, WorkerGoto, pubVars, closeVars
<1>0. /\ queue \in Seq(Events) /\ Len(queue) \in Nat \ {0}
      /\ Head(queue) = queue[1] /\ Head(queue) \in Events
      /\ queue' \in Seq(Events) /\ Len(queue') = Len(queue) - 1
      /\ \A i \in 1 .. Len(queue') : queue'[i] = queue[i + 1]
  BY DEF IInv, TypeOK
<1>1. TypeOK'
  BY <1>0 DEF IInv, TypeOK, WorkPcs
<1>2. CallStates'
  BY DEF IInv, CallStates
<1>3. WorkerStates'
  BY <1>0 DEF IInv, TypeOK, WorkerStates
<1>4. verdict # "drained"
  BY DEF IInv, ShutdownStates, AllExited
<1>5. ShutdownStates' /\ ExportsAwaited'
  BY <1>4 DEF IInv, TypeOK, ShutdownStates, InBody, AllExited, ExportsAwaited
<1>6. Accounting'
  <2>1. Head(queue) \in InChannel /\ Head(queue) \notin InHand
    BY <1>0 DEF IInv, Accounting, InChannel
  <2>2. InChannel' = InChannel \ {Head(queue)}
    <3>1. \A i \in 1 .. Len(queue) : queue[i] = Head(queue) => i = 1
      BY <1>0 DEF IInv, Accounting
    <3>2. \A i \in 1 .. Len(queue') : i + 1 \in 1 .. Len(queue)
      BY <1>0
    <3>3. InChannel' \subseteq InChannel \ {Head(queue)}
      BY <1>0, <3>1, <3>2 DEF InChannel
    <3>4. ASSUME NEW i \in 1 .. Len(queue), queue[i] # Head(queue)
          PROVE  queue[i] \in InChannel'
      <4>1. i - 1 \in 1 .. Len(queue') /\ queue'[i - 1] = queue[i]
        BY <1>0, <3>4
      <4>2. QED
        BY <4>1 DEF InChannel
    <3>5. QED
      BY <3>3, <3>4 DEF InChannel
  <2>3. InHand' = InHand \cup {Head(queue)}
    <3>1. work[w] = None
      BY DEF IInv, WorkerStates
    <3>2. QED
      BY <1>0, <3>1 DEF InHand, IInv, TypeOK
  <2>4. \A i, j \in 1 .. Len(queue') : queue'[i] = queue'[j] => i = j
    BY <1>0 DEF IInv, Accounting
  <2>5. \A u, v \in Workers : work'[u] = work'[v] /\ work'[u] # None => u = v
    BY <2>1 DEF IInv, TypeOK, Accounting, InHand
  <2>6. QED
    BY <2>1, <2>2, <2>3, <2>4, <2>5 DEF IInv, Accounting
<1>7. PipelineStates'
  <2>1. \A i \in 1 .. Len(queue') : stages'[queue'[i]] = {}
    BY <1>0 DEF IInv, PipelineStates
  <2>2. \A v \in Workers : work'[v] # None => StagesAt(v, stages[work[v]])'
    BY <1>0 DEF IInv, TypeOK, PipelineStates, StagesAt
  <2>3. ASSUME NEW e \in Events, Leaving(e)' PROVE Leaving(e)
    BY <2>3 DEF Leaving, IInv, TypeOK
  <2>4. QED
    BY <2>1, <2>2, <2>3 DEF IInv, PipelineStates, RedactedBeforeLeaving
<1>8. QED
  BY <1>1, <1>2, <1>3, <1>5, <1>6, <1>7 DEF IInv

(* A worker leaves only when the channel is closed and empty. *)
LEMMA WorkerExitStep ==
  ASSUME IInv, NEW w \in Workers, WorkerExit(w)
  PROVE  IInv'
<1> USE DEF WorkerExit, WorkerGoto, pubVars, closeVars
<1>1. TypeOK'
  BY DEF IInv, TypeOK, WorkPcs
<1>2. CallStates' /\ ExportsAwaited'
  BY DEF IInv, CallStates, ExportsAwaited
<1>3. WorkerStates' /\ ShutdownStates'
  BY DEF IInv, TypeOK, WorkerStates, ShutdownStates, InBody, AllExited
<1>4. Accounting'
  <2>1. InChannel' = InChannel /\ InHand' = InHand
    BY DEF InChannel, InHand
  <2>2. QED
    BY <2>1 DEF IInv, Accounting
<1>5. PipelineStates'
  <2>1. \A v \in Workers : work'[v] # None => StagesAt(v, stages[work[v]])'
    BY DEF IInv, TypeOK, PipelineStates, StagesAt
  <2>2. ASSUME NEW e \in Events, Leaving(e)' PROVE Leaving(e)
    BY <2>2 DEF Leaving, IInv, TypeOK
  <2>3. QED
    BY <2>1, <2>2 DEF IInv, PipelineStates, RedactedBeforeLeaving
<1>6. QED
  BY <1>1, <1>2, <1>3, <1>4, <1>5 DEF IInv

(* What a worker's step may do to the exports and to the stages: start     *)
(* exports of its own fully redacted event, add stages to that event.      *)
OwnEffects(w) ==
  /\ inflight' \in SUBSET Exports /\ stages' \in [Events -> SUBSET Stages]
  /\ \A x \in inflight' \ inflight :
       x.event = work[w] /\ HooksGiven \subseteq stages[work[w]]
  /\ \A e \in Events : stages[e] \subseteq stages'[e]
  /\ \A e \in Events \ {work[w]} : stages'[e] = stages[e]

(* The worker moves on within publishEvent. *)
LEMMA WorkerMoves ==
  ASSUME IInv, NEW w \in Workers, NEW pc \in Busy, workPc[w] \in Busy,
         WorkerGoto(w, pc), UNCHANGED <<queue, work, fate>>,
         attempt' \in [Workers -> 0 .. MaxRetries],
         OwnEffects(w), StagesAt(w, stages[work[w]])'
  PROVE  IInv'
<1> USE DEF WorkerGoto, pubVars, closeVars, OwnEffects, Busy
<1>0. /\ work[w] \in Events /\ fate[work[w]] = "accepted"
      /\ verdict # "drained" /\ (once = "done" => expired)
  BY BusyWorker
<1>1. TypeOK'
  BY DEF IInv, TypeOK
<1>2. CallStates'
  BY DEF IInv, CallStates
<1>3. WorkerStates'
  BY DEF IInv, TypeOK, WorkerStates
<1>4. ShutdownStates' /\ ExportsAwaited'
  BY <1>0 DEF IInv, ShutdownStates, InBody, AllExited, ExportsAwaited
<1>5. Accounting'
  <2>1. InChannel' = InChannel /\ InHand' = InHand
    BY DEF InChannel, InHand
  <2>2. QED
    BY <2>1 DEF IInv, Accounting
<1>6. PipelineStates'
  <2>1. work[w] \notin InChannel
    BY <1>0 DEF IInv, Accounting, InHand
  <2>2. \A e \in Events : fate'[e] \in {"new", "offered"} => stages'[e] = {}
    BY <1>0 DEF IInv, PipelineStates
  <2>3. \A i \in 1 .. Len(queue') : stages'[queue'[i]] = {}
    BY <2>1 DEF IInv, TypeOK, PipelineStates, InChannel
  <2>4. ASSUME NEW v \in Workers, work'[v] # None
        PROVE  StagesAt(v, stages[work[v]])'
    <3>1. CASE v = w
      BY <3>1
    <3>2. CASE v # w
      <4>1. work[v] \in Events \ {work[w]}
        BY <3>2, <2>4, <1>0 DEF IInv, TypeOK, Accounting
      <4>2. workPc'[v] = workPc[v]
        BY <3>2 DEF IInv, TypeOK
      <4>3. stages'[work[v]] = stages[work[v]]
        BY <4>1
      <4>4. StagesAt(v, stages[work[v]])
        BY <2>4 DEF IInv, PipelineStates
      <4>5. QED
        BY <4>2, <4>3, <4>4 DEF StagesAt
    <3>3. QED
      BY <3>1, <3>2
  <2>5. RedactedBeforeLeaving'
    <3> SUFFICES ASSUME NEW e \in Events,
                        (Leaving(e) \/ stages[e] \cap {"sanitize", "truncate"} # {})'
                 PROVE  HooksGiven \subseteq stages'[e]
      BY DEF RedactedBeforeLeaving
    <3>1. CASE e = work[w]
      <4>1. CASE pc \in {"redactEvent", "redact"}
        <5>1. stages'[e] \cap {"sanitize", "truncate"} = {}
          BY <3>1, <4>1 DEF StagesAt, IInv, TypeOK
        <5>2. \A v \in Workers :
                work'[v] = e => workPc'[v] \notin {"send", "backoff"}
          BY <3>1, <4>1, <1>0 DEF IInv, TypeOK, Accounting
        <5>3. PICK x \in inflight' : x.event = e
          BY <3>1, <5>1, <5>2, <1>0 DEF Leaving
        <5>4. CASE x \in inflight
          BY <5>3, <5>4 DEF IInv, PipelineStates, RedactedBeforeLeaving,
                            Leaving
        <5>5. CASE x \notin inflight
          BY <3>1, <5>3, <5>5
        <5>6. QED
          BY <5>4, <5>5
      <4>2. CASE pc \notin {"redactEvent", "redact"}
        BY <3>1, <4>2 DEF StagesAt, IInv, TypeOK, WorkPcs
      <4>3. QED
        BY <4>1, <4>2
    <3>2. CASE e # work[w]
      BY <3>2 DEF IInv, TypeOK, PipelineStates, RedactedBeforeLeaving, Leaving
    <3>3. QED
      BY <3>1, <3>2
  <2>6. QED
    BY <2>2, <2>3, <2>4, <2>5 DEF PipelineStates
<1>7. QED
  BY <1>1, <1>2, <1>3, <1>4, <1>5, <1>6 DEF IInv

(* The worker is done with its event. *)
LEMMA WorkerSettles ==
  ASSUME IInv, NEW w \in Workers, NEW outcome \in Resolved,
         workPc[w] \in Busy, Settle(w, outcome), OwnEffects(w),
         outcome \in {"delivered", "telemetryOnly", "abandoned", "gaveUp"}
           => HooksGiven \subseteq stages[work[w]]
  PROVE  IInv'
<1> USE DEF Settle, WorkerGoto, pubVars, closeVars, OwnEffects, Busy
<1>0. /\ work[w] \in Events /\ fate[work[w]] = "accepted"
      /\ verdict # "drained" /\ (once = "done" => expired)
  BY BusyWorker
<1>1. TypeOK'
  <2>1. fate' \in [Events -> Fates]
    BY DEF IInv, TypeOK, Fates
  <2>2. /\ workPc' \in [Workers -> WorkPcs]
        /\ work' \in [Workers -> Events \cup {None}]
        /\ attempt' \in [Workers -> 0 .. MaxRetries]
    BY DEF IInv, TypeOK, WorkPcs
  <2>3. QED
    BY <2>1, <2>2 DEF IInv, TypeOK
<1>2. CallStates'
  BY <1>0 DEF IInv, TypeOK, CallStates
<1>3. WorkerStates'
  BY DEF IInv, TypeOK, WorkerStates
<1>4. ShutdownStates' /\ ExportsAwaited'
  BY <1>0 DEF IInv, ShutdownStates, InBody, AllExited, ExportsAwaited
<1>5. Accounting'
  <2>1. InChannel' = InChannel
    BY DEF InChannel
  <2>2. InHand' = InHand \ {work[w]}
    BY <1>0 DEF IInv, TypeOK, Accounting, InHand
  <2>3. work[w] \in InHand
    BY <1>0 DEF InHand
  <2>4. \A e \in Events : fate'[e] = "accepted"
                          <=> fate[e] = "accepted" /\ e # work[w]
    BY <1>0 DEF IInv, TypeOK, Resolved
  <2>5. \A u, v \in Workers : work'[u] = work'[v] /\ work'[u] # None => u = v
    BY DEF IInv, TypeOK, Accounting
  <2>6. QED
    BY <2>1, <2>2, <2>3, <2>4, <2>5 DEF IInv, Accounting
<1>6. PipelineStates'
  BY <1>0 DEF IInv, TypeOK, PipelineStates, RedactedBeforeLeaving, Leaving,
              StagesAt, Resolved
<1>7. QED
  BY <1>1, <1>2, <1>3, <1>4, <1>5, <1>6 DEF IInv

(* The steps of a worker, from the channel through the pipeline and the retries. *)
LEMMA WorkerStepStep ==
  ASSUME IInv, NEW w \in Workers, WorkerStep(w)
  PROVE  IInv'
<1> USE DEF Busy, WorkPcs, IInv, TypeOK
<1>1. CASE Receive(w) \/ WorkerExit(w)
  BY <1>1, ReceiveStep, WorkerExitStep
<1>2. CASE workPc[w] \in Busy
  <2>0. /\ work[w] \in Events /\ StagesAt(w, stages[work[w]])
        /\ stages[work[w]] \subseteq Stages
    BY <1>2, BusyWorker DEF PipelineStates, WorkerStates
  <2>1. ASSUME NEW pc \in Busy, NEW applied \in SUBSET Stages,
               Stage(w, applied, pc),
               StagesAt(w, stages[work[w]])'
        PROVE  IInv'
    <3>1. OwnEffects(w)
      BY <2>0, <2>1 DEF OwnEffects, Stage
    <3>2. QED
      BY <1>2, <2>1, <3>1, WorkerMoves DEF Stage
  <2>2. CASE ApplyEventRedaction(w)
    <3>1. StagesAt(w, stages[work[w]])'
      BY <2>0, <2>2 DEF ApplyEventRedaction, Stage, StagesAt, WorkerGoto
    <3>2. QED
      BY <2>1, <2>2, <3>1 DEF ApplyEventRedaction, Stages
  <2>3. CASE RedactEvent(w)
    <3>1. StagesAt(w, stages[work[w]])'
      BY <2>0, <2>3 DEF RedactEvent, Stage, StagesAt, WorkerGoto
    <3>2. QED
      BY <2>1, <2>3, <3>1 DEF RedactEvent, Stages
  <2>4. CASE RunStage(w, "sanitize", "truncate")
             \/ RunStage(w, "truncate", "export")
    <3>1. StagesAt(w, stages[work[w]])'
      BY <2>0, <2>4 DEF RunStage, Stage, StagesAt, WorkerGoto
    <3>2. QED
      BY <2>1, <2>4, <3>1 DEF RunStage, Stages
  <2>5. CASE ExportAsync(w)
    <3>1. OwnEffects(w) /\ StagesAt(w, stages[work[w]])'
      BY <2>0, <2>5 DEF ExportAsync, Fanout, Exports, OwnEffects, StagesAt,
                        WorkerGoto
    <3>2. QED
      BY <1>2, <2>5, <3>1, WorkerMoves DEF ExportAsync
  <2>6. CASE SendFails(w)
    <3>1. OwnEffects(w) /\ StagesAt(w, stages[work[w]])'
      BY <2>0, <2>6 DEF SendFails, OwnEffects, StagesAt, WorkerGoto
    <3>2. attempt' \in [Workers -> 0 .. MaxRetries]
      BY <2>6 DEF SendFails
    <3>3. QED
      BY <1>2, <2>6, <3>1, <3>2, WorkerMoves DEF SendFails
  <2>7. CASE BackoffElapses(w)
    <3>1. OwnEffects(w) /\ StagesAt(w, stages[work[w]])'
      BY <2>0, <2>7 DEF BackoffElapses, OwnEffects, StagesAt, WorkerGoto
    <3>2. QED
      BY <1>2, <2>7, <3>1, WorkerMoves DEF BackoffElapses
  <2>8. CASE ExportOnly(w)
    <3>1. OwnEffects(w) /\ HooksGiven \subseteq stages[work[w]]
      BY <2>0, <2>8 DEF ExportOnly, Settle, Fanout, Exports, OwnEffects,
                        StagesAt, WorkerGoto
    <3>2. QED
      BY <1>2, <2>8, <3>1, WorkerSettles DEF ExportOnly, Resolved
  <2>9. ASSUME NEW outcome \in Resolved, Settle(w, outcome),
               UNCHANGED inflight,
               outcome \in {"delivered", "abandoned", "gaveUp"}
                 => workPc[w] \in {"send", "backoff"},
               outcome # "telemetryOnly"
        PROVE  IInv'
    <3>1. OwnEffects(w)
      BY <2>0, <2>9 DEF OwnEffects, Settle
    <3>2. outcome \in {"delivered", "telemetryOnly", "abandoned", "gaveUp"}
            => HooksGiven \subseteq stages[work[w]]
      BY <2>0, <2>9 DEF StagesAt
    <3>3. QED
      BY <1>2, <2>9, <3>1, <3>2, WorkerSettles
  <2>10. CASE EventRedactionDrops(w) \/ SendSucceeds(w) \/ GiveUp(w)
              \/ AbandonRetries(w) \/ RecoverPanic(w)
    BY <2>9, <2>10 DEF EventRedactionDrops, SendSucceeds, GiveUp,
                       AbandonRetries, RecoverPanic, Resolved
  <2>11. QED
    BY <1>2, <2>2, <2>3, <2>4, <2>5, <2>6, <2>7, <2>8, <2>10
       DEF WorkerStep, Receive, WorkerExit
<1>3. QED
  BY <1>1, <1>2 DEF WorkerStep, ApplyEventRedaction, EventRedactionDrops,
       RedactEvent, RunStage, ExportAsync, ExportOnly, SendSucceeds,
       SendFails, GiveUp, BackoffElapses, AbandonRetries, RecoverPanic

-----------------------------------------------------------------------------
(* Telemetry and Shutdown leave the channel and the workers alone. *)

LEMMA QueueAndWorkersKept ==
  ASSUME IInv, UNCHANGED <<queue, workVars, fate, stages>>,
         inflight' \subseteq inflight
  PROVE  Accounting' /\ PipelineStates'
<1> USE DEF workVars
<1>1. InChannel' = InChannel /\ InHand' = InHand
  BY DEF InChannel, InHand
<1>2. Accounting'
  BY <1>1 DEF IInv, Accounting
<1>3. ASSUME NEW e \in Events, Leaving(e)' PROVE Leaving(e)
  BY <1>3 DEF Leaving
<1>4. PipelineStates'
  BY <1>3 DEF IInv, PipelineStates, RedactedBeforeLeaving, StagesAt
<1>5. QED
  BY <1>2, <1>4

(* Exports end, and managers are replaced. *)
LEMMA TelemetryStep ==
  ASSUME IInv, \/ \E x \in inflight : ExportEnds(x)
               \/ \E m \in Managers : SetTelemetryManager(m)
  PROVE  IInv'
<1> USE DEF ExportEnds, SetTelemetryManager, pubVars, workVars, closeVars
<1>1. TypeOK'
  BY DEF IInv, TypeOK
<1>2. CallStates' /\ WorkerStates'
  BY DEF IInv, CallStates, WorkerStates
<1>3. ShutdownStates' /\ ExportsAwaited'
  BY DEF IInv, ShutdownStates, InBody, AllExited, ExportsAwaited
<1>4. Accounting' /\ PipelineStates'
  BY QueueAndWorkersKept
<1>5. QED
  BY <1>1, <1>2, <1>3, <1>4 DEF IInv

(* The steps of Shutdown, from the once to its return. *)
LEMMA ShutdownStep ==
  ASSUME IInv, NEW c \in Closers, ShutdownEnter(c) \/ CloserStep(c)
  PROVE  IInv'
<1> USE DEF CloserGoto, pubVars, workVars, teleVars
<1>1. Accounting' /\ PipelineStates'
  BY QueueAndWorkersKept DEF ShutdownEnter, CloserStep, ShutdownUnblocked,
     ShutdownClose, ShutdownSignal, ShutdownDrain, ShutdownReturns
<1>2. TypeOK'
  <2>1. CASE ShutdownEnter(c)
    BY <2>1 DEF IInv, TypeOK, ClosePcs, ShutdownEnter
  <2>2. CASE ShutdownUnblocked(c)
    BY <2>2 DEF IInv, TypeOK, ClosePcs, ShutdownUnblocked
  <2>3. CASE ShutdownClose(c)
    BY <2>3 DEF IInv, TypeOK, ClosePcs, ShutdownClose
  <2>4. CASE ShutdownSignal(c)
    BY <2>4 DEF IInv, TypeOK, ClosePcs, ShutdownSignal
  <2>5. CASE ShutdownDrain(c)
    BY <2>5 DEF IInv, TypeOK, ClosePcs, ShutdownDrain
  <2>6. CASE ShutdownReturns(c)
    BY <2>6 DEF IInv, TypeOK, ClosePcs, ShutdownReturns
  <2>7. QED
    BY <2>1, <2>2, <2>3, <2>4, <2>5, <2>6 DEF CloserStep
<1>3. WorkerStates'
  BY DEF IInv, WorkerStates, ShutdownEnter, CloserStep, ShutdownUnblocked,
     ShutdownClose, ShutdownSignal, ShutdownDrain, ShutdownReturns
<1>4. CallStates'
  <2>1. CASE ShutdownClose(c)
    BY <2>1 DEF IInv, TypeOK, CallStates, ShutdownClose
  <2>2. CASE closed' = closed
    BY <2>2 DEF IInv, CallStates, ShutdownEnter, CloserStep,
       ShutdownUnblocked, ShutdownClose, ShutdownSignal, ShutdownDrain,
       ShutdownReturns
  <2>3. QED
    BY <2>1, <2>2 DEF ShutdownEnter, CloserStep, ShutdownUnblocked,
       ShutdownSignal, ShutdownDrain, ShutdownReturns
<1>5. ShutdownStates' /\ ExportsAwaited'
  <2> USE DEF IInv, TypeOK, ShutdownStates, InBody, AllExited, ExportsAwaited,
              ClosePcs
  <2>1. CASE ShutdownEnter(c)
    BY <2>1 DEF ShutdownEnter
  <2>2. CASE ShutdownUnblocked(c)
    BY <2>2 DEF ShutdownUnblocked
  <2>3. CASE ShutdownClose(c)
    BY <2>3 DEF ShutdownClose
  <2>4. CASE ShutdownSignal(c)
    BY <2>4 DEF ShutdownSignal
  <2>5. CASE ShutdownDrain(c)
    BY <2>5 DEF ShutdownDrain
  <2>6. CASE ShutdownReturns(c)
    BY <2>6 DEF ShutdownReturns
  <2>7. QED
    BY <2>1, <2>2, <2>3, <2>4, <2>5, <2>6 DEF CloserStep
<1>6. QED
  BY <1>1, <1>2, <1>3, <1>4, <1>5 DEF IInv

(* A deadline that passes, or nothing, disturbs nothing. *)
LEMMA DeadlineOrStutter ==
  ASSUME IInv, DeadlineExpires \/ UNCHANGED vars
  PROVE  IInv'
<1> USE DEF DeadlineExpires, vars, pubVars, workVars, closeVars, teleVars
<1>1. TypeOK'
  BY DEF IInv, TypeOK
<1>2. CallStates' /\ WorkerStates'
  BY DEF IInv, CallStates, WorkerStates
<1>3. ShutdownStates' /\ ExportsAwaited'
  BY DEF IInv, TypeOK, ShutdownStates, InBody, AllExited, ExportsAwaited
<1>4. Accounting' /\ PipelineStates'
  BY QueueAndWorkersKept
<1>5. QED
  BY <1>1, <1>2, <1>3, <1>4 DEF IInv

-----------------------------------------------------------------------------
(* IInv is inductive. *)
THEOREM Inductive == Spec => []IInv
<1>1. IInv /\ [Next]_vars => IInv'
  BY PublishCallStep, PublishStepStep, WorkerStepStep, TelemetryStep,
     ShutdownStep, DeadlineOrStutter DEF Next, Terminated
<1>2. QED
  BY InitIInv, <1>1, PTL DEF Spec

(* The channel, the mutex, the goroutines and the history stay within      *)
(* their types.                                                            *)
THEOREM TypeCorrect == Spec => []TypeOK
<1>1. IInv => TypeOK
  BY DEF IInv
<1>2. QED
  BY <1>1, Inductive, PTL

(* Publish never sends on the closed channel, Shutdown never closes it     *)
(* twice, whatever the number of request goroutines and Shutdown calls.    *)
THEOREM ChannelSafe == Spec => []NoChannelPanic
<1>1. IInv => NoChannelPanic
  BY DEF IInv, CallStates, ShutdownStates, NoChannelPanic
<1>2. QED
  BY <1>1, Inductive, PTL

(* No accepted event is lost or doubled between Publish and its fate, for  *)
(* every queue size and number of workers.                                 *)
THEOREM EventsAccounted == Spec => []Accounting
<1>1. IInv => Accounting
  BY DEF IInv
<1>2. QED
  BY <1>1, Inductive, PTL

(* Whatever panics or is dropped, an event leaves the process only after   *)
(* every redaction hook the customer configured has run on it.             *)
THEOREM RedactionFirst == Spec => []RedactedBeforeLeaving
<1>1. IInv => RedactedBeforeLeaving
  BY DEF IInv, PipelineStates
<1>2. QED
  BY <1>1, Inductive, PTL

(* A Shutdown that reports no error has left nothing undecided. *)
THEOREM DrainIsComplete == Spec => []DrainedMeansSettled
<1>1. ASSUME IInv, verdict = "drained" PROVE DrainedMeansSettled
  <2>1. AllExited /\ queue = <<>> /\ \A w \in Workers : work[w] = None
    BY <1>1 DEF IInv, ShutdownStates, AllExited, WorkerStates
  <2>2. InChannel = {} /\ InHand = {}
    BY <2>1 DEF InChannel, InHand
  <2>3. QED
    BY <1>1, <2>1, <2>2 DEF IInv, Accounting, DrainedMeansSettled
<1>2. IInv => DrainedMeansSettled
  BY <1>1 DEF DrainedMeansSettled
<1>3. QED
  BY <1>2, Inductive, PTL

(* A Shutdown that returns within its deadline leaves no export of the     *)
(* installed manager running.                                              *)
THEOREM ShutdownAwaitsExports == Spec => []ExportsAwaited
<1>1. IInv => ExportsAwaited
  BY DEF IInv
<1>2. QED
  BY <1>1, Inductive, PTL

-----------------------------------------------------------------------------
(* Only a send accepts an event, and a worker settles accepted ones only.  *)

LEMMA FateChanges ==
  ASSUME IInv, [Next]_vars, ~UNCHANGED fate
  PROVE  \/ \E p \in Producers, e \in Events : PublishCall(p, e)
         \/ \E p \in Producers : PublishSend(p) \/ PublishReject(p)
         \/ \E w \in Workers, o \in Resolved :
              workPc[w] \in Busy /\ Settle(w, o)
<1>1. ASSUME NEW w \in Workers, WorkerStep(w)
      PROVE  \E o \in Resolved : workPc[w] \in Busy /\ Settle(w, o)
  BY <1>1 DEF WorkerStep, Receive, WorkerExit, ApplyEventRedaction,
     EventRedactionDrops, RedactEvent, RunStage, Stage, ExportAsync,
     ExportOnly, SendSucceeds, SendFails, GiveUp, BackoffElapses,
     AbandonRetries, RecoverPanic, Busy, WorkPcs, Resolved
<1>2. ASSUME NEW c \in Closers, ShutdownEnter(c) \/ CloserStep(c) PROVE FALSE
  BY <1>2 DEF ShutdownEnter, CloserStep, ShutdownUnblocked, ShutdownClose,
     ShutdownSignal, ShutdownDrain, ShutdownReturns, CloserGoto
<1>3. QED
  BY <1>1, <1>2 DEF Next, PublishStep, PublishLock, PublishOpen, PublishGoto, ExportEnds,
     SetTelemetryManager, DeadlineExpires, Terminated, vars

(* After the close no event is accepted, whatever Publish calls were under *)
(* way: the step that would accept one holds the mutex the close needs.    *)
THEOREM IntakeStaysClosed == Spec => NothingAcceptedAfterClose
<1>1. ASSUME IInv, [Next]_vars, closed, NEW e \in Events,
             fate'[e] = "accepted"
      PROVE  fate[e] = "accepted"
  <2>1. CASE UNCHANGED fate
    BY <1>1, <2>1
  <2>2. ASSUME NEW p \in Producers, NEW d \in Events, PublishCall(p, d)
        PROVE  fate[e] = "accepted"
    BY <1>1, <2>2 DEF PublishCall, IInv, TypeOK
  <2>3. ASSUME NEW p \in Producers, PublishSend(p) \/ PublishReject(p)
        PROVE  fate[e] = "accepted"
    <3>1. CASE PublishSend(p)
      BY <1>1, <3>1 DEF PublishSend, IInv, CallStates
    <3>2. CASE PublishReject(p)
      <4>1. fate' = [fate EXCEPT ![offer[p]] = "rejected"]
        BY <3>2 DEF PublishReject, PublishReturn
      <4>2. e # offer[p]
        BY <1>1, <4>1 DEF IInv, TypeOK
      <4>3. QED
        BY <1>1, <4>1, <4>2 DEF IInv, TypeOK
    <3>3. QED
      BY <2>3, <3>1, <3>2
  <2>4. ASSUME NEW w \in Workers, NEW o \in Resolved, Settle(w, o)
        PROVE  fate[e] = "accepted"
    BY <1>1, <2>4 DEF Settle, Resolved, IInv, TypeOK
  <2>5. QED
    BY <1>1, <2>1, <2>2, <2>3, <2>4, FateChanges
<1>2. IInv /\ [Next]_vars =>
        [\A e \in Events :
           closed /\ fate'[e] = "accepted" => fate[e] = "accepted"]_vars
  BY <1>1
<1>3. QED
  BY <1>2, Inductive, PTL DEF Spec, NothingAcceptedAfterClose

(* Every step of the publisher is one of EventDelivery's, or invisible.    *)
LEMMA StepSimulates ==
  ASSUME IInv, [Next]_vars
  PROVE  [Delivery!Next]_(Delivery!vars)
<1> USE DEF Delivery!Next, Delivery!vars, Delivery!Take, Delivery!Refuse,
            Delivery!Deliver, Delivery!Lose, Delivery!Become
<1>1. CASE UNCHANGED <<closed, verdict, fate>>
  BY <1>1
<1>2. CASE ~UNCHANGED fate
  <2>1. ASSUME NEW e \in Events, NEW f \in Fates, UNCHANGED <<closed, verdict>>,
               fate' = [fate EXCEPT ![e] = f]
        PROVE  /\ UNCHANGED IF closed THEN "closed" ELSE "open"
               /\ [d \in Events |-> Outcome(fate[d])]' =
                    [[d \in Events |-> Outcome(fate[d])]
                       EXCEPT ![e] = Outcome(f)]
    BY <2>1 DEF IInv, TypeOK
  <2>2. ASSUME NEW p \in Producers, NEW e \in Events, PublishCall(p, e)
        PROVE  UNCHANGED Delivery!vars
    <3>1. UNCHANGED <<closed, verdict>> /\ fate' = [fate EXCEPT ![e] = "offered"]
      BY <2>2 DEF PublishCall, closeVars
    <3>2. fate[e] = "new"
      BY <2>2 DEF PublishCall
    <3>3. QED
      BY <2>1, <3>1, <3>2 DEF Outcome, Fates, IInv, TypeOK
  <2>3. ASSUME NEW p \in Producers, PublishSend(p) \/ PublishReject(p)
        PROVE  \E e \in Events : Delivery!Take(e) \/ Delivery!Refuse(e)
    <3>1. offer[p] \in Events /\ fate[offer[p]] = "offered"
      BY <2>3 DEF IInv, TypeOK, CallStates, PublishSend, PublishReject
    <3>2. UNCHANGED <<closed, verdict>>
      BY <2>3 DEF PublishSend, PublishReject, PublishReturn, closeVars
    <3>3. CASE PublishSend(p)
      <4>1. fate' = [fate EXCEPT ![offer[p]] = "accepted"] /\ ~closed
        BY <3>3 DEF PublishSend, PublishReturn, IInv, CallStates
      <4>2. Delivery!Take(offer[p])
        BY <2>1, <3>1, <3>2, <4>1 DEF Outcome, Fates
      <4>3. QED
        BY <3>1, <4>2
    <3>4. CASE PublishReject(p)
      <4>1. fate' = [fate EXCEPT ![offer[p]] = "rejected"]
        BY <3>4 DEF PublishReject, PublishReturn
      <4>2. Delivery!Refuse(offer[p])
        BY <2>1, <3>1, <3>2, <4>1 DEF Outcome, Fates
      <4>3. QED
        BY <3>1, <4>2
    <3>5. QED
      BY <2>3, <3>3, <3>4
  <2>4. ASSUME NEW w \in Workers, NEW o \in Resolved, workPc[w] \in Busy,
               Settle(w, o)
        PROVE  \E e \in Events : Delivery!Deliver(e) \/ Delivery!Lose(e)
    <3>1. work[w] \in Events /\ fate[work[w]] = "accepted"
      BY <2>4, BusyWorker
    <3>2. /\ UNCHANGED <<closed, verdict>> /\ o \in Fates
          /\ fate' = [fate EXCEPT ![work[w]] = o]
      BY <2>4 DEF Settle, WorkerGoto, closeVars, Fates
    <3>3. Outcome(o) \in {"delivered", "lost"} /\ Outcome("accepted") = "taken"
      BY DEF Outcome, Resolved
    <3>4. QED
      BY <2>1, <3>1, <3>2, <3>3
  <2>5. QED
    BY <1>2, <2>2, <2>3, <2>4, FateChanges
<1>3. CASE UNCHANGED fate /\ ~UNCHANGED <<closed, verdict>>
  <2>1. PICK c \in Closers : ShutdownClose(c) \/ ShutdownDrain(c)
    <3>1. ASSUME NEW p \in Producers, PublishStep(p)
          PROVE  UNCHANGED <<closed, verdict>>
      BY <3>1 DEF PublishStep, PublishLock, PublishOpen, PublishGoto, PublishSend, PublishReject,
         PublishReturn, closeVars
    <3>2. ASSUME NEW w \in Workers, WorkerStep(w)
          PROVE  UNCHANGED <<closed, verdict>>
      BY <3>2 DEF WorkerStep, Receive, WorkerExit, ApplyEventRedaction,
         EventRedactionDrops, RedactEvent, RunStage, Stage, ExportAsync,
         ExportOnly, SendSucceeds, SendFails, GiveUp, BackoffElapses,
         AbandonRetries, RecoverPanic, Settle, WorkerGoto, closeVars
    <3>3. QED
      BY <1>3, <3>1, <3>2 DEF Next, PublishCall, ExportEnds,
         SetTelemetryManager, ShutdownEnter, CloserStep, ShutdownUnblocked,
         ShutdownSignal, ShutdownReturns, DeadlineExpires, Terminated,
         CloserGoto, closeVars, vars
  <2>2. CASE ShutdownClose(c)
    <3>1. ~closed /\ closed' /\ UNCHANGED <<fate, verdict>>
      BY <2>2 DEF ShutdownClose, CloserGoto, IInv, TypeOK, ShutdownStates
    <3>2. Delivery!CloseIntake
      BY <3>1 DEF Delivery!CloseIntake
    <3>3. QED
      BY <3>2
  <2>3. CASE ShutdownDrain(c)
    <3>1. closed /\ verdict = "none" /\ UNCHANGED <<fate, closed>>
      BY <2>3 DEF ShutdownDrain, CloserGoto, IInv, ShutdownStates
    <3>2. CASE AllExited /\ verdict' = "drained"
      <4>1. InChannel = {} /\ InHand = {}
        BY <3>2 DEF AllExited, IInv, WorkerStates, InChannel, InHand
      <4>2. \A e \in Events : Outcome(fate[e]) # "taken"
        BY <4>1 DEF IInv, TypeOK, Accounting, Outcome, Fates, Resolved
      <4>3. Delivery!Report("drained")
        BY <3>1, <3>2, <4>2 DEF Delivery!Report
      <4>4. QED
        BY <4>3
    <3>3. CASE verdict' = "deadline"
      <4>1. Delivery!Report("deadline")
        BY <3>1, <3>3 DEF Delivery!Report
      <4>2. QED
        BY <4>1
    <3>4. QED
      BY <2>3, <3>2, <3>3 DEF ShutdownDrain
  <2>4. QED
    BY <2>1, <2>2, <2>3
<1>4. QED
  BY <1>1, <1>2, <1>3

(* The publisher implements the safety part of EventDelivery: each event   *)
(* is taken or refused once and settled once, nothing is taken after the   *)
(* close, and "drained" is reported only with nothing left to settle.      *)
THEOREM PublisherImplementsDelivery == Spec => Delivery!Spec
<1>1. Init => Delivery!Init
  BY DEF Init, Delivery!Init, Outcome
<1>2. QED
  BY <1>1, StepSimulates, Inductive, PTL DEF Spec, Delivery!Spec

-----------------------------------------------------------------------------
(* When what is said of the exports is so: nobody replaces a manager, though  *)
(* one may be installed where there was none.                                 *)
TelemetryStays == [][telemetry # None => telemetry' = telemetry]_vars

(* Every export that runs belongs to the manager that is installed. *)
OnlyInstalled == \A x \in inflight : x.manager = telemetry

(* Exports begin with the installed manager only. *)
LEMMA OnlyInstalledNext ==
  /\ IInv /\ OnlyInstalled /\ [Next]_vars
  /\ telemetry # None => telemetry' = telemetry
  => OnlyInstalled'
<1> SUFFICES ASSUME IInv, OnlyInstalled, [Next]_vars,
                    telemetry # None => telemetry' = telemetry
             PROVE  OnlyInstalled'
  OBVIOUS
<1>1. ASSUME NEW w \in Workers, WorkerStep(w)
      PROVE  inflight' \subseteq Fanout(work[w]) /\ UNCHANGED telemetry
  <2>1. inflight' \subseteq Fanout(work[w])
    BY <1>1 DEF WorkerStep, Receive, WorkerExit, ApplyEventRedaction, EventRedactionDrops,
       RedactEvent, RunStage, Stage, ExportAsync, ExportOnly, SendSucceeds, SendFails,
       GiveUp, BackoffElapses, AbandonRetries, RecoverPanic, Fanout
  <2>2. UNCHANGED telemetry
    BY <1>1 DEF WorkerStep, Receive, WorkerExit, ApplyEventRedaction, EventRedactionDrops,
       RedactEvent, RunStage, Stage, ExportAsync, ExportOnly, SendSucceeds, SendFails,
       GiveUp, BackoffElapses, AbandonRetries, RecoverPanic, Settle, WorkerGoto, teleVars
  <2> QED
    BY <2>1, <2>2
<1>2. ASSUME NEW e, NEW x \in Fanout(e) PROVE x.manager = telemetry
  BY <1>2 DEF Fanout, OnlyInstalled
<1>3. ASSUME NEW p \in Producers, PublishStep(p) \/ \E e \in Events : PublishCall(p, e)
      PROVE  UNCHANGED teleVars
  BY <1>3 DEF PublishStep, PublishCall, PublishLock, PublishOpen, PublishSend, PublishReject,
     PublishReturn, PublishGoto, teleVars
<1>4. ASSUME NEW c \in Closers, ShutdownEnter(c) \/ CloserStep(c) PROVE UNCHANGED teleVars
  BY <1>4 DEF ShutdownEnter, CloserStep, ShutdownUnblocked, ShutdownClose, ShutdownSignal,
     ShutdownDrain, ShutdownReturns, CloserGoto, teleVars
<1>5. ASSUME NEW m \in Managers, SetTelemetryManager(m) PROVE inflight' = {}
  <2>1. telemetry = None /\ UNCHANGED inflight
    BY <1>5 DEF SetTelemetryManager
  <2>2. \A x \in inflight : x.manager # None
    BY PublisherAssumption DEF IInv, TypeOK, Exports
  <2> QED
    BY <2>1, <2>2 DEF OnlyInstalled
<1>6. CASE (\E x \in inflight : ExportEnds(x)) \/ DeadlineExpires \/ UNCHANGED vars
  BY <1>6 DEF ExportEnds, DeadlineExpires, vars, teleVars, OnlyInstalled
<1> QED
  BY <1>1, <1>2, <1>3, <1>4, <1>5, <1>6 DEF Next, Terminated, teleVars, OnlyInstalled

(* A publisher whose exporters are configured once, when it is built or later, *)
(* has no export running when a Shutdown has returned in time             *)
(* (publisher.go:352); only those of a replaced manager outlive it.           *)
THEOREM OnlyReplacedOutlive == Spec /\ TelemetryStays => []EveryExportAwaited
<1>1. Init => OnlyInstalled
  BY DEF Init, OnlyInstalled
<1>2. IInv /\ OnlyInstalled /\ [Next]_vars /\ [telemetry # None => telemetry' = telemetry]_vars
      => OnlyInstalled'
  <2>1. CASE telemetry # None => telemetry' = telemetry
    BY <2>1, OnlyInstalledNext
  <2>2. CASE UNCHANGED vars
    BY <2>2 DEF OnlyInstalled, vars, teleVars
  <2> QED
    BY <2>1, <2>2
<1>3. OnlyInstalled /\ ExportsAwaited => EveryExportAwaited
  BY DEF OnlyInstalled, ExportsAwaited, EveryExportAwaited
<1> QED
  BY <1>1, <1>2, <1>3, Inductive, ShutdownAwaitsExports, PTL DEF Spec, TelemetryStays

-----------------------------------------------------------------------------
(* Why a drain ends.  StepsLeft bounds what a worker still does with the      *)
(* event it has: the stages before it and, for each attempt left, a failed    *)
(* send and a backoff.                                                        *)
StagesLeft(pc) ==
  CASE pc = "redactEvent" -> 6 [] pc = "redact" -> 5 [] pc = "sanitize" -> 4
    [] pc = "truncate" -> 3 [] pc \in {"export", "backoff"} -> 2 [] pc = "send" -> 1
    [] OTHER -> 0
StepsLeft(w) ==
  IF work[w] = None THEN 0 ELSE StagesLeft(workPc[w]) + 2 * (MaxRetries - attempt[w])

(* A worker has at most six steps and two per retry to do with an event. *)
StepsBounded == \A w \in Workers : StepsLeft(w) \in 0 .. 6 + 2 * MaxRetries

(* Once the intake is closed the channel only shrinks, and each step of a     *)
(* worker brings its event nearer to its end, takes the next one out of the   *)
(* channel, or is the worker's last.                                          *)
DrainGoesOn ==
  [][closed =>
       /\ Len(queue') <= Len(queue)
       /\ \A w \in Workers :
            \/ UNCHANGED <<workPc[w], work[w], attempt[w]>>
            \/ StepsLeft(w)' < StepsLeft(w)
            \/ work[w] = None /\ Len(queue') < Len(queue)
            \/ workPc[w] = "receive" /\ workPc'[w] = "exited"]_vars

(* The bound is what its summands make of it. *)
LEMMA StepsLeftTyped ==
  ASSUME TypeOK, NEW w \in Workers
  PROVE  /\ StepsLeft(w) \in 0 .. 6 + 2 * MaxRetries
         /\ StagesLeft(workPc[w]) \in 0 .. 6
         /\ attempt[w] \in 0 .. MaxRetries /\ MaxRetries \in Nat
<1>1. StagesLeft(workPc[w]) \in 0 .. 6
  BY DEF StagesLeft
<1>2. attempt[w] \in 0 .. MaxRetries /\ MaxRetries \in Nat
  BY DEF TypeOK
<1> QED
  BY <1>1, <1>2 DEF StepsLeft

(* A worker's step with an event in hand counts. *)
LEMMA BusyStepCounts ==
  ASSUME IInv, NEW w \in Workers, work[w] # None, WorkerStep(w)
  PROVE  StepsLeft(w)' < StepsLeft(w)
<1>1. /\ StagesLeft(workPc[w]) \in 0 .. 6 /\ attempt[w] \in 0 .. MaxRetries /\ MaxRetries \in Nat
      /\ workPc[w] \in WorkPcs \ {"receive", "exited"}
  BY StepsLeftTyped DEF IInv, TypeOK, WorkerStates
<1>2. StepsLeft(w) > 0
  BY <1>1 DEF StepsLeft, StagesLeft, WorkPcs
<1>3. ASSUME NEW o, Settle(w, o) PROVE StepsLeft(w)' = 0
  BY <1>3 DEF Settle, StepsLeft, IInv, TypeOK
<1>4. ASSUME NEW pc \in WorkPcs, UNCHANGED <<work, attempt>>, workPc' = [workPc EXCEPT ![w] = pc],
             StagesLeft(pc) < StagesLeft(workPc[w])
      PROVE  StepsLeft(w)' < StepsLeft(w)
  <2>1. workPc'[w] = pc
    BY <1>4 DEF IInv, TypeOK
  <2>2. StagesLeft(pc) \in 0 .. 6
    BY DEF StagesLeft
  <2> QED
    BY <1>1, <1>4, <2>1, <2>2 DEF StepsLeft
<1>5. CASE SendFails(w)
  <2>1. /\ workPc[w] = "send" /\ workPc'[w] = "backoff" /\ attempt'[w] = attempt[w] + 1
        /\ work' = work
    BY <1>5 DEF SendFails, WorkerGoto, IInv, TypeOK
  <2> QED
    BY <1>1, <2>1 DEF StepsLeft, StagesLeft
<1>6. CASE EventRedactionDrops(w) \/ ExportOnly(w) \/ SendSucceeds(w) \/ GiveUp(w)
           \/ AbandonRetries(w) \/ RecoverPanic(w)
  <2>1. \E o : Settle(w, o)
    BY <1>6 DEF EventRedactionDrops, ExportOnly, SendSucceeds, GiveUp, AbandonRetries,
       RecoverPanic
  <2> QED
    BY <1>2, <1>3, <2>1
<1>7. CASE ApplyEventRedaction(w) \/ RedactEvent(w) \/ RunStage(w, "sanitize", "truncate")
           \/ RunStage(w, "truncate", "export") \/ ExportAsync(w) \/ BackoffElapses(w)
  <2>1. UNCHANGED <<work, attempt>>
    BY <1>7 DEF ApplyEventRedaction, RedactEvent, RunStage, Stage, ExportAsync, BackoffElapses
  <2>2. PICK pc \in WorkPcs : /\ workPc' = [workPc EXCEPT ![w] = pc]
                              /\ StagesLeft(pc) < StagesLeft(workPc[w])
    BY <1>7 DEF ApplyEventRedaction, RedactEvent, RunStage, Stage, ExportAsync, BackoffElapses,
       WorkerGoto, WorkPcs, StagesLeft
  <2> QED
    BY <1>4, <2>1, <2>2
<1> QED
  BY <1>1, <1>5, <1>6, <1>7 DEF WorkerStep, Receive, WorkerExit

(* Nobody else moves the worker or what it has. *)
LEMMA OthersLeaveWorker ==
  ASSUME IInv, [Next]_vars, NEW w \in Workers, ~WorkerStep(w)
  PROVE  UNCHANGED <<workPc[w], work[w], attempt[w]>>
<1>1. ASSUME NEW v \in Workers, v # w, WorkerStep(v)
      PROVE  UNCHANGED <<workPc[w], work[w], attempt[w]>>
  BY <1>1 DEF WorkerStep, Receive, WorkerExit, ApplyEventRedaction, EventRedactionDrops,
     RedactEvent, RunStage, Stage, ExportAsync, ExportOnly, SendSucceeds, SendFails, GiveUp,
     BackoffElapses, AbandonRetries, RecoverPanic, Settle, WorkerGoto, IInv, TypeOK
<1>2. ASSUME NEW p \in Producers, PublishStep(p) \/ \E e \in Events : PublishCall(p, e)
      PROVE  UNCHANGED workVars
  BY <1>2 DEF PublishStep, PublishCall, PublishLock, PublishOpen, PublishSend, PublishReject,
     PublishReturn, PublishGoto
<1>3. ASSUME NEW c \in Closers, ShutdownEnter(c) \/ CloserStep(c) PROVE UNCHANGED workVars
  BY <1>3 DEF ShutdownEnter, CloserStep, ShutdownUnblocked, ShutdownClose, ShutdownSignal,
     ShutdownDrain, ShutdownReturns, CloserGoto
<1> QED
  BY <1>1, <1>2, <1>3 DEF Next, ExportEnds, SetTelemetryManager, DeadlineExpires,
     Terminated, vars, workVars

(* The channel grows by a Publish that found it open only. *)
LEMMA ChannelShrinks ==
  ASSUME IInv, [Next]_vars, closed
  PROVE  /\ Len(queue') <= Len(queue)
         /\ \A w \in Workers : Receive(w) => Len(queue') < Len(queue)
<1>0. queue \in Seq(Events) /\ Len(queue) \in Nat
  BY DEF IInv, TypeOK
<1>1. ASSUME NEW w \in Workers, Receive(w) PROVE Len(queue') < Len(queue)
  BY <1>0, <1>1 DEF Receive
<1>2. CASE UNCHANGED queue
  BY <1>0, <1>1, <1>2
<1>3. ASSUME NEW w \in Workers, WorkerStep(w), ~Receive(w) PROVE UNCHANGED queue
  BY <1>3 DEF WorkerStep, WorkerExit, ApplyEventRedaction, EventRedactionDrops,
     RedactEvent, RunStage, Stage, ExportAsync, ExportOnly, SendSucceeds, SendFails, GiveUp,
     BackoffElapses, AbandonRetries, RecoverPanic, Settle
<1>4. ASSUME NEW p \in Producers, PublishStep(p) \/ \E e \in Events : PublishCall(p, e)
      PROVE  UNCHANGED queue
  <2>1. ~PublishSend(p)
    BY DEF PublishSend, IInv, CallStates
  <2> QED
    BY <1>4, <2>1 DEF PublishStep, PublishCall, PublishLock, PublishOpen, PublishReject,
       PublishGoto
<1>5. ASSUME NEW c \in Closers, ShutdownEnter(c) \/ CloserStep(c) PROVE UNCHANGED queue
  BY <1>5 DEF ShutdownEnter, CloserStep, ShutdownUnblocked, ShutdownClose, ShutdownSignal,
     ShutdownDrain, ShutdownReturns, CloserGoto
<1>6. UNCHANGED queue \/ \E w \in Workers : Receive(w)
  BY <1>3, <1>4, <1>5 DEF Next, ExportEnds, SetTelemetryManager, DeadlineExpires, Terminated, vars
<1> QED
  BY <1>0, <1>1, <1>2, <1>6

(* The workers cannot go on for ever after the close: what each has left, and *)
(* what is in the channel, are numbers that fall with every step and rise     *)
(* with none, but for the worker's that takes an event out of the channel     *)
(* (publishEvent's loop over maxRetries, and range over the closed channel).  *)
THEOREM DrainAlwaysGoesOn == Spec => []StepsBounded /\ DrainGoesOn
<1>1. IInv => StepsBounded
  BY StepsLeftTyped DEF IInv, StepsBounded
<1>2. ASSUME IInv, [Next]_vars, closed, NEW w \in Workers
      PROVE  \/ UNCHANGED <<workPc[w], work[w], attempt[w]>>
             \/ StepsLeft(w)' < StepsLeft(w)
             \/ work[w] = None /\ Len(queue') < Len(queue)
             \/ workPc[w] = "receive" /\ workPc'[w] = "exited"
  <2>1. CASE ~WorkerStep(w)
    BY <1>2, <2>1, OthersLeaveWorker
  <2>2. CASE WorkerStep(w) /\ work[w] # None
    BY <1>2, <2>2, BusyStepCounts
  <2>3. CASE WorkerStep(w) /\ work[w] = None
    <3>1. workPc[w] \in {"receive", "exited"}
      BY <1>2, <2>3 DEF IInv, WorkerStates
    <3>2. Receive(w) \/ WorkerExit(w)
      BY <2>3, <3>1 DEF WorkerStep, ApplyEventRedaction, EventRedactionDrops, RedactEvent,
         RunStage, ExportAsync, ExportOnly, SendSucceeds, SendFails, GiveUp, BackoffElapses,
         AbandonRetries, RecoverPanic
    <3>3. CASE Receive(w)
      BY <1>2, <2>3, <3>3, ChannelShrinks
    <3>4. CASE WorkerExit(w)
      BY <1>2, <3>4 DEF WorkerExit, WorkerGoto, IInv, TypeOK
    <3> QED
      BY <3>2, <3>3, <3>4
  <2> QED
    BY <2>1, <2>2, <2>3
<1>3. IInv /\ [Next]_vars =>
        [closed =>
           /\ Len(queue') <= Len(queue)
           /\ \A w \in Workers :
                \/ UNCHANGED <<workPc[w], work[w], attempt[w]>>
                \/ StepsLeft(w)' < StepsLeft(w)
                \/ work[w] = None /\ Len(queue') < Len(queue)
                \/ workPc[w] = "receive" /\ workPc'[w] = "exited"]_vars
  BY <1>2, ChannelShrinks
<1> QED
  BY <1>1, <1>3, Inductive, PTL DEF Spec, DrainGoesOn

-----------------------------------------------------------------------------
(* Who waits for whom.  A Publish with the mutex waits for nobody: it finds   *)
(* the channel closed, full or with room.  So those that want the mutex wait  *)
(* for a step or two of one Publish.  A Shutdown behind the once waits for    *)
(* one that runs its body.  That one waits for the mutex, then for the        *)
(* workers, none of which waits for events or a backoff any more (the channel *)
(* is closed and shutdownCh as well), or for the deadline.  There is no       *)
(* circle in this.                                                            *)
EveryWaitHasAnEnd ==
  /\ Len(queue) <= QueueSize
  /\ closeMu # None => closeMu \in Producers /\ pubPc[closeMu] \in {"locked", "sending"}
  /\ \A c \in Closers : closePc[c] = "blocked" =>
       once = "done" \/ \E d \in Closers : InBody(d)
  /\ \A c \in Closers : closePc[c] = "drain" => closed /\ shutdownCh

(* Who is in the once has its body run, who waits for the workers has told    *)
(* them, and the channel holds no more than it can.                           *)
OnceRuns ==
  /\ once = "running" => \E c \in Closers : InBody(c)
  /\ \A c \in Closers : closePc[c] = "drain" => shutdownCh
  /\ Len(queue) <= QueueSize

(* The body of the once ends with the once. *)
LEMMA OnceRunsNext == IInv /\ OnceRuns /\ [Next]_vars => OnceRuns'
<1> SUFFICES ASSUME IInv, OnceRuns, [Next]_vars PROVE OnceRuns'
  OBVIOUS
<1>0. queue \in Seq(Events) /\ Len(queue) \in Nat /\ QueueSize \in Nat
  BY DEF IInv, TypeOK
<1>1. CASE UNCHANGED <<once, closePc, shutdownCh, queue>>
  BY <1>1 DEF OnceRuns, InBody
<1>2. ASSUME NEW p \in Producers, PublishSend(p) PROVE OnceRuns'
  <2>1. Len(queue') = Len(queue) + 1 /\ Len(queue) < QueueSize
    <3>1. queue' = Append(queue, offer[p]) /\ Len(queue) < QueueSize
      BY <1>2 DEF PublishSend
    <3> QED
      BY <1>0, <3>1
  <2>2. UNCHANGED <<once, closePc, shutdownCh>>
    BY <1>2 DEF PublishSend, PublishReturn, closeVars
  <2> QED
    BY <1>0, <2>1, <2>2 DEF OnceRuns, InBody
<1>3. ASSUME NEW w \in Workers, Receive(w) PROVE OnceRuns'
  <2>1. Len(queue') <= Len(queue)
    BY <1>0, <1>3 DEF Receive
  <2>2. UNCHANGED <<once, closePc, shutdownCh>>
    BY <1>3 DEF Receive, WorkerGoto, closeVars
  <2> QED
    BY <1>0, <2>1, <2>2 DEF OnceRuns, InBody
<1>4. ASSUME NEW c \in Closers, ShutdownEnter(c) \/ CloserStep(c) PROVE OnceRuns'
  <2>1. UNCHANGED queue
    BY <1>4 DEF ShutdownEnter, CloserStep, ShutdownUnblocked, ShutdownClose, ShutdownSignal,
       ShutdownDrain, ShutdownReturns, CloserGoto
  <2>2. ASSUME once' = "running" PROVE \E d \in Closers : InBody(d)'
    BY <1>4, <2>2 DEF ShutdownEnter, CloserStep, ShutdownUnblocked, ShutdownClose,
       ShutdownSignal, ShutdownDrain, ShutdownReturns, CloserGoto, OnceRuns, InBody, IInv, TypeOK
  <2>3. ASSUME NEW d \in Closers, closePc'[d] = "drain" PROVE shutdownCh'
    BY <1>4, <2>3 DEF ShutdownEnter, CloserStep, ShutdownUnblocked, ShutdownClose,
       ShutdownSignal, ShutdownDrain, ShutdownReturns, CloserGoto, OnceRuns, IInv, TypeOK
  <2> QED
    BY <2>1, <2>2, <2>3 DEF OnceRuns
<1>5. ASSUME NEW p \in Producers, PublishStep(p) \/ \E e \in Events : PublishCall(p, e),
             ~PublishSend(p)
      PROVE  UNCHANGED <<once, closePc, shutdownCh, queue>>
  BY <1>5 DEF PublishStep, PublishCall, PublishLock, PublishOpen, PublishReject,
     PublishReturn, PublishGoto, closeVars
<1>6. ASSUME NEW w \in Workers, WorkerStep(w), ~Receive(w)
      PROVE  UNCHANGED <<once, closePc, shutdownCh, queue>>
  BY <1>6 DEF WorkerStep, WorkerExit, ApplyEventRedaction, EventRedactionDrops,
     RedactEvent, RunStage, Stage, ExportAsync, ExportOnly, SendSucceeds, SendFails, GiveUp,
     BackoffElapses, AbandonRetries, RecoverPanic, Settle, WorkerGoto, closeVars
<1> QED
  BY <1>1, <1>2, <1>3, <1>4, <1>5, <1>6
     DEF Next, ExportEnds, SetTelemetryManager, DeadlineExpires, Terminated, vars, closeVars

(* Publish and Shutdown never wait for each other, and never for someone who  *)
(* waits for ever, if only the customer's hooks and the exports end           *)
(* (publisher.go, closeMu, shutdownOnce and shutdownCh).                      *)
THEOREM NobodyWaitsForEver == Spec => []EveryWaitHasAnEnd
<1>1. Init => OnceRuns
  BY DEF Init, OnceRuns, InBody
<1>2. IInv /\ OnceRuns => EveryWaitHasAnEnd
  BY DEF IInv, TypeOK, CallStates, ShutdownStates, OnceRuns, EveryWaitHasAnEnd
<1> QED
  BY <1>1, <1>2, OnceRunsNext, Inductive, PTL DEF Spec
=============================================================================
