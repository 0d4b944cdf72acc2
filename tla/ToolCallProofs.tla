----------------------------- MODULE ToolCallProofs -----------------------------
(***************************************************************************)
(* Proofs about the capture of tool calls, for any number of calls and any *)
(* capacity of the table.  The inductive invariant follows one call        *)
(* through its places: where it has its event already, where it is still   *)
(* to get one, and where nobody would give it a second.                    *)
(***************************************************************************)
EXTENDS ToolCallProps, TLAPS

(* The call has its event, unless tracing went off. *)
Reported(c) == Len(events[c]) <= 1 /\ (tracked => Len(events[c]) = 1)

(* What the middleware publishes itself. *)
ByMiddleware(c) == err[c] # "none" \/ task[c] \/ reply[c] = None

(* Where the call stands and what was published for it so far. *)
EventCount(c) ==
  /\ pc[c] \in {"idle", "outer", "handler"} => events[c] = <<>>
  /\ pc[c] = "returned" =>
       /\ err[c] # "notfound"
       /\ IF ByMiddleware(c) THEN Reported(c) ELSE events[c] = <<>>
  /\ pc[c] = "failed" =>
       IF err[c] = "notfound" THEN ~task[c] /\ events[c] = <<>> ELSE Reported(c)
  /\ pc[c] = "complete" =>
       IF task[c] \/ reply[c] = None THEN Reported(c) ELSE events[c] = <<>>
  /\ pc[c] = "answered" => Reported(c)

CallInv(c) ==
  /\ pc[c] = "idle" => ~task[c] /\ ~exempt[c]
  /\ pc[c] = "handler" => (tracked => tracing[c])
  /\ pc[c] = "failed" => err[c] # "none"
  /\ ~exempt[c] /\ ~Diverted(c) => EventCount(c)

(* Every record holds the undecorated result it is the record of. *)
RecordsPlain == \A r \in DOMAIN records : records[r].original = Plain(r.content)

IInv ==
  /\ TypeOK
  /\ PendingBounded
  /\ RecordsPlain
  /\ \A c \in Calls : CallInv(c)
  /\ TruthfulEvent

-----------------------------------------------------------------------------
(* The operators that the actions are made of.                             *)

LEMMA Pointers ==
  /\ \A c \in Calls, n \in 0 .. MaxDispatch : <<c, n>> \in Sessions
  /\ \A s \in Contents : Plain(s) \in Results
  /\ Plain(Shared) \in Results
  /\ \A r \in Results, s \in Sessions \cup {None} :
       /\ [r EXCEPT !.decor = s] \in Results
       /\ Plain(r.content) = Plain([r EXCEPT !.decor = s].content)
  /\ \A r \in Results : r.content \in Contents /\ r # None
  /\ 0 \in 0 .. MaxDispatch
  BY ToolCallsAssumption, NoneAssumption DEF Sessions, Contents, Results, Plain

(* One more event for c if tracing is on, and nothing for the others. *)
LEMMA PublishCallAdds ==
  ASSUME NEW c \in Calls, NEW s \in Sessions, NEW r \in Results \cup {None},
         events \in [Calls -> Seq(CallEvents)], PublishCall(c, s, r)
  PROVE  /\ events' \in [Calls -> Seq(CallEvents)]
         /\ \A d \in Calls \ {c} : events'[d] = events[d]
         /\ ~tracked => events' = events
         /\ tracked => /\ Len(events'[c]) = Len(events[c]) + 1
                       /\ events'[c][Len(events'[c])].shows = r
  <1> DEFINE e == [session |-> s, shows |-> r]
  <1>1. e \in CallEvents
    BY DEF CallEvents
  <1>2. CASE ~tracked
    BY <1>2 DEF PublishCall
  <1>3. CASE tracked
    <2>1. events' = [events EXCEPT ![c] = Append(events[c], e)]
      BY <1>3 DEF PublishCall
    <2>2. /\ Append(events[c], e) \in Seq(CallEvents)
          /\ Len(Append(events[c], e)) = Len(events[c]) + 1
          /\ Append(events[c], e)[Len(events[c]) + 1] = e
      BY <1>1
    <2>3. events'[c] = Append(events[c], e)
      BY <2>1
    <2>4. e.shows = r
      OBVIOUS
    <2> QED BY <1>3, <2>1, <2>2, <2>3, <2>4
  <1> QED BY <1>2, <1>3

(* The table after a stash: typed, within its bound, every record still in *)
(* the order, and the new record the only one that was not there before.   *)
LEMMA StashKeepsTable ==
  ASSUME TypeOK, PendingBounded,
         NEW c \in Calls, NEW r \in Results, NEW record \in CallRecords,
         Stash(c, r, record)
  PROVE  /\ DOMAIN records' \subseteq Results
         /\ \A q \in DOMAIN records' : records'[q] \in CallRecords
         /\ order' \in Seq(Results)
         /\ overtaken' \in [Calls -> 0 .. Capacity]
         /\ PendingBounded'
         /\ \A q \in DOMAIN records' :
              \/ q = r /\ records'[q] = record
              \/ q \in DOMAIN records /\ records'[q] = records[q]
  <1> DEFINE excess == IF r \in DOMAIN records \/ Len(order) < Capacity THEN 0
                       ELSE Len(order) - Capacity + 1
             evicted == {order[i] : i \in 1 .. excess}
             kept == SubSeq(order, excess + 1, Len(order))
  <1> USE DEF TypeOK
  <1>1. /\ Capacity \in Nat /\ Capacity > 0 /\ Len(order) \in Nat
        /\ Len(order) <= Capacity
        /\ excess \in {0, 1}
        /\ excess = 1 => Len(order) = Capacity /\ r \notin DOMAIN records
        /\ excess = 0 => r \in DOMAIN records \/ Len(order) < Capacity
    BY ToolCallsAssumption DEF PendingBounded
  <1>2. /\ order' = IF r \in DOMAIN records THEN order ELSE Append(kept, r)
        /\ records' = [q \in (DOMAIN records \ evicted) \cup {r} |->
                         IF q = r THEN record ELSE records[q]]
        /\ overtaken' = [d \in Calls |-> IF d = c THEN 0
                           ELSE IF overtaken[d] < Capacity THEN overtaken[d] + 1
                           ELSE overtaken[d]]
    BY DEF Stash
  <1> HIDE DEF excess
  <1>3. /\ kept \in Seq(Results)
        /\ Len(kept) = Len(order) - excess
        /\ \A i \in 1 .. Len(kept) : kept[i] = order[i + excess]
    BY <1>1
  <1> HIDE DEF kept
  <1>4. overtaken' \in [Calls -> 0 .. Capacity]
    <2>1. \A d \in Calls : overtaken[d] \in 0 .. Capacity
      OBVIOUS
    <2> QED BY <1>1, <1>2, <2>1
  <1>5. order' \in Seq(Results) /\ Len(order') <= Capacity
    <2>1. /\ Append(kept, r) \in Seq(Results)
          /\ Len(Append(kept, r)) = Len(kept) + 1
      BY <1>3
    <2> QED BY <1>1, <1>2, <1>3, <2>1
  <1>6. \A q \in DOMAIN records' :
          \/ q = r /\ records'[q] = record
          \/ q \in DOMAIN records /\ q # r /\ q \notin evicted /\ records'[q] = records[q]
    BY <1>2
  <1>7. ASSUME NEW q \in DOMAIN records'
        PROVE  \E i \in 1 .. Len(order') : order'[i] = q
    <2>1. CASE r \in DOMAIN records
      BY <2>1, <1>2, <1>6 DEF PendingBounded
    <2>2. CASE r \notin DOMAIN records
      <3>1. /\ order' = Append(kept, r)
            /\ Len(order') = Len(kept) + 1
            /\ order'[Len(kept) + 1] = r
            /\ \A i \in 1 .. Len(kept) : order'[i] = kept[i]
            /\ Len(kept) \in Nat
        BY <2>2, <1>2, <1>3
      <3>2. CASE q = r
        BY <3>1, <3>2
      <3>3. CASE q # r
        <4>1. q \in DOMAIN records /\ q \notin evicted
          BY <1>6, <3>3
        <4>2. PICK i \in 1 .. Len(order) : order[i] = q
          BY <4>1 DEF PendingBounded
        <4>3. i \notin 1 .. excess
          BY <4>1, <4>2
        <4>4. /\ i - excess \in 1 .. Len(kept)
              /\ (i - excess) + excess = i
          BY <1>1, <1>3, <4>2, <4>3
        <4>5. kept[i - excess] = q
          BY <1>3, <4>2, <4>4
        <4>6. i - excess \in 1 .. Len(order')
          BY <3>1, <4>4
        <4> QED BY <3>1, <4>4, <4>5, <4>6
      <3> QED BY <3>2, <3>3
    <2> QED BY <2>1, <2>2
  <1>8. /\ DOMAIN records' \subseteq Results
        /\ \A q \in DOMAIN records' : records'[q] \in CallRecords
    BY <1>2, <1>6
  <1> QED BY <1>4, <1>5, <1>6, <1>7, <1>8 DEF PendingBounded

(* What a claim leaves is what was there. *)
LEMMA ClaimKeepsTable ==
  ASSUME TypeOK, PendingBounded, NEW r, Claim(r)
  PROVE  /\ DOMAIN records' \subseteq Results
         /\ \A q \in DOMAIN records' : records'[q] \in CallRecords
         /\ order' = order /\ overtaken' = overtaken
         /\ PendingBounded'
         /\ \A q \in DOMAIN records' : q \in DOMAIN records /\ records'[q] = records[q]
  BY DEF Claim, TypeOK, PendingBounded

(* Nothing changes for a call that no step touches. *)
LEMMA Untouched ==
  ASSUME NEW d \in Calls, CallInv(d), tracked' = tracked,
         pc'[d] = pc[d], task'[d] = task[d], tracing'[d] = tracing[d],
         exempt'[d] = exempt[d], moves'[d] = moves[d], reply'[d] = reply[d],
         err'[d] = err[d], events'[d] = events[d]
  PROVE  CallInv(d)'
  BY DEF CallInv, EventCount, Reported, ByMiddleware, Diverted

(* The table is not touched. *)
LEMMA SameTable ==
  ASSUME PendingBounded, RecordsPlain, UNCHANGED pending
  PROVE  PendingBounded' /\ RecordsPlain'
  BY DEF PendingBounded, RecordsPlain, pending

(* A call that is not at its end, or whose reply is beyond the property,   *)
(* is no concern of TruthfulEvent; another call keeps what it had.         *)
Truthful(c) ==
  /\ pc[c] = "answered" /\ err[c] = "none" /\ reply[c] # None
  /\ ~task[c] /\ events[c] # <<>> /\ tracked
  => events[c][Len(events[c])].shows = Plain(reply[c].content)

(* A step that leaves events and results alone leaves them truthful. *)
LEMMA TruthfulUntouched ==
  ASSUME NEW d \in Calls, Truthful(d), tracked' = tracked,
         pc'[d] = pc[d], task'[d] = task[d], reply'[d] = reply[d],
         err'[d] = err[d], events'[d] = events[d]
  PROVE  Truthful(d)'
  BY DEF Truthful

(* A step of c alone leaves the other calls as they are. *)
LEMMA OneCall ==
  ASSUME TypeOK, NEW c \in Calls, tracked' = tracked,
         \A d \in Calls : CallInv(d) /\ Truthful(d),
         \A d \in Calls \ {c} :
           /\ pc'[d] = pc[d] /\ task'[d] = task[d] /\ tracing'[d] = tracing[d]
           /\ exempt'[d] = exempt[d] /\ moves'[d] = moves[d]
           /\ reply'[d] = reply[d] /\ err'[d] = err[d] /\ events'[d] = events[d],
         CallInv(c)', Truthful(c)'
  PROVE  (\A d \in Calls : CallInv(d))' /\ TruthfulEvent'
  <1>1. ASSUME NEW d \in Calls PROVE CallInv(d)' /\ Truthful(d)'
    <2>1. CASE d = c
      BY <2>1
    <2>2. CASE d # c
      BY <2>2, Untouched, TruthfulUntouched
    <2> QED BY <2>1, <2>2
  <1> QED BY <1>1 DEF TruthfulEvent, Truthful

-----------------------------------------------------------------------------
(* mcp-go, and the entry of the middleware.                                *)

LEMMA BeforeHandlerSteps ==
  ASSUME IInv, NEW c \in Calls,
         \/ \E e \in {"notfound", "plain"} : RejectTool(c, e)
         \/ RejectArguments(c) \/ RunTaskTool(c)
         \/ \E t \in BOOLEAN : Dispatch(c, t)
         \/ Enter(c)
  PROVE  IInv'
  <1> USE DEF IInv
  <1>1. CallInv(c) /\ \A d \in Calls : CallInv(d) /\ Truthful(d)
    BY DEF TruthfulEvent, Truthful
  <1>2. CASE \E e \in {"notfound", "plain"} : RejectTool(c, e)
    <2> PICK e \in {"notfound", "plain"} : RejectTool(c, e)
      BY <1>2
    <2>1. TypeOK'
      BY DEF TypeOK, RejectTool, pending
    <2>2. PendingBounded' /\ RecordsPlain'
      BY SameTable DEF RejectTool
    <2>3. CallInv(c)' /\ Truthful(c)'
      BY <1>1 DEF TypeOK, RejectTool, CallInv, EventCount, Reported, Diverted, Truthful
    <2> QED BY <1>1, <2>1, <2>2, <2>3, OneCall DEF TypeOK, RejectTool
  <1>3. CASE RejectArguments(c)
    <2>1. TypeOK'
      BY <1>3, Pointers DEF TypeOK, RejectArguments, pending, Contents
    <2>2. PendingBounded' /\ RecordsPlain'
      BY <1>3, SameTable DEF RejectArguments
    <2>3. Plain(<<c, 0>>) # None
      BY Pointers DEF Contents
    <2>4. CallInv(c)' /\ Truthful(c)'
      BY <1>1, <1>3, <2>3
      DEF TypeOK, RejectArguments, CallInv, EventCount, Reported, Diverted, Truthful
    <2> QED BY <1>1, <1>3, <2>1, <2>2, <2>4, OneCall DEF TypeOK, RejectArguments
  <1>4. CASE RunTaskTool(c)
    <2>1. TypeOK'
      BY <1>4 DEF TypeOK, RunTaskTool, pending, replies
    <2>2. PendingBounded' /\ RecordsPlain'
      BY <1>4, SameTable DEF RunTaskTool
    <2>3. CallInv(c)' /\ Truthful(c)'
      BY <1>1, <1>4 DEF TypeOK, RunTaskTool, CallInv, Diverted, Truthful, replies
    <2> QED BY <1>1, <1>4, <2>1, <2>2, <2>3, OneCall DEF TypeOK, RunTaskTool, replies
  <1>5. CASE \E t \in BOOLEAN : Dispatch(c, t)
    <2> PICK t \in BOOLEAN : Dispatch(c, t)
      BY <1>5
    <2>1. TypeOK'
      BY DEF TypeOK, Dispatch, pending, replies
    <2>2. PendingBounded' /\ RecordsPlain'
      BY SameTable DEF Dispatch
    <2>3. CallInv(c)' /\ Truthful(c)'
      BY <1>1
      DEF TypeOK, Dispatch, CallInv, EventCount, Reported, Diverted, Truthful, replies
    <2> QED BY <1>1, <2>1, <2>2, <2>3, OneCall DEF TypeOK, Dispatch, replies
  <1>6. CASE Enter(c)
    <2>1. dispatched'[c] \in 0 .. MaxDispatch
      BY <1>6, ToolCallsAssumption DEF TypeOK, Enter
    <2>2. TypeOK'
      BY <1>6, <2>1 DEF TypeOK, Enter, pending, replies
    <2>3. PendingBounded' /\ RecordsPlain'
      BY <1>6, SameTable DEF Enter
    <2>4. CallInv(c)' /\ Truthful(c)'
      BY <1>1, <1>6
      DEF TypeOK, Enter, CallInv, EventCount, Reported, Diverted, Truthful, replies
    <2> QED BY <1>1, <1>6, <2>2, <2>3, <2>4, OneCall DEF TypeOK, Enter, replies
  <1> QED BY <1>2, <1>3, <1>4, <1>5, <1>6

-----------------------------------------------------------------------------
(* The handler returns, and the middleware publishes or stashes.           *)

LEMMA HandlerReturnsStep ==
  ASSUME IInv, NEW c \in Calls, NEW r \in Results \cup {None},
         NEW e \in {"none", "plain", "notfound"}, NEW b \in BOOLEAN,
         r # None => r = Plain(r.content),
         HandlerReturns(c, r, e, b)
  PROVE  IInv'
  <1> USE DEF IInv
  <1> DEFINE s == <<c, dispatched[c]>>
             w == IF tracing[c] /\ r # None /\ b THEN [r EXCEPT !.decor = s] ELSE r
             here == e # "none" \/ task[c] \/ w = None
             shown == IF e = "none" THEN r ELSE None
  <1>1. CallInv(c) /\ \A d \in Calls : CallInv(d) /\ Truthful(d)
    BY DEF TruthfulEvent, Truthful
  <1>2. /\ s \in Sessions
        /\ w \in Results \cup {None}
        /\ w = None <=> r = None
        /\ w # None => Plain(w.content) = r
    BY Pointers DEF TypeOK
  <1>3. /\ pc[c] = "handler" /\ pc' = [pc EXCEPT ![c] = "returned"]
        /\ wire' = [wire EXCEPT ![c] = w] /\ reply' = [reply EXCEPT ![c] = w]
        /\ err' = [err EXCEPT ![c] = e]
        /\ exempt' = [exempt EXCEPT ![c] = exempt[c] \/ e = "notfound"]
        /\ UNCHANGED <<tracked, moves, task, dispatched, tracing>>
    BY DEF HandlerReturns, Decorate
  <1>4. \/ ~tracing[c] /\ UNCHANGED <<pending, events>>
        \/ tracing[c] /\ here /\ PublishCall(c, s, shown) /\ UNCHANGED pending
        \/ /\ tracing[c] /\ ~here /\ UNCHANGED events
           /\ Stash(c, w, [session |-> s, original |-> r])
    BY DEF HandlerReturns, Capture, Decorate
  <1> HIDE DEF w, here
  <1>5. /\ \A d \in Calls \ {c} : events'[d] = events[d]
        /\ events' \in [Calls -> Seq(CallEvents)]
        /\ events[c] = <<>> /\ (tracked => tracing[c]) =>
             IF here THEN Len(events'[c]) <= 1 /\ (tracked => Len(events'[c]) = 1)
             ELSE events'[c] = <<>>
    <2>1. shown \in Results \cup {None}
      OBVIOUS
    <2>2. events \in [Calls -> Seq(CallEvents)]
      BY DEF TypeOK
    <2>3. CASE ~tracing[c] /\ UNCHANGED <<pending, events>>
      BY <2>2, <2>3
    <2>4. CASE here /\ PublishCall(c, s, shown) /\ UNCHANGED pending
      <3>1. /\ events' \in [Calls -> Seq(CallEvents)]
            /\ \A d \in Calls \ {c} : events'[d] = events[d]
            /\ ~tracked => events' = events
            /\ tracked => Len(events'[c]) = Len(events[c]) + 1
        BY <1>2, <2>1, <2>2, <2>4, PublishCallAdds
      <3>2. events[c] = <<>> => Len(events[c]) = 0
        OBVIOUS
      <3>3. CASE tracked
        <4>1. events[c] = <<>> => Len(events'[c]) = 1
          BY <3>1, <3>2, <3>3
        <4> QED BY <2>4, <3>1, <3>3, <4>1
      <3>4. CASE ~tracked
        <4>1. events[c] = <<>> => Len(events'[c]) <= 1
          BY <3>1, <3>2, <3>4
        <4> QED BY <2>4, <3>1, <3>4, <4>1
      <3> QED BY <3>3, <3>4
    <2>5. CASE ~here /\ UNCHANGED events
      BY <2>2, <2>5
    <2> QED BY <1>4, <2>3, <2>4, <2>5
  <1>6. /\ DOMAIN records' \subseteq Results
        /\ \A q \in DOMAIN records' : records'[q] \in CallRecords
        /\ order' \in Seq(Results)
        /\ overtaken' \in [Calls -> 0 .. Capacity]
        /\ PendingBounded' /\ RecordsPlain'
    <2>1. CASE UNCHANGED pending
      BY <2>1, SameTable DEF TypeOK, pending
    <2>2. CASE ~here /\ Stash(c, w, [session |-> s, original |-> r])
      <3> DEFINE record == [session |-> s, original |-> r]
      <3>1. w \in Results /\ record \in CallRecords
        BY <1>2, <2>2 DEF CallRecords, here
      <3>2. record.original = Plain(w.content)
        BY <1>2, <2>2 DEF here
      <3> HIDE DEF record
      <3>3. /\ DOMAIN records' \subseteq Results
            /\ \A q \in DOMAIN records' : records'[q] \in CallRecords
            /\ order' \in Seq(Results)
            /\ overtaken' \in [Calls -> 0 .. Capacity]
            /\ PendingBounded'
            /\ \A q \in DOMAIN records' :
                 \/ q = w /\ records'[q] = record
                 \/ q \in DOMAIN records /\ records'[q] = records[q]
        BY <2>2, <3>1, StashKeepsTable DEF record
      <3> QED BY <3>2, <3>3 DEF RecordsPlain
    <2> QED BY <1>4, <2>1, <2>2
  <1> HIDE DEF s, shown
  <1>7. TypeOK'
    BY <1>2, <1>3, <1>5, <1>6 DEF TypeOK
  <1>8. CallInv(c)'
    <2>1. CallInv(c)!1 /\ (tracked => tracing[c])
      BY <1>1, <1>3 DEF CallInv
    <2>2. ASSUME ~exempt'[c], ~Diverted(c)' PROVE EventCount(c)'
      <3>1. ~exempt[c] /\ e # "notfound" /\ ~Diverted(c)
        BY <1>3, <2>2 DEF TypeOK, Diverted
      <3>2. events[c] = <<>>
        BY <1>1, <1>3, <3>1 DEF CallInv, EventCount
      <3>3. IF here THEN Len(events'[c]) <= 1 /\ (tracked => Len(events'[c]) = 1)
            ELSE events'[c] = <<>>
        BY <1>5, <2>1, <3>2
      <3>4. /\ pc'[c] = "returned" /\ err'[c] = e /\ task'[c] = task[c]
            /\ reply'[c] = w /\ tracked' = tracked
        BY <1>3 DEF TypeOK
      <3> QED BY <3>1, <3>3, <3>4 DEF EventCount, ByMiddleware, Reported, here
    <2>3. pc'[c] = "returned"
      BY <1>3 DEF TypeOK
    <2> QED BY <2>2, <2>3 DEF CallInv
  <1>9. Truthful(c)'
    BY <1>3 DEF TypeOK, Truthful
  <1>10. \A d \in Calls \ {c} :
           /\ pc'[d] = pc[d] /\ task'[d] = task[d] /\ tracing'[d] = tracing[d]
           /\ exempt'[d] = exempt[d] /\ moves'[d] = moves[d]
           /\ reply'[d] = reply[d] /\ err'[d] = err[d] /\ events'[d] = events[d]
    BY <1>3, <1>5 DEF TypeOK
  <1> QED BY <1>1, <1>3, <1>6, <1>7, <1>8, <1>9, <1>10, OneCall

(* A handler that panics is outside the guarantee and publishes nothing. *)
LEMMA HandlerPanicsStep ==
  ASSUME IInv, NEW c \in Calls, HandlerPanics(c)
  PROVE  IInv'
  <1> USE DEF IInv
  <1>1. CallInv(c) /\ \A d \in Calls : CallInv(d) /\ Truthful(d)
    BY DEF TruthfulEvent, Truthful
  <1>2. TypeOK'
    BY DEF TypeOK, HandlerPanics, pending
  <1>3. PendingBounded' /\ RecordsPlain'
    BY SameTable DEF HandlerPanics
  <1>4. CallInv(c)' /\ Truthful(c)'
    BY <1>1 DEF TypeOK, HandlerPanics, CallInv, Truthful
  <1> QED BY <1>1, <1>2, <1>3, <1>4, OneCall DEF TypeOK, HandlerPanics

-----------------------------------------------------------------------------
(* The outer middleware.                                                   *)

(* A call that it diverts is out of the guarantee from then on; a call it  *)
(* answers itself has no event yet.                                        *)
LEMMA DoesStep ==
  ASSUME IInv, NEW c \in Calls,
         NEW move \in {"shortcut", "cached", "fail", "rescue", "retry"},
         NEW from \in {"outer", "returned"},
         NEW to \in {"outer", "complete", "failed"},
         NEW r \in Results \cup {None}, NEW e \in {"none", "plain"},
         Does(c, move, from, to), Answer(c, r, e),
         to = "failed" => e # "none",
         move \in {"shortcut", "cached"} =>
           from = "outer" /\ to = "complete" /\ r # None
  PROVE  IInv'
  <1> USE DEF IInv
  <1>1. CallInv(c) /\ \A d \in Calls : CallInv(d) /\ Truthful(d)
    BY DEF TruthfulEvent, Truthful
  <1>2. TypeOK'
    BY DEF TypeOK, Does, Answer, pending
  <1>3. PendingBounded' /\ RecordsPlain'
    BY SameTable DEF Does
  <1>4. /\ pc[c] = from /\ pc'[c] = to /\ moves'[c] = moves[c] \cup {move}
        /\ reply'[c] = r /\ err'[c] = e
        /\ UNCHANGED <<tracked, task, tracing, exempt, events>>
    BY DEF TypeOK, Does, Answer
  <1>5. CallInv(c)'
    <2>1. ASSUME ~exempt'[c], ~Diverted(c)' PROVE EventCount(c)'
      <3>1. move \in {"shortcut", "cached"} /\ ~task[c] /\ ~Diverted(c)
        BY <1>4, <2>1 DEF Diverted
      <3>2. events[c] = <<>>
        BY <1>1, <1>4, <2>1, <3>1 DEF CallInv, EventCount
      <3> QED BY <1>4, <3>1, <3>2 DEF EventCount
    <2> QED BY <1>4, <2>1 DEF CallInv
  <1>6. Truthful(c)'
    BY <1>4 DEF Truthful
  <1>7. \A d \in Calls \ {c} :
          /\ pc'[d] = pc[d] /\ task'[d] = task[d] /\ tracing'[d] = tracing[d]
          /\ exempt'[d] = exempt[d] /\ moves'[d] = moves[d]
          /\ reply'[d] = reply[d] /\ err'[d] = err[d] /\ events'[d] = events[d]
    BY DEF TypeOK, Does, Answer
  <1> QED BY <1>1, <1>2, <1>3, <1>4, <1>5, <1>6, <1>7, OneCall

(* The outer middleware's moves, which publish nothing. *)
LEMMA OuterSteps ==
  ASSUME IInv, NEW c \in Calls, OuterStep(c)
  PROVE  IInv'
  <1> USE DEF IInv
  <1>1. CallInv(c) /\ \A d \in Calls : CallInv(d) /\ Truthful(d)
    BY DEF TruthfulEvent, Truthful
  <1>2. /\ Plain(<<c, 0>>) \in Results /\ Plain(<<c, 0>>) # None
        /\ \A d \in Calls : wire[d] \in Results \cup {None}
    BY Pointers DEF Contents, TypeOK
  <1>3. CASE Shortcut(c)
    BY <1>2, <1>3, DoesStep DEF Shortcut
  <1>4. CASE \E d \in Calls : Cached(c, d)
    BY <1>2, <1>4, DoesStep DEF Cached
  <1>5. CASE \E from \in {"outer", "returned"} : Fail(c, from)
    BY <1>5, DoesStep DEF Fail
  <1>6. CASE Rescue(c)
    BY <1>2, <1>6, DoesStep DEF Rescue
  <1>7. CASE Retry(c)
    BY <1>7, DoesStep DEF Retry
  <1>8. CASE Relay(c)
    <2>1. TypeOK'
      BY <1>8 DEF TypeOK, Relay, pending, replies
    <2>2. PendingBounded' /\ RecordsPlain'
      BY <1>8, SameTable DEF Relay
    <2>3. CallInv(c)' /\ Truthful(c)'
      BY <1>1, <1>8 DEF TypeOK, Relay, replies, CallInv, EventCount, ByMiddleware,
                        Reported, Diverted, Truthful
    <2> QED BY <1>1, <1>8, <2>1, <2>2, <2>3, OneCall DEF TypeOK, Relay, replies
  <1>9. CASE \E s \in Sessions \cup {None} : Replace(c, s)
    <2> PICK s \in Sessions \cup {None} : Replace(c, s)
      BY <1>9
    <2> DEFINE r == [content |-> <<c, 0>>, decor |-> s]
    <2>1. r \in Results /\ r # None
      BY Pointers DEF Results, Contents
    <2>2. TypeOK'
      BY <2>1 DEF TypeOK, Replace, pending
    <2>3. PendingBounded' /\ RecordsPlain'
      BY SameTable DEF Replace
    <2>4. CallInv(c)' /\ Truthful(c)'
      BY <1>1, <2>1 DEF TypeOK, Replace, CallInv, EventCount, ByMiddleware,
                        Reported, Diverted, Truthful
    <2> QED BY <1>1, <2>2, <2>3, <2>4, OneCall DEF TypeOK, Replace
  <1> QED BY <1>3, <1>4, <1>5, <1>6, <1>7, <1>8, <1>9 DEF OuterStep

-----------------------------------------------------------------------------
(* The hooks.                                                              *)

(* What every hook leaves behind, given what it did to the table and the   *)
(* events.                                                                 *)
LEMMA AnsweredStep ==
  ASSUME IInv, NEW c \in Calls, Answered(c), pc[c] \in {"failed", "complete"},
         DOMAIN records' \subseteq Results,
         \A q \in DOMAIN records' : records'[q] \in CallRecords,
         order' = order, overtaken' = overtaken,
         PendingBounded', RecordsPlain',
         events' \in [Calls -> Seq(CallEvents)],
         \A d \in Calls \ {c} : events'[d] = events[d],
         ~exempt[c] /\ ~Diverted(c) => Reported(c)',
         Truthful(c)'
  PROVE  IInv'
  <1> USE DEF IInv
  <1>1. CallInv(c) /\ \A d \in Calls : CallInv(d) /\ Truthful(d)
    BY DEF TruthfulEvent, Truthful
  <1>2. TypeOK'
    BY DEF TypeOK, Answered, replies
  <1>3. /\ pc'[c] = "answered"
        /\ UNCHANGED <<tracked, task, tracing, exempt, moves, reply, err>>
        /\ \A d \in Calls \ {c} : pc'[d] = pc[d]
    BY DEF TypeOK, Answered, replies
  <1>4. CallInv(c)'
    BY <1>3 DEF CallInv, EventCount, Diverted
  <1> QED BY <1>1, <1>2, <1>3, <1>4, OneCall

(* A hook that publishes. *)
LEMMA ReportedOnce ==
  ASSUME IInv, NEW c \in Calls, NEW s \in Sessions, NEW r \in Results \cup {None},
         PublishCall(c, s, r), tracked' = tracked
  PROVE  /\ events' \in [Calls -> Seq(CallEvents)]
         /\ \A d \in Calls \ {c} : events'[d] = events[d]
         /\ events[c] = <<>> => Reported(c)'
         /\ tracked => events'[c][Len(events'[c])].shows = r
  <1>1. events \in [Calls -> Seq(CallEvents)]
    BY DEF IInv, TypeOK
  <1>2. /\ events' \in [Calls -> Seq(CallEvents)]
        /\ \A d \in Calls \ {c} : events'[d] = events[d]
        /\ ~tracked => events' = events
        /\ tracked => /\ Len(events'[c]) = Len(events[c]) + 1
                      /\ events'[c][Len(events'[c])].shows = r
    BY <1>1, PublishCallAdds
  <1>3. events[c] = <<>> => Len(events[c]) = 0
    OBVIOUS
  <1>4. CASE tracked
    <2>1. events[c] = <<>> => Len(events'[c]) = 1
      BY <1>2, <1>3, <1>4
    <2> QED BY <1>2, <2>1 DEF Reported
  <1>5. CASE ~tracked
    <2>1. events[c] = <<>> => Len(events'[c]) <= 1
      BY <1>2, <1>3, <1>5
    <2> QED BY <1>2, <1>5, <2>1 DEF Reported
  <1> QED BY <1>4, <1>5

(* The steps of the hooks, which claim a record and publish. *)
LEMMA HookSteps ==
  ASSUME IInv, NEW c \in Calls, HookStep(c)
  PROVE  IInv'
  <1> USE DEF IInv
  <1>1. CallInv(c) /\ \A d \in Calls : CallInv(d) /\ Truthful(d)
    BY DEF TruthfulEvent, Truthful
  <1>2. /\ <<c, 0>> \in Sessions
        /\ reply[c] \in Results \cup {None}
        /\ reply[c] # None => Undecorate(reply[c]) \in Results
    BY Pointers DEF TypeOK, Undecorate
  <1>3. events \in [Calls -> Seq(CallEvents)]
    BY DEF TypeOK
  <1>4. CASE ErrorHook(c)
    <2>1. /\ Answered(c) /\ UNCHANGED pending /\ pc[c] = "failed"
          /\ tracked' = tracked /\ err' = err /\ task' = task
          /\ err[c] # "none"
      BY <1>1, <1>4 DEF ErrorHook, Answered, replies, CallInv
    <2>2. /\ events' \in [Calls -> Seq(CallEvents)]
          /\ \A d \in Calls \ {c} : events'[d] = events[d]
          /\ ~exempt[c] /\ ~Diverted(c) => Reported(c)'
      <3>1. CASE err[c] = "notfound" /\ ~task[c]
        <4>1. PublishCall(c, <<c, 0>>, None)
          BY <1>4, <3>1 DEF ErrorHook
        <4>2. ~exempt[c] /\ ~Diverted(c) => events[c] = <<>>
          BY <1>1, <2>1, <3>1 DEF CallInv, EventCount
        <4> QED BY <1>2, <2>1, <4>1, <4>2, ReportedOnce
      <3>2. CASE ~(err[c] = "notfound" /\ ~task[c])
        <4>1. UNCHANGED events
          BY <1>4, <3>2 DEF ErrorHook
        <4>2. ~exempt[c] /\ ~Diverted(c) => Reported(c)
          BY <1>1, <2>1, <3>2 DEF CallInv, EventCount
        <4> QED BY <1>3, <2>1, <4>1, <4>2 DEF Reported
      <3> QED BY <3>1, <3>2
    <2>3. Truthful(c)'
      BY <2>1 DEF Truthful
    <2>4. PendingBounded' /\ RecordsPlain'
      BY <2>1, SameTable
    <2>5. records' = records /\ order' = order /\ overtaken' = overtaken
      BY <2>1 DEF pending
    <2>6. /\ DOMAIN records' \subseteq Results
          /\ \A q \in DOMAIN records' : records'[q] \in CallRecords
      BY <2>5 DEF TypeOK
    <2> QED BY <2>1, <2>2, <2>3, <2>4, <2>5, <2>6, AnsweredStep
  <1>5. CASE AfterHookStandsDown(c)
    <2>1. /\ Answered(c) /\ UNCHANGED <<pending, events>> /\ pc[c] = "complete"
          /\ task[c] \/ reply[c] = None
          /\ tracked' = tracked /\ reply' = reply /\ task' = task
      BY <1>5 DEF AfterHookStandsDown, Answered, replies
    <2>2. ~exempt[c] /\ ~Diverted(c) => Reported(c)'
      BY <1>1, <2>1 DEF CallInv, EventCount, Reported
    <2>3. Truthful(c)'
      BY <2>1 DEF Truthful
    <2>4. PendingBounded' /\ RecordsPlain'
      BY <2>1, SameTable
    <2>5. records' = records /\ order' = order /\ overtaken' = overtaken
      BY <2>1 DEF pending
    <2>6. /\ DOMAIN records' \subseteq Results
          /\ \A q \in DOMAIN records' : records'[q] \in CallRecords
      BY <2>5 DEF TypeOK
    <2> QED BY <1>3, <2>1, <2>2, <2>3, <2>4, <2>5, <2>6, AnsweredStep
  <1>6. CASE AfterHookClaims(c)
    <2> DEFINE record == records[reply[c]]
    <2>1. /\ Answered(c) /\ Claim(reply[c]) /\ pc[c] = "complete" /\ ~task[c]
          /\ reply[c] \in DOMAIN records
          /\ PublishCall(c, record.session, record.original)
          /\ tracked' = tracked /\ reply' = reply
      BY <1>6 DEF AfterHookClaims, Answered, replies
    <2>2. /\ record.session \in Sessions /\ record.original \in Results
          /\ record.original = Plain(reply[c].content)
          /\ reply[c] # None
      BY <2>1, Pointers DEF TypeOK, CallRecords, RecordsPlain
    <2> HIDE DEF record
    <2>3. ~exempt[c] /\ ~Diverted(c) => events[c] = <<>>
      BY <1>1, <2>1, <2>2 DEF CallInv, EventCount
    <2>4. /\ events' \in [Calls -> Seq(CallEvents)]
          /\ \A d \in Calls \ {c} : events'[d] = events[d]
          /\ ~exempt[c] /\ ~Diverted(c) => Reported(c)'
          /\ tracked => events'[c][Len(events'[c])].shows = record.original
      BY <2>1, <2>2, <2>3, ReportedOnce
    <2>5. Truthful(c)'
      BY <2>1, <2>2, <2>4 DEF Truthful
    <2>6. /\ DOMAIN records' \subseteq Results
          /\ \A q \in DOMAIN records' : records'[q] \in CallRecords
          /\ order' = order /\ overtaken' = overtaken /\ PendingBounded'
          /\ \A q \in DOMAIN records' : q \in DOMAIN records /\ records'[q] = records[q]
      BY <2>1, ClaimKeepsTable
    <2>7. RecordsPlain'
      BY <2>6 DEF RecordsPlain
    <2> QED BY <2>1, <2>4, <2>5, <2>6, <2>7, AnsweredStep
  <1>7. CASE AfterHookMisses(c)
    <2>1. /\ Answered(c) /\ UNCHANGED pending /\ pc[c] = "complete" /\ ~task[c]
          /\ reply[c] # None
          /\ PublishCall(c, <<c, 0>>, Undecorate(reply[c]))
          /\ tracked' = tracked /\ reply' = reply
      BY <1>7 DEF AfterHookMisses, Answered, replies
    <2>2. ~exempt[c] /\ ~Diverted(c) => events[c] = <<>>
      BY <1>1, <2>1 DEF CallInv, EventCount
    <2>3. /\ events' \in [Calls -> Seq(CallEvents)]
          /\ \A d \in Calls \ {c} : events'[d] = events[d]
          /\ ~exempt[c] /\ ~Diverted(c) => Reported(c)'
          /\ tracked => events'[c][Len(events'[c])].shows = Undecorate(reply[c])
      BY <1>2, <2>1, <2>2, ReportedOnce
    <2>4. Truthful(c)'
      BY <2>1, <2>3 DEF Truthful, Undecorate
    <2>5. PendingBounded' /\ RecordsPlain'
      BY <2>1, SameTable
    <2>6. records' = records /\ order' = order /\ overtaken' = overtaken
      BY <2>1 DEF pending
    <2>7. /\ DOMAIN records' \subseteq Results
          /\ \A q \in DOMAIN records' : records'[q] \in CallRecords
      BY <2>6 DEF TypeOK
    <2> QED BY <2>1, <2>3, <2>4, <2>5, <2>6, <2>7, AnsweredStep
  <1> QED BY <1>4, <1>5, <1>6, <1>7 DEF HookStep

-----------------------------------------------------------------------------
(* Tracing that ends between two steps. *)
LEMMA UntrackStep ==
  ASSUME IInv, Untrack
  PROVE  IInv'
  <1>1. TypeOK'
    BY DEF IInv, TypeOK, Untrack, pending, progress, replies
  <1>2. PendingBounded' /\ RecordsPlain'
    BY SameTable DEF IInv, Untrack
  <1>3. /\ ~tracked'
        /\ UNCHANGED <<pc, task, tracing, exempt, moves, reply, err, events>>
    BY DEF Untrack, progress, replies
  <1>4. TruthfulEvent'
    BY <1>3 DEF TruthfulEvent
  <1>5. ASSUME NEW c \in Calls PROVE CallInv(c)'
    BY <1>3 DEF IInv, CallInv, EventCount, ByMiddleware, Reported, Diverted
  <1> QED BY <1>1, <1>2, <1>4, <1>5 DEF IInv

(* The invariants are about the variables alone. *)
LEMMA Stuttering ==
  ASSUME IInv, UNCHANGED vars
  PROVE  IInv'
  <1>1. TypeOK'
    BY DEF IInv, TypeOK, vars, pending, progress, replies
  <1>2. PendingBounded' /\ RecordsPlain'
    BY SameTable DEF IInv, vars
  <1>3. TruthfulEvent' /\ \A c \in Calls : CallInv(c)'
    BY DEF IInv, vars, progress, replies, TruthfulEvent, CallInv, EventCount,
           ByMiddleware, Reported, Diverted
  <1> QED BY <1>1, <1>2, <1>3 DEF IInv

(* The invariant holds initially and every step keeps it. *)
THEOREM Inductive == Spec => []IInv
  <1>1. Init => IInv
    <2> SUFFICES ASSUME Init PROVE IInv
      OBVIOUS
    <2>1. TypeOK
      BY ToolCallsAssumption DEF Init, TypeOK
    <2>2. PendingBounded /\ RecordsPlain
      BY ToolCallsAssumption DEF Init, PendingBounded, RecordsPlain
    <2>3. TruthfulEvent
      BY DEF Init, TruthfulEvent
    <2>4. \A c \in Calls : CallInv(c)
      BY DEF Init, CallInv, EventCount
    <2> QED BY <2>1, <2>2, <2>3, <2>4 DEF IInv
  <1>2. IInv /\ [Next]_vars => IInv'
    <2> SUFFICES ASSUME IInv, [Next]_vars PROVE IInv'
      OBVIOUS
    <2>1. CASE Untrack
      BY <2>1, UntrackStep
    <2>2. CASE UNCHANGED vars
      BY <2>2, Stuttering
    <2>3. ASSUME NEW c \in Calls, CallStep(c) PROVE IInv'
      <3>1. CASE \/ \E e \in {"notfound", "plain"} : RejectTool(c, e)
                 \/ RejectArguments(c) \/ RunTaskTool(c)
                 \/ \E t \in BOOLEAN : Dispatch(c, t)
                 \/ Enter(c)
        BY <3>1, BeforeHandlerSteps
      <3>2. CASE HandlerStep(c)
        <4>1. dispatched[c] \in 0 .. MaxDispatch
          BY DEF IInv, TypeOK
        <4>2. /\ Plain(<<c, dispatched[c]>>) \in Results /\ Plain(Shared) \in Results
              /\ \A s : Plain(s) = Plain(Plain(s).content)
          BY <4>1, Pointers DEF Plain, Contents
        <4>3. CASE \E r \in {Plain(<<c, dispatched[c]>>), Plain(Shared)}, b \in BOOLEAN :
                     HandlerReturns(c, r, "none", b)
          BY <4>2, <4>3, HandlerReturnsStep
        <4>4. CASE \E e \in {"none", "plain", "notfound"} : HandlerReturns(c, None, e, TRUE)
          BY <4>4, HandlerReturnsStep
        <4> QED BY <3>2, <4>3, <4>4, HandlerPanicsStep DEF HandlerStep
      <3>3. CASE OuterStep(c)
        BY <3>3, OuterSteps
      <3>4. CASE HookStep(c)
        BY <3>4, HookSteps
      <3> QED BY <2>3, <3>1, <3>2, <3>3, <3>4 DEF CallStep
    <2> QED BY <2>1, <2>2, <2>3 DEF Next, Terminated
  <1> QED BY <1>1, <1>2, PTL DEF Spec

(* Type correctness of the capture, for every number of calls: above all,  *)
(* only results and records of calls ever enter the table (stash, claim).  *)
THEOREM TypeCorrect == Spec => []TypeOK
  <1>1. IInv => TypeOK
    BY DEF IInv
  <1> QED BY <1>1, Inductive, PTL

(* The table of pending calls keeps its bound, and no record in it is out  *)
(* of the eviction's reach (stash).                                        *)
THEOREM TableBounded == Spec => []PendingBounded
  <1>1. IInv => PendingBounded
    BY DEF IInv
  <1> QED BY <1>1, Inductive, PTL

(* One event for each call within the guarantee, however many calls share  *)
(* the table, replace their results or are evicted from it, and whether    *)
(* claims hit or miss (failure_hooks.go:32).                               *)
THEOREM OneEvent == Spec => []ExactlyOneEvent
  <1>1. IInv => ExactlyOneEvent
    <2> SUFFICES ASSUME IInv, NEW c \in Calls, ~exempt[c], ~Diverted(c)
                 PROVE  /\ Len(events[c]) <= 1
                        /\ pc[c] = "answered" /\ tracked => Len(events[c]) = 1
      BY DEF ExactlyOneEvent
    <2>1. EventCount(c)
      BY DEF IInv, CallInv
    <2>2. events[c] = <<>> => Len(events[c]) = 0
      OBVIOUS
    <2>3. pc[c] \in {"idle", "outer", "handler", "returned", "failed",
                     "complete", "answered"}
      BY DEF IInv, TypeOK
    <2>4. events[c] = <<>> \/ Reported(c)
      BY <2>1, <2>3 DEF EventCount
    <2>5. pc[c] = "answered" => Reported(c)
      BY <2>1 DEF EventCount
    <2> QED BY <2>2, <2>4, <2>5 DEF Reported
  <1> QED BY <1>1, Inductive, PTL

(* The event shows the result that the client received, free of the SDK's  *)
(* own decoration, whichever record a claim came upon (undecorateResult).  *)
THEOREM EventTruthful == Spec => []TruthfulEvent
  <1>1. IInv => TruthfulEvent
    BY DEF IInv
  <1> QED BY <1>1, Inductive, PTL

-----------------------------------------------------------------------------
(* What is left of "exactly one event" for the calls outside the guarantee *)
(* (failure_hooks.go:32): tasks, panics, not-found errors of a handler and *)
(* calls that the outer middleware diverts as it likes.                    *)

(* Before the hooks no dispatch has had a second event, and the one under  *)
(* way has had none; the after-hook never runs for an error.               *)
Share(c) ==
  /\ Len(events[c]) <= dispatched[c] + (IF HookReports(c) THEN 1 ELSE 0)
  /\ pc[c] = "handler" => Len(events[c]) + 1 <= dispatched[c]
  /\ pc[c] = "complete" => err[c] = "none"
  /\ HookReports(c) /\ tracked => events[c] # <<>>

(* What a step of another call leaves alone. *)
Same(c) ==
  /\ pc'[c] = pc[c] /\ err'[c] = err[c] /\ reply'[c] = reply[c]
  /\ task'[c] = task[c] /\ dispatched'[c] = dispatched[c]
  /\ events'[c] = events[c] /\ tracked' = tracked

(* Such a step leaves its share alone as well. *)
LEMMA SameShare ==
  ASSUME NEW c \in Calls, Share(c), Same(c)
  PROVE  Share(c)'
  BY DEF Share, Same, HookReports

(* A step that publishes nothing and is neither an entry nor a hook. *)
LEMMA QuietShare ==
  ASSUME TypeOK, NEW c \in Calls, Share(c), pc[c] # "answered",
         pc'[c] \in {"outer", "returned", "failed", "complete"},
         pc'[c] = "complete" => err'[c] = "none",
         events'[c] = events[c], dispatched'[c] = dispatched[c]
  PROVE  Share(c)'
  BY DEF Share, HookReports

(* How a publication lengthens the events of a call. *)
LEMMA PublishLengthens ==
  ASSUME TypeOK, NEW c \in Calls, NEW s \in Sessions, NEW r \in Results \cup {None},
         PublishCall(c, s, r)
  PROVE  /\ \A d \in Calls \ {c} : events'[d] = events[d]
         /\ Len(events'[c]) \in Nat /\ Len(events'[c]) <= Len(events[c]) + 1
         /\ tracked => events'[c] # <<>>
  <1>1. events \in [Calls -> Seq(CallEvents)] /\ Len(events[c]) \in Nat
    BY DEF TypeOK
  <1>2. /\ \A d \in Calls \ {c} : events'[d] = events[d]
        /\ ~tracked => events' = events
        /\ tracked => Len(events'[c]) = Len(events[c]) + 1
    BY <1>1, PublishCallAdds
  <1>3. CASE tracked
    <2>1. Len(events'[c]) # 0
      BY <1>1, <1>2, <1>3
    <2>2. events'[c] # <<>>
      BY <2>1
    <2> QED BY <1>1, <1>2, <1>3, <2>2
  <1> QED BY <1>1, <1>2, <1>3

(* The steps of a call before its hooks. *)
LEMMA ShareBeforeHooks ==
  ASSUME TypeOK, NEW c \in Calls, Share(c),
         \/ \E e \in {"notfound", "plain"} : RejectTool(c, e)
         \/ RejectArguments(c) \/ RunTaskTool(c)
         \/ \E t \in BOOLEAN : Dispatch(c, t)
         \/ HandlerPanics(c) \/ OuterStep(c),
         pc[c] = "idle" => err[c] = "none"
  PROVE  Share(c)' /\ \A d \in Calls \ {c} : Same(d)
  <1>1. pc[c] # "answered"
    BY DEF RejectTool, RejectArguments, RunTaskTool, Dispatch, HandlerPanics, OuterStep,
           Shortcut, Relay, Rescue, Retry, Fail, Cached, Replace, Does
  <1>2. CASE ~OuterStep(c)
    BY <1>1, <1>2, QuietShare
    DEF RejectTool, RejectArguments, RunTaskTool, Dispatch, HandlerPanics, TypeOK, Same,
        replies
  <1>3. CASE Relay(c) \/ \E s \in Sessions \cup {None} : Replace(c, s)
    BY <1>1, <1>3, QuietShare DEF Relay, Replace, TypeOK, Same, replies
  <1>4. CASE \/ Shortcut(c) \/ Rescue(c) \/ Retry(c)
             \/ \E from \in {"outer", "returned"} : Fail(c, from)
             \/ \E d \in Calls : Cached(c, d)
    BY <1>1, <1>4, QuietShare
    DEF Shortcut, Rescue, Retry, Fail, Cached, Does, Answer, TypeOK, Same
  <1> QED BY <1>2, <1>3, <1>4 DEF OuterStep

(* The entry of the middleware makes room for one event ... *)
LEMMA ShareEnters ==
  ASSUME TypeOK, NEW c \in Calls, Share(c), Enter(c)
  PROVE  Share(c)' /\ \A d \in Calls \ {c} : Same(d)
  <1>1. Len(events[c]) \in Nat /\ dispatched[c] \in Nat
    BY DEF TypeOK
  <1>2. /\ pc[c] = "outer" /\ pc'[c] = "handler" /\ events' = events
        /\ dispatched'[c] = dispatched[c] + 1
    BY DEF Enter, TypeOK
  <1>3. \A d \in Calls \ {c} : Same(d)
    BY DEF Enter, TypeOK, Same, replies
  <1> QED BY <1>1, <1>2, <1>3 DEF Share, HookReports

(* ... which its capture may fill. *)
LEMMA ShareHandled ==
  ASSUME TypeOK, NEW c \in Calls, Share(c), NEW r \in Results \cup {None},
         NEW e \in {"none", "plain", "notfound"}, NEW b \in BOOLEAN,
         HandlerReturns(c, r, e, b)
  PROVE  Share(c)' /\ \A d \in Calls \ {c} : Same(d)
  <1> DEFINE s == <<c, dispatched[c]>>
             shown == IF e = "none" THEN r ELSE None
  <1>1. Len(events[c]) \in Nat /\ dispatched[c] \in Nat
    BY DEF TypeOK
  <1>2. /\ pc[c] = "handler" /\ pc' = [pc EXCEPT ![c] = "returned"]
        /\ err' = [err EXCEPT ![c] = e]
        /\ UNCHANGED <<tracked, task, dispatched>>
        /\ \A d \in Calls \ {c} : reply'[d] = reply[d]
    BY DEF HandlerReturns, TypeOK
  <1>3. UNCHANGED events \/ PublishCall(c, s, shown)
    BY DEF HandlerReturns, Capture
  <1>4. s \in Sessions /\ shown \in Results \cup {None}
    BY Pointers DEF TypeOK
  <1>5. /\ \A d \in Calls \ {c} : events'[d] = events[d]
        /\ Len(events'[c]) \in Nat /\ Len(events'[c]) <= Len(events[c]) + 1
    BY <1>1, <1>3, <1>4, PublishLengthens
  <1>6. pc'[c] = "returned" /\ dispatched'[c] = dispatched[c]
    BY <1>2 DEF TypeOK
  <1>7. \A d \in Calls \ {c} : Same(d)
    BY <1>2, <1>5 DEF TypeOK, Same
  <1> QED BY <1>1, <1>2, <1>5, <1>6, <1>7 DEF Share, HookReports

(* A hook adds the last event of a call, and does so where it must. *)
LEMMA ShareHooked ==
  ASSUME TypeOK, RecordsPlain, NEW c \in Calls, Share(c), HookStep(c),
         pc[c] = "failed" => err[c] # "none"
  PROVE  Share(c)' /\ \A d \in Calls \ {c} : Same(d)
  <1> DEFINE Ends == ~task[c] /\ (err[c] = "notfound" \/ (err[c] = "none" /\ reply[c] # None))
  <1>1. Len(events[c]) \in Nat /\ dispatched[c] \in Nat
    BY DEF TypeOK
  <1>2. /\ pc[c] \in {"failed", "complete"} /\ pc' = [pc EXCEPT ![c] = "answered"]
        /\ UNCHANGED <<tracked, task, dispatched, reply, err>>
    BY DEF HookStep, ErrorHook, AfterHookStandsDown, AfterHookClaims, AfterHookMisses,
           Answered, replies
  <1>3. /\ \A d \in Calls \ {c} : events'[d] = events[d]
        /\ Len(events'[c]) \in Nat /\ Len(events'[c]) <= Len(events[c]) + 1
        /\ ~Ends => events'[c] = events[c]
        /\ Ends /\ tracked => events'[c] # <<>>
    <2>1. <<c, 0>> \in Sessions /\ None \in Results \cup {None}
      BY Pointers
    <2>2. CASE ErrorHook(c)
      <3>1. CASE err[c] = "notfound" /\ ~task[c]
        BY <2>1, <2>2, <3>1, PublishLengthens DEF ErrorHook
      <3>2. CASE ~(err[c] = "notfound" /\ ~task[c])
        BY <1>1, <2>2, <3>2 DEF ErrorHook
      <3> QED BY <3>1, <3>2
    <2>3. CASE AfterHookStandsDown(c)
      BY <1>1, <2>3 DEF AfterHookStandsDown, Share
    <2>4. CASE AfterHookClaims(c)
      <3>1. records[reply[c]] \in CallRecords
        BY <2>4 DEF AfterHookClaims, TypeOK
      <3>2. /\ records[reply[c]].session \in Sessions
            /\ records[reply[c]].original \in Results \cup {None}
        BY <3>1 DEF CallRecords
      <3>3. Ends
        BY <2>4, Pointers DEF AfterHookClaims, Share, TypeOK
      <3> QED BY <2>4, <3>2, <3>3, PublishLengthens DEF AfterHookClaims
    <2>5. CASE AfterHookMisses(c)
      <3>1. Undecorate(reply[c]) \in Results \cup {None}
        BY <2>5, Pointers DEF AfterHookMisses, Undecorate, TypeOK
      <3>2. Ends
        BY <2>5 DEF AfterHookMisses, Share
      <3> QED BY <2>1, <2>5, <3>1, <3>2, PublishLengthens DEF AfterHookMisses
    <2> QED BY <2>2, <2>3, <2>4, <2>5 DEF HookStep
  <1>4. pc'[c] = "answered" /\ dispatched'[c] = dispatched[c]
    BY <1>2 DEF TypeOK
  <1>5. Share(c)'
    <2>1. Len(events[c]) <= dispatched[c]
      BY <1>1, <1>2 DEF Share, HookReports
    <2>2. HookReports(c)' <=> Ends
      BY <1>2, <1>4 DEF HookReports
    <2>3. Len(events'[c]) <= dispatched[c] + (IF Ends THEN 1 ELSE 0)
      BY <1>1, <1>3, <2>1
    <2> QED BY <1>2, <1>3, <1>4, <2>2, <2>3 DEF Share
  <1>6. \A d \in Calls \ {c} : Same(d)
    BY <1>2, <1>3 DEF TypeOK, Same
  <1> QED BY <1>5, <1>6

(* The same of every call; one that has not begun has no error. *)
Shares == \A c \in Calls : Share(c) /\ (pc[c] = "idle" => err[c] = "none")

(* Every step keeps the shares: the step of a call its own, and the others' *)
(* because it leaves them alone.                                           *)
LEMMA ShareNext == IInv /\ Shares /\ [Next]_vars => Shares'
  <1> SUFFICES ASSUME IInv, Shares, [Next]_vars PROVE Shares'
    OBVIOUS
  <1>1. TypeOK /\ RecordsPlain
    BY DEF IInv
  <1>2. CASE Untrack
    BY <1>2 DEF Untrack, Shares, Share, HookReports, progress, replies
  <1>3. CASE UNCHANGED vars
    BY <1>3 DEF vars, Shares, Share, HookReports, progress, replies
  <1>4. ASSUME NEW c \in Calls, CallStep(c) PROVE Shares'
    <2>1. /\ Share(c) /\ (pc[c] = "idle" => err[c] = "none")
          /\ pc[c] = "failed" => err[c] # "none"
      BY DEF IInv, CallInv, Shares
    <2>2. \A d \in Calls : Plain(<<d, dispatched[d]>>) \in Results /\ Plain(Shared) \in Results
      BY <1>1, Pointers DEF TypeOK, Contents
    <2>3. Share(c)' /\ \A d \in Calls \ {c} : Same(d)
      <3>1. CASE Enter(c)
        BY <1>1, <2>1, <3>1, ShareEnters
      <3>2. CASE HandlerStep(c)
        <4>1. CASE \E r \in {Plain(<<c, dispatched[c]>>), Plain(Shared)}, b \in BOOLEAN :
                     HandlerReturns(c, r, "none", b)
          BY <1>1, <2>1, <2>2, <4>1, ShareHandled
        <4>2. CASE \E e \in {"none", "plain", "notfound"} : HandlerReturns(c, None, e, TRUE)
          BY <1>1, <2>1, <4>2, ShareHandled
        <4>3. CASE HandlerPanics(c)
          BY <1>1, <2>1, <4>3, ShareBeforeHooks
        <4> QED BY <3>2, <4>1, <4>2, <4>3 DEF HandlerStep
      <3>3. CASE HookStep(c)
        BY <1>1, <2>1, <3>3, ShareHooked
      <3>4. CASE ~Enter(c) /\ ~HandlerStep(c) /\ ~HookStep(c)
        BY <1>1, <1>4, <2>1, <3>4, ShareBeforeHooks DEF CallStep
      <3> QED BY <3>1, <3>2, <3>3, <3>4
    <2>4. pc'[c] # "idle"
      BY <1>1, <1>4
      DEF TypeOK, CallStep, RejectTool, RejectArguments, RunTaskTool, Dispatch, Enter,
          HandlerStep, HandlerReturns, HandlerPanics, OuterStep, Shortcut, Relay, Rescue,
          Retry, Fail, Cached, Replace, Does, HookStep, ErrorHook, AfterHookStandsDown,
          AfterHookClaims, AfterHookMisses, Answered
    <2>5. ASSUME NEW d \in Calls PROVE Share(d)' /\ (pc'[d] = "idle" => err'[d] = "none")
      <3>1. CASE d = c
        BY <2>3, <2>4, <3>1
      <3>2. CASE d # c
        BY <2>3, <3>2, SameShare DEF Shares, Same
      <3> QED BY <3>1, <3>2
    <2> QED BY <2>5 DEF Shares
  <1> QED BY <1>2, <1>3, <1>4 DEF Next, Terminated

(* No call, whatever it is and whatever the outer middleware makes of it,  *)
(* gets more events than dispatches and one of a hook, and none of which a *)
(* hook reports the end goes without one while tracing is on               *)
(* (failure_hooks.go:32).                                                  *)
THEOREM OutsideTheGuarantee == Spec => []OneEventPerLook
  <1>1. Init => Shares
    <2> SUFFICES ASSUME Init, NEW c \in Calls
                 PROVE  Share(c) /\ err[c] = "none"
      BY DEF Shares
    <2>1. /\ events[c] = <<>> /\ dispatched[c] = 0 /\ pc[c] = "idle"
          /\ err[c] = "none"
      BY DEF Init
    <2>2. Len(events[c]) = 0
      BY <2>1
    <2> QED BY <2>1, <2>2 DEF Share, HookReports
  <1>2. Shares => OneEventPerLook
    BY DEF Shares, Share, OneEventPerLook
  <1> QED BY <1>1, <1>2, ShareNext, Inductive, PTL DEF Spec
=============================================================================
