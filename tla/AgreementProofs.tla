----------------------------- MODULE AgreementProofs -----------------------------
(***************************************************************************)
(* Proof that a call's event is filed under the session its agent was told, *)
(* for any number of calls and any capacity of the table.  The argument     *)
(* follows one record from its stash: its key bears a session that no other *)
(* result ever bears, so it is in the order once; each later stash moves it *)
(* one place at most towards its eviction, and only a call that was given   *)
(* the same result can claim it.                                            *)
(***************************************************************************)
EXTENDS ToolCallProofs

(* A session is spent once the middleware has returned a result under it: no  *)
(* later result bears it.                                                      *)
Spent(s) ==
  \E d \in Calls, n \in 0 .. MaxDispatch :
    /\ s = <<d, n>> /\ n <= dispatched[d]
    /\ pc[d] = "handler" => n < dispatched[d]

(* The result each call has in hand, and whose sessions results bear. *)
InHand(c) ==
  /\ pc[c] = "idle" => dispatched[c] = 0
  /\ dispatched[c] = 0 => wire[c] = None /\ pc[c] # "handler"
  /\ pc[c] \in {"idle", "outer", "handler", "failed"} => reply[c] = None
  /\ pc[c] = "returned" => reply[c] = wire[c] /\ (err[c] # "none" => reply[c] = None)
  /\ wire[c] # None /\ wire[c].decor # None => \E n \in 0 .. MaxDispatch : wire[c].decor = <<c, n>>

OrderSpent == \A i \in 1 .. Len(order) : order[i].decor = None \/ Spent(order[i].decor)

(* The client was told a session by the result the middleware returned, the *)
(* table had room since, and no other call that is over was given the result. *)
Holds(c) ==
  /\ reply[c] # None /\ reply[c] = wire[c] /\ wire[c].decor # None
  /\ overtaken[c] < Capacity
  /\ \A d \in Calls \ {c} : pc[d] = "answered" => reply[d] # wire[c]

(* Then its record waits, no nearer to its eviction than stashes came after. *)
Waits(c) ==
  ~task[c] /\ pc[c] \in {"returned", "complete"} /\ Holds(c) =>
    /\ wire[c] \in DOMAIN records /\ records[wire[c]].session = wire[c].decor
    /\ \A i \in 1 .. Len(order) : order[i] = wire[c] => Len(order) - i <= overtaken[c]

(* ... or its event was filed. *)
Filed(c) ==
  /\ pc[c] = "answered" \/ (task[c] /\ pc[c] \in {"returned", "complete"})
  /\ Holds(c) /\ tracked /\ events[c] # <<>>
  => events[c][Len(events[c])].session = wire[c].decor

AgreementInv == OrderSpent /\ \A c \in Calls : InHand(c) /\ Waits(c) /\ Filed(c)

-----------------------------------------------------------------------------
(* What a step of one call leaves alone.                                   *)

(* A step of c is about c: the others stay, and c was not over. *)
LEMMA StepOfOne ==
  ASSUME TypeOK, NEW c \in Calls, CallStep(c)
  PROVE  /\ tracked' = tracked /\ pc[c] # "answered"
         /\ \A d \in Calls \ {c} :
              /\ pc'[d] = pc[d] /\ task'[d] = task[d] /\ dispatched'[d] = dispatched[d]
              /\ wire'[d] = wire[d] /\ reply'[d] = reply[d] /\ err'[d] = err[d]
<1> USE DEF TypeOK, replies
<1>1. CASE \/ \E e \in {"notfound", "plain"} : RejectTool(c, e)
           \/ RejectArguments(c) \/ RunTaskTool(c)
           \/ \E t \in BOOLEAN : Dispatch(c, t)
           \/ Enter(c)
  BY <1>1 DEF RejectTool, RejectArguments, RunTaskTool, Dispatch, Enter
<1>2. ASSUME NEW r, NEW e, NEW b, HandlerReturns(c, r, e, b)
      PROVE  /\ tracked' = tracked /\ pc[c] # "answered"
             /\ \A d \in Calls \ {c} :
                  /\ pc'[d] = pc[d] /\ task'[d] = task[d] /\ dispatched'[d] = dispatched[d]
                  /\ wire'[d] = wire[d] /\ reply'[d] = reply[d] /\ err'[d] = err[d]
  <2> DEFINE w == IF tracing[c] /\ r # None /\ b THEN Decorate(r, <<c, dispatched[c]>>) ELSE r
  <2>1. wire' = [wire EXCEPT ![c] = w] /\ reply' = [reply EXCEPT ![c] = w]
    BY <1>2 DEF HandlerReturns
  <2>2. /\ pc[c] = "handler" /\ pc' = [pc EXCEPT ![c] = "returned"]
        /\ err' = [err EXCEPT ![c] = e] /\ UNCHANGED <<tracked, task, dispatched>>
    BY <1>2 DEF HandlerReturns
  <2> QED
    <3> HIDE DEF w
    <3> QED
      BY <2>1, <2>2
<1>3. CASE HandlerStep(c)
  <2>1. CASE HandlerPanics(c)
    BY <2>1 DEF HandlerPanics
  <2>2. CASE ~HandlerPanics(c)
    <3>1. PICK r, e, b : HandlerReturns(c, r, e, b)
      BY <1>3, <2>2 DEF HandlerStep
    <3> QED
      BY <1>2, <3>1
  <2> QED
    BY <2>1, <2>2
<1>4. CASE OuterStep(c)
  <2>1. CASE Shortcut(c) \/ Relay(c) \/ Rescue(c)
    BY <2>1 DEF Shortcut, Relay, Rescue, Does, Answer
  <2>2. CASE Retry(c) \/ \E from \in {"outer", "returned"} : Fail(c, from)
    BY <2>2 DEF Retry, Fail, Does, Answer
  <2>3. CASE \E d \in Calls : Cached(c, d)
    BY <2>3 DEF Cached, Does, Answer
  <2>4. CASE \E s \in Sessions \cup {None} : Replace(c, s)
    BY <2>4 DEF Replace
  <2> QED
    BY <1>4, <2>1, <2>2, <2>3, <2>4 DEF OuterStep
<1>5. CASE HookStep(c)
  BY <1>5 DEF HookStep, ErrorHook, AfterHookStandsDown, AfterHookClaims, AfterHookMisses, Answered
<1> QED
  BY <1>1, <1>3, <1>4, <1>5 DEF CallStep

(* ... and so do their events. *)
LEMMA EventsOfOne ==
  ASSUME TypeOK, NEW c \in Calls, CallStep(c)
  PROVE  \A d \in Calls \ {c} : events'[d] = events[d]
<1>1. ASSUME NEW s, NEW shows, PublishCall(c, s, shows)
      PROVE  \A d \in Calls \ {c} : events'[d] = events[d]
  BY <1>1 DEF PublishCall, TypeOK
<1>2. CASE \/ \E e \in {"notfound", "plain"} : RejectTool(c, e)
           \/ RejectArguments(c) \/ RunTaskTool(c)
           \/ \E t \in BOOLEAN : Dispatch(c, t)
           \/ Enter(c)
  BY <1>2 DEF RejectTool, RejectArguments, RunTaskTool, Dispatch, Enter
<1>3. ASSUME NEW r, NEW e, NEW b, HandlerReturns(c, r, e, b)
      PROVE  \A d \in Calls \ {c} : events'[d] = events[d]
  BY <1>1, <1>3 DEF HandlerReturns, Capture
<1>4. CASE HandlerStep(c)
  BY <1>3, <1>4 DEF HandlerStep, HandlerPanics
<1>5. CASE OuterStep(c)
  BY <1>5 DEF OuterStep, Shortcut, Relay, Rescue, Retry, Fail, Cached, Replace, Does
<1>6. CASE HookStep(c)
  BY <1>1, <1>6 DEF HookStep, ErrorHook, AfterHookStandsDown, AfterHookClaims, AfterHookMisses
<1> QED
  BY <1>2, <1>4, <1>5, <1>6 DEF CallStep

(* What the middleware returns for c at the end of its handler. *)
Returned(c, r, decorates) ==
  IF tracing[c] /\ r # None /\ decorates THEN Decorate(r, <<c, dispatched[c]>>) ELSE r

(* The table changes when the middleware stashes and when a hook claims. *)
LEMMA PendingCases ==
  ASSUME NEW c \in Calls, CallStep(c)
  PROVE  \/ UNCHANGED pending
         \/ \E r \in {Plain(<<c, dispatched[c]>>), Plain(Shared)}, b \in BOOLEAN :
              /\ HandlerReturns(c, r, "none", b)
              /\ Stash(c, Returned(c, r, b), [session |-> <<c, dispatched[c]>>, original |-> r])
         \/ AfterHookClaims(c)
<1>1. CASE \/ \E e \in {"notfound", "plain"} : RejectTool(c, e)
           \/ RejectArguments(c) \/ RunTaskTool(c)
           \/ \E t \in BOOLEAN : Dispatch(c, t)
           \/ Enter(c)
  BY <1>1 DEF RejectTool, RejectArguments, RunTaskTool, Dispatch, Enter
<1>2. ASSUME NEW r \in {Plain(<<c, dispatched[c]>>), Plain(Shared)}, NEW b \in BOOLEAN,
             HandlerReturns(c, r, "none", b)
      PROVE  \/ UNCHANGED pending
             \/ Stash(c, Returned(c, r, b), [session |-> <<c, dispatched[c]>>, original |-> r])
  BY <1>2 DEF HandlerReturns, Capture, Returned
<1>3. ASSUME NEW e \in {"none", "plain", "notfound"}, HandlerReturns(c, None, e, TRUE)
      PROVE  UNCHANGED pending
  BY <1>3 DEF HandlerReturns, Capture
<1>4. CASE HandlerStep(c)
  BY <1>2, <1>3, <1>4 DEF HandlerStep, HandlerPanics
<1>5. CASE OuterStep(c)
  BY <1>5 DEF OuterStep, Shortcut, Relay, Rescue, Retry, Fail, Cached, Replace, Does
<1>6. CASE HookStep(c)
  BY <1>6 DEF HookStep, ErrorHook, AfterHookStandsDown, AfterHookMisses
<1> QED
  BY <1>1, <1>4, <1>5, <1>6 DEF CallStep

(* A call that holds its result held it before another call's step. *)
LEMMA HeldBefore ==
  ASSUME TypeOK, NEW c \in Calls, CallStep(c), NEW d \in Calls,
         wire'[d] = wire[d], reply'[d] = reply[d],
         overtaken'[d] < Capacity => overtaken[d] < Capacity, Holds(d)'
  PROVE  Holds(d)
<1>1. \A e \in Calls \ {d} : pc[e] = "answered" => pc'[e] = "answered" /\ reply'[e] = reply[e]
  BY StepOfOne
<1> QED
  BY <1>1 DEF Holds

(* A session once spent stays so. *)
LEMMA SpentStays ==
  ASSUME TypeOK, NEW c \in Calls, CallStep(c), NEW s, Spent(s)
  PROVE  Spent(s)'
<1>1. PICK d \in Calls, n \in 0 .. MaxDispatch :
        /\ s = <<d, n>> /\ n <= dispatched[d]
        /\ pc[d] = "handler" => n < dispatched[d]
  BY DEF Spent
<1>2. CASE d # c
  BY <1>1, <1>2, StepOfOne DEF Spent
<1>3. CASE d = c
  <2>0. dispatched[c] \in Nat /\ n \in Nat
    BY ToolCallsAssumption DEF TypeOK
  <2>1. CASE Enter(c)
    <3>1. dispatched'[c] = dispatched[c] + 1
      BY <2>1 DEF Enter, TypeOK
    <3> QED
      BY <1>1, <1>3, <2>0, <3>1 DEF Spent
  <2>2. CASE ~Enter(c)
    <3>1. dispatched'[c] = dispatched[c] /\ pc'[c] # "handler"
      <4>1. CASE \/ \E e \in {"notfound", "plain"} : RejectTool(c, e)
                 \/ RejectArguments(c) \/ RunTaskTool(c)
                 \/ \E t \in BOOLEAN : Dispatch(c, t)
        BY <4>1 DEF RejectTool, RejectArguments, RunTaskTool, Dispatch, TypeOK
      <4>2. ASSUME NEW r, NEW e, NEW b, HandlerReturns(c, r, e, b)
            PROVE  dispatched'[c] = dispatched[c] /\ pc'[c] # "handler"
        BY <4>2 DEF HandlerReturns, TypeOK
      <4>3. CASE HandlerStep(c)
        BY <4>2, <4>3 DEF HandlerStep, HandlerPanics, TypeOK
      <4>4. CASE OuterStep(c)
        BY <4>4 DEF OuterStep, Shortcut, Relay, Rescue, Retry, Fail, Cached, Replace, Does, TypeOK
      <4>5. CASE HookStep(c)
        BY <4>5 DEF HookStep, ErrorHook, AfterHookStandsDown, AfterHookClaims, AfterHookMisses,
                    Answered, TypeOK
      <4> QED
        BY <2>2, <4>1, <4>3, <4>4, <4>5 DEF CallStep
    <3> QED
      BY <1>1, <1>3, <3>1 DEF Spent
  <2> QED
    BY <2>1, <2>2
<1> QED
  BY <1>2, <1>3

-----------------------------------------------------------------------------
(* What a stash does to the records of others, and to its own.             *)

(* The order after a stash: as it was, or a place further on. *)
LEMMA StashShifts ==
  ASSUME TypeOK, PendingBounded, NEW c \in Calls, NEW r \in Results, NEW record \in CallRecords,
         Stash(c, r, record)
  PROVE  /\ r \in DOMAIN records => order' = order /\ DOMAIN records' = DOMAIN records
         /\ r \notin DOMAIN records => \E excess \in {0, 1} :
              /\ excess = 1 => Len(order) = Capacity
              /\ Len(order') = Len(order) - excess + 1 /\ order'[Len(order')] = r
              /\ \A i \in 1 .. (Len(order') - 1) :
                   i + excess \in 1 .. Len(order) /\ order'[i] = order[i + excess]
              /\ \A q \in DOMAIN records :
                   q \in DOMAIN records' \/ (excess = 1 /\ q = order[1])
         /\ r \in DOMAIN records' /\ records'[r] = record
         /\ \A q \in DOMAIN records : q # r /\ q \in DOMAIN records' => records'[q] = records[q]
<1> DEFINE excess == IF r \in DOMAIN records \/ Len(order) < Capacity THEN 0
                     ELSE Len(order) - Capacity + 1
           evicted == {order[i] : i \in 1 .. excess}
           kept == SubSeq(order, excess + 1, Len(order))
<1> USE DEF TypeOK
<1>1. /\ Capacity \in Nat /\ Capacity > 0 /\ Len(order) \in Nat /\ Len(order) <= Capacity
      /\ excess \in {0, 1} /\ (excess = 1 => Len(order) = Capacity)
      /\ r \in DOMAIN records => excess = 0
  BY ToolCallsAssumption DEF PendingBounded
<1>2. /\ order' = IF r \in DOMAIN records THEN order ELSE Append(kept, r)
      /\ records' = [q \in (DOMAIN records \ evicted) \cup {r} |->
                       IF q = r THEN record ELSE records[q]]
  BY DEF Stash
<1> HIDE DEF excess
<1>3. /\ kept \in Seq(Results) /\ Len(kept) = Len(order) - excess /\ Len(kept) \in Nat
      /\ \A i \in 1 .. Len(kept) : kept[i] = order[i + excess] /\ i + excess \in 1 .. Len(order)
  BY <1>1
<1>4. excess = 0 => evicted = {}
  BY <1>1
<1>5. excess = 1 => evicted = {order[1]}
  BY <1>1
<1> HIDE DEF kept, evicted
<1>6. /\ Len(Append(kept, r)) = Len(kept) + 1 /\ Append(kept, r)[Len(kept) + 1] = r
      /\ \A i \in 1 .. Len(kept) : Append(kept, r)[i] = kept[i]
  BY <1>3
<1>7. r \in DOMAIN records => order' = order /\ DOMAIN records' = DOMAIN records
  <2> SUFFICES ASSUME r \in DOMAIN records PROVE order' = order /\ DOMAIN records' = DOMAIN records
    OBVIOUS
  <2>1. (DOMAIN records \ evicted) \cup {r} = DOMAIN records
    BY <1>1, <1>4
  <2> QED
    BY <1>2, <2>1
<1>8. ASSUME r \notin DOMAIN records
      PROVE  /\ Len(order') = Len(order) - excess + 1 /\ order'[Len(order')] = r
             /\ \A i \in 1 .. (Len(order') - 1) :
                  i + excess \in 1 .. Len(order) /\ order'[i] = order[i + excess]
             /\ \A q \in DOMAIN records : q \in DOMAIN records' \/ (excess = 1 /\ q = order[1])
  <2>1. order' = Append(kept, r)
    BY <1>2, <1>8
  <2>2. Len(order') = Len(order) - excess + 1 /\ order'[Len(order')] = r
    BY <1>1, <1>3, <1>6, <2>1
  <2>3. ASSUME NEW i \in 1 .. (Len(order') - 1)
        PROVE  i + excess \in 1 .. Len(order) /\ order'[i] = order[i + excess]
    <3>1. i \in 1 .. Len(kept)
      BY <1>1, <1>3, <2>2
    <3> QED
      BY <1>3, <1>6, <2>1, <3>1
  <2>4. \A q \in DOMAIN records : q \in DOMAIN records' \/ (excess = 1 /\ q = order[1])
    BY <1>1, <1>2, <1>4, <1>5
  <2> QED
    BY <2>2, <2>3, <2>4
<1>9. /\ r \in DOMAIN records' /\ records'[r] = record
      /\ \A q \in DOMAIN records : q # r /\ q \in DOMAIN records' => records'[q] = records[q]
  BY <1>2
<1> QED
  BY <1>1, <1>7, <1>8, <1>9

(* One more in the order and one more overtaking leave the distance covered. *)
LEMMA NoNearer ==
  ASSUME NEW len \in Nat, NEW excess \in Nat, NEW i \in Nat, NEW covered \in Nat,
         len - (i + excess) <= covered
  PROVE  (len - excess + 1) - i <= covered + 1
  OBVIOUS

(* Another call's record stays until Capacity stashes came after its own, *)
(* each of which moves it one place at most.                               *)
LEMMA StashKeepsOthers ==
  ASSUME TypeOK, PendingBounded, NEW c \in Calls, NEW r \in Results, NEW record \in CallRecords,
         Stash(c, r, record), NEW d \in Calls \ {c}, NEW q \in DOMAIN records, q # r,
         overtaken'[d] < Capacity,
         \A i \in 1 .. Len(order) : order[i] = q => Len(order) - i <= overtaken[d]
  PROVE  /\ q \in DOMAIN records' /\ records'[q] = records[q]
         /\ \A i \in 1 .. Len(order') : order'[i] = q => Len(order') - i <= overtaken'[d]
<1>1. overtaken[d] \in Nat /\ Capacity \in Nat /\ Len(order) \in Nat /\ Len(order) <= Capacity
  BY ToolCallsAssumption DEF TypeOK, PendingBounded
<1>2. overtaken[d] < Capacity /\ overtaken'[d] = overtaken[d] + 1
  <2>1. overtaken'[d] = IF overtaken[d] < Capacity THEN overtaken[d] + 1 ELSE overtaken[d]
    BY DEF Stash
  <2> QED
    BY <1>1, <2>1
<1>3. CASE r \in DOMAIN records
  <2>1. order' = order /\ DOMAIN records' = DOMAIN records /\ records'[q] = records[q]
    BY <1>3, StashShifts
  <2> QED
    BY <1>1, <1>2, <2>1
<1>4. CASE r \notin DOMAIN records
  <2>1. PICK excess \in {0, 1} :
          /\ excess = 1 => Len(order) = Capacity
          /\ Len(order') = Len(order) - excess + 1 /\ order'[Len(order')] = r
          /\ \A i \in 1 .. (Len(order') - 1) :
               i + excess \in 1 .. Len(order) /\ order'[i] = order[i + excess]
          /\ \A p \in DOMAIN records : p \in DOMAIN records' \/ (excess = 1 /\ p = order[1])
    BY <1>4, StashShifts
  <2>2. ~(excess = 1 /\ q = order[1])
    <3> SUFFICES ASSUME excess = 1, q = order[1] PROVE FALSE
      OBVIOUS
    <3>1. Len(order) = Capacity /\ 1 \in 1 .. Len(order)
      BY <2>1, ToolCallsAssumption
    <3>2. Len(order) - 1 <= overtaken[d]
      BY <3>1
    <3> QED
      BY <1>1, <1>2, <3>1, <3>2
  <2>3. q \in DOMAIN records' /\ records'[q] = records[q]
    BY <2>1, <2>2, StashShifts
  <2>4. ASSUME NEW i \in 1 .. Len(order'), order'[i] = q
        PROVE  Len(order') - i <= overtaken'[d]
    <3>1. i \in 1 .. (Len(order') - 1)
      BY <1>1, <2>1, <2>4
    <3>2. Len(order) - (i + excess) <= overtaken[d]
      BY <2>1, <2>4, <3>1
    <3>3. Len(order') = Len(order) - excess + 1
      BY <2>1
    <3>4. i \in Nat /\ excess \in Nat
      BY <3>1
    <3> QED
      BY <1>1, <1>2, <3>2, <3>3, <3>4, NoNearer
  <2> QED
    BY <2>3, <2>4
<1> QED
  BY <1>3, <1>4

(* The record of a result that was never in the order is its last. *)
LEMMA StashOfNew ==
  ASSUME TypeOK, PendingBounded, NEW c \in Calls, NEW r \in Results, NEW record \in CallRecords,
         Stash(c, r, record), \A i \in 1 .. Len(order) : order[i] # r
  PROVE  /\ r \in DOMAIN records' /\ records'[r] = record
         /\ \A i \in 1 .. Len(order') : order'[i] = r => Len(order') - i <= overtaken'[c]
<1>1. r \notin DOMAIN records
  BY DEF PendingBounded
<1>2. PICK excess \in {0, 1} :
        /\ Len(order') = Len(order) - excess + 1
        /\ \A i \in 1 .. (Len(order') - 1) :
             i + excess \in 1 .. Len(order) /\ order'[i] = order[i + excess]
  BY <1>1, StashShifts
<1>3. overtaken'[c] = 0 /\ Len(order) \in Nat
  BY DEF Stash, TypeOK
<1>4. ASSUME NEW i \in 1 .. Len(order'), order'[i] = r PROVE Len(order') - i <= overtaken'[c]
  <2>1. i \notin 1 .. (Len(order') - 1)
    BY <1>2, <1>4
  <2> QED
    BY <1>2, <1>3, <2>1
<1> QED
  BY <1>4, StashShifts

-----------------------------------------------------------------------------
(* What a step of c does to the other calls.                               *)

(* The stash of c leaves the bound of the others' counts alone. *)
LEMMA OvertakenGrows ==
  ASSUME TypeOK, NEW c \in Calls, CallStep(c), NEW d \in Calls \ {c}
  PROVE  overtaken'[d] < Capacity => overtaken[d] < Capacity
<1>1. overtaken[d] \in Nat /\ Capacity \in Nat
  BY ToolCallsAssumption DEF TypeOK
<1>2. ASSUME NEW r, NEW record, Stash(c, r, record)
      PROVE  overtaken'[d] < Capacity => overtaken[d] < Capacity
  <2>1. overtaken'[d] = IF overtaken[d] < Capacity THEN overtaken[d] + 1 ELSE overtaken[d]
    BY <1>2 DEF Stash
  <2> QED
    BY <1>1, <2>1
<1>3. UNCHANGED pending => overtaken' = overtaken
  BY DEF pending
<1>4. AfterHookClaims(c) => overtaken' = overtaken
  BY DEF AfterHookClaims, Claim
<1> QED
  BY <1>2, <1>3, <1>4, PendingCases

(* What the middleware returns is decorated with the session of this very  *)
(* dispatch, or not at all.                                                *)
LEMMA ReturnedResult ==
  ASSUME TypeOK, NEW c \in Calls,
         NEW r \in {Plain(<<c, dispatched[c]>>), Plain(Shared)}, NEW b
  PROVE  /\ <<c, dispatched[c]>> \in Sessions
         /\ r \in Results /\ r # None /\ r.decor = None
         /\ Returned(c, r, b) \in Results
         /\ Returned(c, r, b).decor \in {None, <<c, dispatched[c]>>}
         /\ [session |-> <<c, dispatched[c]>>, original |-> r] \in CallRecords
<1>1. dispatched[c] \in 0 .. MaxDispatch
  BY DEF TypeOK
<1>2. <<c, dispatched[c]>> \in Sessions /\ r \in Results /\ r # None /\ r.decor = None
  BY <1>1, Pointers DEF Plain, Contents
<1>3. /\ Decorate(r, <<c, dispatched[c]>>) \in Results
      /\ Decorate(r, <<c, dispatched[c]>>).decor = <<c, dispatched[c]>>
  BY <1>2, Pointers DEF Decorate, Results
<1>4. [session |-> <<c, dispatched[c]>>, original |-> r] \in CallRecords
  BY <1>2 DEF CallRecords
<1> QED
  BY <1>2, <1>3, <1>4 DEF Returned

(* The record of another call waits on: a stash moves it, a claim of it is *)
(* made by a call that was given the same result.                          *)
LEMMA OthersWait ==
  ASSUME IInv, NEW c \in Calls, CallStep(c), NEW d \in Calls \ {c}, InHand(d), Waits(d)
  PROVE  Waits(d)'
<1> USE DEF IInv
<1> SUFFICES ASSUME ~task'[d], pc'[d] \in {"returned", "complete"}, Holds(d)'
             PROVE  /\ wire'[d] \in DOMAIN records' /\ records'[wire'[d]].session = wire'[d].decor
                    /\ \A i \in 1 .. Len(order') : order'[i] = wire'[d] => Len(order') - i <= overtaken'[d]
  BY DEF Waits
<1>1. /\ wire'[d] = wire[d] /\ reply'[d] = reply[d] /\ task'[d] = task[d] /\ pc'[d] = pc[d]
      /\ overtaken'[d] < Capacity
  BY StepOfOne DEF Holds
<1>2. Holds(d)
  BY <1>1, HeldBefore, OvertakenGrows
<1>3. /\ wire[d] \in DOMAIN records /\ records[wire[d]].session = wire[d].decor
      /\ \A i \in 1 .. Len(order) : order[i] = wire[d] => Len(order) - i <= overtaken[d]
  BY <1>1, <1>2 DEF Waits
<1>4. CASE UNCHANGED pending
  BY <1>1, <1>3, <1>4 DEF pending
<1>5. ASSUME NEW r \in {Plain(<<c, dispatched[c]>>), Plain(Shared)}, NEW b \in BOOLEAN,
             Stash(c, Returned(c, r, b), [session |-> <<c, dispatched[c]>>, original |-> r])
      PROVE  /\ wire[d] \in DOMAIN records' /\ records'[wire[d]].session = wire[d].decor
             /\ \A i \in 1 .. Len(order') : order'[i] = wire[d] => Len(order') - i <= overtaken'[d]
  <2>1. PICK n \in 0 .. MaxDispatch : wire[d].decor = <<d, n>>
    BY <1>2 DEF InHand, Holds
  <2>2. wire[d].decor # None /\ wire[d].decor # <<c, dispatched[c]>>
    BY <1>2, <2>1 DEF Holds
  <2> DEFINE w == Returned(c, r, b)
             record == [session |-> <<c, dispatched[c]>>, original |-> r]
  <2>3. w \in Results /\ record \in CallRecords /\ w.decor \in {None, <<c, dispatched[c]>>}
    <3>1. TypeOK
      OBVIOUS
    <3> HIDE DEF IInv
    <3> QED
      BY <3>1, ReturnedResult
  <2>4. Stash(c, w, record)
    BY <1>5
  <2> HIDE DEF w, record
  <2>5. w # wire[d]
    BY <2>2, <2>3
  <2> QED
    BY <1>1, <1>3, <2>3, <2>4, <2>5, StashKeepsOthers
<1>6. CASE AfterHookClaims(c)
  <2>1. pc'[c] = "answered" /\ reply'[c] = reply[c] /\ Claim(reply[c])
    BY <1>6 DEF AfterHookClaims, Answered, replies, TypeOK
  <2>2. reply[c] # wire[d]
    BY <1>1, <2>1 DEF Holds
  <2> QED
    BY <1>1, <1>3, <2>1, <2>2 DEF Claim
<1> QED
  BY <1>1, <1>4, <1>5, <1>6, PendingCases

(* All of it, for a call that does not move. *)
LEMMA OthersKeep ==
  ASSUME IInv, NEW c \in Calls, CallStep(c), NEW d \in Calls \ {c},
         InHand(d), Waits(d), Filed(d)
  PROVE  InHand(d)' /\ Waits(d)' /\ Filed(d)'
<1>1. TypeOK
  BY DEF IInv
<1>2. /\ pc'[d] = pc[d] /\ task'[d] = task[d] /\ dispatched'[d] = dispatched[d]
      /\ wire'[d] = wire[d] /\ reply'[d] = reply[d] /\ err'[d] = err[d]
      /\ tracked' = tracked /\ events'[d] = events[d]
  BY <1>1, StepOfOne, EventsOfOne
<1>3. InHand(d)'
  BY <1>2 DEF InHand
<1>4. Holds(d)' => Holds(d)
  BY <1>1, <1>2, HeldBefore, OvertakenGrows
<1>5. Filed(d)'
  BY <1>2, <1>4 DEF Filed
<1> QED
  BY <1>3, <1>5, OthersWait

(* The sessions in the order stay spent: c's is when its handler returns.  *)
LEMMA OrderStaysSpent ==
  ASSUME IInv, OrderSpent, NEW c \in Calls, CallStep(c)
  PROVE  OrderSpent'
<1> USE DEF IInv
<1>1. ASSUME NEW i \in 1 .. Len(order), NEW q, q = order[i]
      PROVE  q.decor = None \/ Spent(q.decor)'
  BY <1>1, SpentStays DEF OrderSpent
<1> SUFFICES ASSUME NEW i \in 1 .. Len(order'), NEW q, q = order'[i]
             PROVE  q.decor = None \/ Spent(q.decor)'
  BY DEF OrderSpent
<1>2. CASE UNCHANGED pending
  BY <1>1, <1>2 DEF pending
<1>3. ASSUME NEW r \in {Plain(<<c, dispatched[c]>>), Plain(Shared)}, NEW b \in BOOLEAN,
             HandlerReturns(c, r, "none", b),
             Stash(c, Returned(c, r, b), [session |-> <<c, dispatched[c]>>, original |-> r])
      PROVE  q.decor = None \/ Spent(q.decor)'
  <2>1. PICK w \in Results, record \in CallRecords, s \in Sessions :
          /\ s = <<c, dispatched[c]>> /\ w.decor \in {None, s}
          /\ Stash(c, w, record)
    BY <1>3, ReturnedResult
  <2>2. Spent(s)'
    <3>1. dispatched[c] \in 0 .. MaxDispatch /\ dispatched'[c] = dispatched[c] /\ pc'[c] = "returned"
      BY <1>3 DEF HandlerReturns, TypeOK
    <3> QED
      BY <2>1, <3>1 DEF Spent
  <2>3. w.decor = None \/ Spent(w.decor)'
    BY <2>1, <2>2
  <2>4. q = w \/ \E j \in 1 .. Len(order) : q = order[j]
    <3>1. CASE w \in DOMAIN records
      BY <2>1, <3>1, StashShifts
    <3>2. CASE w \notin DOMAIN records
      <4>1. PICK excess \in {0, 1} :
              /\ Len(order') = Len(order) - excess + 1 /\ order'[Len(order')] = w
              /\ \A k \in 1 .. (Len(order') - 1) :
                   k + excess \in 1 .. Len(order) /\ order'[k] = order[k + excess]
        BY <2>1, <3>2, StashShifts
      <4>2. Len(order) \in Nat
        BY DEF TypeOK
      <4>3. i = Len(order') \/ i \in 1 .. (Len(order') - 1)
        BY <4>1, <4>2
      <4> QED
        BY <4>1, <4>3
    <3> QED
      BY <3>1, <3>2
  <2> QED
    BY <1>1, <2>3, <2>4
<1>4. CASE AfterHookClaims(c)
  <2>1. order' = order
    BY <1>4 DEF AfterHookClaims, Claim
  <2> QED
    BY <1>1, <2>1
<1> QED
  BY <1>2, <1>3, <1>4, PendingCases

-----------------------------------------------------------------------------
(* What a step of c does to c itself.                                      *)

(* What the handler of c returns travels on as the middleware decorated it. *)
LEMMA HandlerHands ==
  ASSUME TypeOK, NEW c \in Calls, InHand(c), HandlerStep(c)
  PROVE  InHand(c)'
<1> USE DEF TypeOK
<1>1. ASSUME NEW r \in {Plain(<<c, dispatched[c]>>), Plain(Shared)}, NEW b \in BOOLEAN,
             HandlerReturns(c, r, "none", b)
      PROVE  InHand(c)'
  <2>1. /\ wire'[c] = Returned(c, r, b) /\ reply'[c] = wire'[c] /\ err'[c] = "none"
        /\ pc'[c] = "returned" /\ dispatched'[c] = dispatched[c] /\ pc[c] = "handler"
    BY <1>1 DEF HandlerReturns, Returned
  <2>2. dispatched[c] # 0 /\ dispatched[c] \in 0 .. MaxDispatch
    BY <2>1 DEF InHand
  <2>3. wire'[c].decor \in {None, <<c, dispatched[c]>>}
    BY <2>1, ReturnedResult
  <2> QED
    BY <2>1, <2>2, <2>3 DEF InHand
<1>2. ASSUME NEW e \in {"none", "plain", "notfound"}, HandlerReturns(c, None, e, TRUE)
      PROVE  InHand(c)'
  <2>1. /\ wire'[c] = None /\ reply'[c] = None /\ pc'[c] = "returned" /\ pc[c] = "handler"
        /\ dispatched'[c] = dispatched[c]
    BY <1>2 DEF HandlerReturns
  <2> QED
    BY <2>1 DEF InHand
<1>3. CASE HandlerPanics(c)
  BY <1>3 DEF HandlerPanics, InHand
<1> QED
  BY <1>1, <1>2, <1>3 DEF HandlerStep

(* No other step changes what the middleware returned. *)
LEMMA MoverHands ==
  ASSUME TypeOK, NEW c \in Calls, InHand(c), CallStep(c)
  PROVE  InHand(c)'
<1> USE DEF TypeOK, InHand
<1>1. CASE \/ \E e \in {"notfound", "plain"} : RejectTool(c, e)
           \/ RejectArguments(c) \/ RunTaskTool(c)
           \/ \E t \in BOOLEAN : Dispatch(c, t)
  BY <1>1 DEF RejectTool, RejectArguments, RunTaskTool, Dispatch, replies
<1>2. CASE Enter(c)
  <2>1. dispatched'[c] = dispatched[c] + 1 /\ dispatched[c] \in Nat /\ pc'[c] = "handler"
    BY <1>2, ToolCallsAssumption DEF Enter
  <2>2. wire' = wire /\ reply' = reply /\ err' = err /\ pc[c] = "outer"
    BY <1>2 DEF Enter, replies
  <2>3. dispatched'[c] # 0
    BY <2>1
  <2> QED
    BY <2>1, <2>2, <2>3
<1>3. CASE OuterStep(c)
  <2>1. ASSUME Does(c, "shortcut", "outer", "complete") \/ Does(c, "cached", "outer", "complete")
               \/ Does(c, "rescue", "returned", "complete")
        PROVE  InHand(c)'
    BY <2>1 DEF Does
  <2>2. CASE Shortcut(c) \/ Rescue(c) \/ \E d \in Calls : Cached(c, d)
    BY <2>1, <2>2 DEF Shortcut, Rescue, Cached
  <2>3. CASE (\E from \in {"outer", "returned"} : Fail(c, from)) \/ Retry(c)
    BY <2>3 DEF Fail, Retry, Does, Answer
  <2>4. CASE Relay(c)
    BY <2>4 DEF Relay, replies
  <2>5. CASE \E s \in Sessions \cup {None} : Replace(c, s)
    BY <2>5 DEF Replace
  <2> QED
    BY <1>3, <2>2, <2>3, <2>4, <2>5 DEF OuterStep
<1>4. CASE HookStep(c)
  BY <1>4 DEF HookStep, ErrorHook, AfterHookStandsDown, AfterHookClaims, AfterHookMisses,
              Answered, replies
<1> QED
  BY <1>1, <1>2, <1>3, <1>4, HandlerHands DEF CallStep

(* The result in hand goes on its way, and nothing else happens. *)
LEMMA OnItsWay ==
  ASSUME TypeOK, NEW c \in Calls, CallStep(c), Waits(c), Filed(c),
         pc[c] = "returned", pc'[c] = "complete",
         reply'[c] = wire'[c] => reply[c] = wire[c],
         UNCHANGED <<tracked, pending, task, wire, events>>
  PROVE  Waits(c)' /\ Filed(c)'
<1>1. \A e \in Calls \ {c} : pc[e] = "answered" => pc'[e] = "answered" /\ reply'[e] = reply[e]
  BY StepOfOne
<1>2. wire' = wire /\ overtaken' = overtaken /\ records' = records /\ order' = order
      /\ task' = task /\ tracked' = tracked /\ events' = events
  BY DEF pending
<1>3. reply[c] = wire[c] /\ wire[c] # None => reply[c] # None
  OBVIOUS
<1>4. Holds(c)' => Holds(c)
  BY <1>1, <1>2, <1>3 DEF Holds
<1> QED
  BY <1>2, <1>4 DEF Waits, Filed

(* The outer middleware's moves: only a result passed on is still held. *)
LEMMA OuterKeeps ==
  ASSUME TypeOK, NEW c \in Calls, OuterStep(c), InHand(c), Waits(c), Filed(c)
  PROVE  Waits(c)' /\ Filed(c)'
<1>0. CallStep(c)
  BY DEF CallStep
<1>1. CASE Shortcut(c) \/ Rescue(c)
  <2>1. reply'[c] = Plain(<<c, 0>>)
    BY <1>1 DEF Shortcut, Rescue, Answer, TypeOK
  <2>2. ~Holds(c)'
    BY <2>1 DEF Holds, Plain
  <2> QED
    BY <2>2 DEF Waits, Filed
<1>2. CASE \E d \in Calls : Cached(c, d)
  <2>1. wire'[c] = wire[c] /\ wire[c] = None
    BY <1>2 DEF Cached, Does, InHand
  <2>2. ~Holds(c)'
    BY <2>1 DEF Holds
  <2> QED
    BY <2>2 DEF Waits, Filed
<1>3. CASE (\E from \in {"outer", "returned"} : Fail(c, from)) \/ Retry(c)
  <2>1. reply'[c] = None
    BY <1>3 DEF Fail, Retry, Answer, TypeOK
  <2>2. ~Holds(c)'
    BY <2>1 DEF Holds
  <2> QED
    BY <2>2 DEF Waits, Filed
<1>4. CASE Relay(c)
  <2>1. CASE err[c] = "none"
    BY <1>0, <1>4, <2>1, OnItsWay DEF Relay, replies, TypeOK
  <2>2. CASE err[c] # "none"
    <3>1. reply'[c] = None
      BY <1>4, <2>2 DEF Relay, replies, InHand
    <3> QED
      BY <3>1 DEF Waits, Filed, Holds
  <2> QED
    BY <2>1, <2>2
<1>5. CASE \E s \in Sessions \cup {None} : Replace(c, s)
  <2>1. /\ pc[c] = "returned" /\ pc'[c] = "complete" /\ reply[c] = wire[c]
        /\ UNCHANGED <<tracked, pending, task, wire, events>>
    BY <1>5 DEF Replace, InHand, TypeOK
  <2> QED
    BY <1>0, <2>1, OnItsWay
<1> QED
  BY <1>1, <1>2, <1>3, <1>4, <1>5 DEF OuterStep

(* One event more, under the session it was published for. *)
LEMMA PublishedUnder ==
  ASSUME TypeOK, NEW c \in Calls, NEW s, NEW shows, PublishCall(c, s, shows), tracked
  PROVE  events'[c][Len(events'[c])].session = s
<1> DEFINE e == [session |-> s, shows |-> shows]
<1>1. events'[c] = Append(events[c], e) /\ events[c] \in Seq(CallEvents)
  BY DEF PublishCall, TypeOK
<1>2. Len(events'[c]) = Len(events[c]) + 1 /\ events'[c][Len(events[c]) + 1] = e
  BY <1>1
<1> QED
  BY <1>2

(* Before the handler runs there is nothing to hold. *)
LEMMA BeforeHandlerKeeps ==
  ASSUME TypeOK, NEW c \in Calls, InHand(c),
         \/ \E e \in {"notfound", "plain"} : RejectTool(c, e)
         \/ RejectArguments(c) \/ RunTaskTool(c)
         \/ \E t \in BOOLEAN : Dispatch(c, t)
         \/ Enter(c)
  PROVE  Waits(c)' /\ Filed(c)'
<1>1. reply'[c] = None \/ reply'[c] = Plain(<<c, 0>>)
  BY DEF RejectTool, RejectArguments, RunTaskTool, Dispatch, Enter, replies, InHand, TypeOK
<1>2. ~Holds(c)'
  BY <1>1 DEF Holds, Plain
<1> QED
  BY <1>2 DEF Waits, Filed

(* A decorated result of the handler has its record, or its event for a task: *)
(* its session is not spent, so the order does not hold its pointer yet.       *)
LEMMA HandlerKeeps ==
  ASSUME IInv, OrderSpent, NEW c \in Calls, HandlerStep(c), InHand(c)
  PROVE  Waits(c)' /\ Filed(c)'
<1> USE DEF IInv
<1>1. ASSUME NEW r \in {Plain(<<c, dispatched[c]>>), Plain(Shared)}, NEW b \in BOOLEAN,
             HandlerReturns(c, r, "none", b), Holds(c)'
      PROVE  Waits(c)' /\ Filed(c)'
  <2>1. /\ wire'[c] = Returned(c, r, b) /\ pc'[c] = "returned" /\ pc[c] = "handler"
        /\ task'[c] = task[c] /\ tracked' = tracked
    BY <1>1 DEF HandlerReturns, Returned, TypeOK
  <2>2. PICK w \in Results, s \in Sessions, record \in CallRecords :
          /\ w = wire'[c] /\ s = <<c, dispatched[c]>> /\ w.decor = s
          /\ record = [session |-> s, original |-> r]
    BY <1>1, <2>1, ReturnedResult DEF Holds
  <2>3. tracing[c] /\ r # None
    <3>1. r.decor = None /\ Returned(c, r, b).decor # None /\ r # None
      BY <1>1, <2>1, ReturnedResult DEF Holds
    <3> QED
      BY <3>1 DEF Returned
  <2>4. Capture(c, r, w, "none")
    BY <1>1, <2>1, <2>2, <2>3 DEF HandlerReturns, Returned
  <2>5. CASE task[c]
    <3>1. PublishCall(c, s, r)
      BY <2>2, <2>4, <2>5 DEF Capture
    <3>2. tracked => events'[c][Len(events'[c])].session = s
      BY <3>1, PublishedUnder
    <3> QED
      BY <2>1, <2>2, <2>5, <3>2 DEF Waits, Filed
  <2>6. CASE ~task[c]
    <3>1. Stash(c, w, record)
      BY <2>2, <2>4, <2>6, NoneAssumption DEF Capture
    <3>2. s # None /\ ~Spent(s)
      <4>1. s # None
        BY NoneAssumption
      <4>2. dispatched[c] \in Nat
        BY ToolCallsAssumption DEF TypeOK
      <4> QED
        BY <2>1, <2>2, <4>1, <4>2 DEF Spent
    <3>3. \A i \in 1 .. Len(order) : order[i] # w
      BY <2>2, <3>2 DEF OrderSpent
    <3>4. /\ w \in DOMAIN records' /\ records'[w] = record
          /\ \A i \in 1 .. Len(order') : order'[i] = w => Len(order') - i <= overtaken'[c]
      BY <3>1, <3>3, StashOfNew
    <3>5. record.session = w.decor
      BY <2>2
    <3> QED
      BY <2>1, <2>2, <2>6, <3>4, <3>5 DEF Waits, Filed
  <2> QED
    BY <2>5, <2>6
<1>2. ASSUME NEW e \in {"none", "plain", "notfound"}, HandlerReturns(c, None, e, TRUE)
      PROVE  ~Holds(c)'
  BY <1>2 DEF HandlerReturns, Holds, TypeOK
<1>3. HandlerPanics(c) => ~Holds(c)'
  BY DEF HandlerPanics, InHand, Holds, TypeOK
<1>4. ~Holds(c)' => Waits(c)' /\ Filed(c)'
  BY DEF Waits, Filed
<1> QED
  BY <1>1, <1>2, <1>3, <1>4 DEF HandlerStep

(* The hooks file what is held under the session of its record, and never *)
(* miss the record.                                                       *)
LEMMA HooksKeep ==
  ASSUME TypeOK, NEW c \in Calls, HookStep(c), InHand(c), Waits(c), Filed(c)
  PROVE  Waits(c)' /\ Filed(c)'
<1>0. CallStep(c) /\ pc'[c] = "answered" /\ tracked' = tracked /\ task' = task
      /\ wire' = wire /\ reply' = reply
  BY DEF CallStep, HookStep, ErrorHook, AfterHookStandsDown, AfterHookClaims, AfterHookMisses,
         Answered, replies, TypeOK
<1>1. Waits(c)'
  BY <1>0 DEF Waits
<1>2. overtaken' = overtaken
  BY DEF HookStep, ErrorHook, AfterHookStandsDown, AfterHookClaims, AfterHookMisses, Claim, pending
<1>3. Holds(c)' => Holds(c)
  BY <1>0, <1>2, HeldBefore
<1> SUFFICES ASSUME Holds(c), tracked, events'[c] # <<>>
             PROVE  events'[c][Len(events'[c])].session = wire[c].decor
  BY <1>0, <1>1, <1>3 DEF Filed
<1>4. reply[c] = wire[c] /\ reply[c] # None
  BY DEF Holds
<1>5. CASE ErrorHook(c)
  BY <1>4, <1>5 DEF ErrorHook, InHand
<1>6. CASE AfterHookStandsDown(c)
  BY <1>4, <1>6 DEF AfterHookStandsDown, Filed
<1>7. CASE AfterHookClaims(c)
  <2>1. ~task[c] /\ pc[c] = "complete" /\ PublishCall(c, records[reply[c]].session, records[reply[c]].original)
    BY <1>7 DEF AfterHookClaims
  <2>2. records[wire[c]].session = wire[c].decor
    BY <2>1 DEF Waits
  <2>3. PICK s, shows : s = records[reply[c]].session /\ PublishCall(c, s, shows)
    BY <2>1
  <2> QED
    BY <1>4, <2>2, <2>3, PublishedUnder
<1>8. CASE AfterHookMisses(c)
  BY <1>4, <1>8 DEF AfterHookMisses, Waits
<1> QED
  BY <1>5, <1>6, <1>7, <1>8 DEF HookStep

-----------------------------------------------------------------------------
(* A step of a call keeps the invariant, for that call and for the others. *)
LEMMA StepAgrees ==
  ASSUME IInv, AgreementInv, NEW c \in Calls, CallStep(c)
  PROVE  AgreementInv'
<1> USE DEF IInv, AgreementInv
<1>1. OrderSpent'
  BY OrderStaysSpent
<1>2. ASSUME NEW d \in Calls \ {c} PROVE InHand(d)' /\ Waits(d)' /\ Filed(d)'
  BY <1>2, OthersKeep
<1>3. InHand(c)'
  BY MoverHands
<1>4. Waits(c)' /\ Filed(c)'
  BY BeforeHandlerKeeps, HandlerKeeps, OuterKeeps, HooksKeep DEF CallStep
<1>5. ASSUME NEW d \in Calls PROVE InHand(d)' /\ Waits(d)' /\ Filed(d)'
  <2>1. CASE d = c
    BY <1>3, <1>4, <2>1
  <2>2. CASE d # c
    BY <1>2, <2>2
  <2> QED
    BY <2>1, <2>2
<1> QED
  BY <1>1, <1>5

(* Nothing in it is about more than the variables, and once tracing is off *)
(* no event is asked for.                                                  *)
LEMMA QuietStepAgrees ==
  ASSUME AgreementInv, Untrack \/ UNCHANGED vars
  PROVE  AgreementInv'
<1>1. /\ UNCHANGED <<records, order, overtaken, pc, task, dispatched, wire, reply, err, events>>
      /\ tracked' => tracked
  BY DEF Untrack, vars, pending, progress, replies
<1> QED
  BY <1>1 DEF AgreementInv, OrderSpent, Spent, InHand, Waits, Filed, Holds

(* A call that is over was filed as its agent was told. *)
LEMMA AgreementFollows ==
  ASSUME IInv, AgreementInv
  PROVE  SessionAgreement
<1> SUFFICES ASSUME NEW c \in Calls, Survives(c), \A d \in Calls \ {c} : reply[d] # wire[c],
                    pc[c] = "answered", events[c] # <<>>, tracked, reply[c].decor # None
             PROVE  reply[c].decor = events[c][Len(events[c])].session
  BY DEF SessionAgreement, FiledAsTold
<1>1. Holds(c)
  BY DEF Holds, Survives
<1> QED
  BY <1>1 DEF AgreementInv, Filed, Survives

(* Whatever else the middleware, the hooks and the other calls do to the      *)
(* table, a result that reaches its client, was not evicted and was given to  *)
(* no other call is filed under the session it carried there (stash, claim).  *)
THEOREM SessionAlwaysAgrees == Spec => []SessionAgreement
<1>1. Init => AgreementInv
  BY DEF Init, AgreementInv, OrderSpent, InHand, Waits, Filed, Holds
<1>2. IInv /\ AgreementInv /\ [Next]_vars => AgreementInv'
  BY StepAgrees, QuietStepAgrees DEF Next, Terminated
<1>3. IInv /\ AgreementInv => SessionAgreement
  BY AgreementFollows
<1> QED
  BY <1>1, <1>2, <1>3, Inductive, PTL DEF Spec
=============================================================================
