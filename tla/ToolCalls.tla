------------------------------- MODULE ToolCalls -------------------------------
(***************************************************************************)
(* How the mcp-go adapter gets one event out of each tools/call.  mcp-go   *)
(* offers three places to look from, and none of them sees every call: the *)
(* middleware around the tool's handler, the after-hook that is given the  *)
(* result the client receives, and the error hook.  The middleware hands   *)
(* what it knows of a call to the after-hook through a table of pending    *)
(* calls, keyed by the pointer it returned, which other calls share.       *)
(*                                                                         *)
(* Around the middleware stand mcp-go itself and middleware of the         *)
(* customer (the outer one).  Every resolution of handles mints a session  *)
(* here: the case in which two resolutions of one call differ.             *)
(***************************************************************************)
EXTENDS Naturals, Sequences

CONSTANTS
  Calls,       \* the tools/call requests
  Capacity,    \* pendingCapacity
  MaxDispatch, \* how often the outer middleware may call the inner one
  Shared,      \* a result that a handler returns from many calls
  None         \* nil

ASSUME ToolCallsAssumption ==
  Capacity \in Nat \ {0} /\ MaxDispatch \in Nat \ {0}

(* Dispatch number n of call c resolves session <<c, n>> and its handler   *)
(* returns content <<c, n>>; number 0 is what others make up for the call. *)
Sessions == Calls \X (0 .. MaxDispatch)
Contents == Sessions \cup {Shared}

(* A result is a pointer: what it points to and whose decoration it bears. *)
Results == [content : Contents, decor : Sessions \cup {None}]
CallRecords == [session : Sessions, original : Results]
CallEvents == [session : Sessions, shows : Results \cup {None}]

ASSUME NoneAssumption == None \notin Results \cup Sessions

VARIABLES
  tracked,   \* the instance is registered, tracing is on
  records,   \* pendingCalls.records, from results to records
  order,     \* pendingCalls.order
  pc,        \* where each call stands
  task,      \* params.task: the call runs detached from its request
  dispatched,\* how often the call was passed to the middleware
  tracing,   \* the middleware's own view, taken when it was entered
  wire,      \* the last result the middleware returned
  reply, err,\* what travels on to the client
  events,    \* the events published for each call
  exempt,    \* the call has a shape that the guarantee leaves out
  moves,     \* what the outer middleware did to the call, but for a
             \* replacement of its result
  overtaken  \* stashes since that of the call, no further than Capacity

pending  == <<records, order, overtaken>>
progress == <<pc, task, dispatched, tracing, exempt, moves>>
replies  == <<wire, reply, err>>
vars == <<tracked, pending, progress, replies, events>>

Plain(content) == [content |-> content, decor |-> None]

Init ==
  /\ tracked = TRUE
  /\ records = <<>> /\ order = <<>> /\ overtaken = [c \in Calls |-> 0]
  /\ pc = [c \in Calls |-> "idle"] /\ task = [c \in Calls |-> FALSE]
  /\ dispatched = [c \in Calls |-> 0] /\ tracing = [c \in Calls |-> FALSE]
  /\ exempt = [c \in Calls |-> FALSE] /\ moves = [c \in Calls |-> {}]
  /\ wire = [c \in Calls |-> None] /\ reply = [c \in Calls |-> None]
  /\ err = [c \in Calls |-> "none"]
  /\ events = [c \in Calls |-> <<>>]

-----------------------------------------------------------------------------
(* The capturer.                                                           *)

(* publishCall: nothing once tracing is off. *)
PublishCall(c, s, shows) ==
  events' = IF tracked
            THEN [events EXCEPT ![c] = Append(@, [session |-> s, shows |-> shows])]
            ELSE events

(* Fault: claimed entries are taken for free room: the order only grows. *)
StashUnevicted(c, r, record) ==
  /\ order' = IF r \in DOMAIN records THEN order ELSE Append(order, r)
  /\ records' = [q \in DOMAIN records \cup {r} |->
                   IF q = r THEN record ELSE records[q]]
  /\ overtaken' = [d \in Calls |-> IF d = c THEN 0
                     ELSE IF overtaken[d] < Capacity THEN overtaken[d] + 1
                     ELSE overtaken[d]]

(* Fault: the newest entry makes room. *)
StashEvictsNewest(c, r, record) ==
  LET full == r \notin DOMAIN records /\ Len(order) >= Capacity
      kept == IF full THEN SubSeq(order, 1, Len(order) - 1) ELSE order
      gone == IF full THEN {order[Len(order)]} ELSE {} IN
  /\ order' = IF r \in DOMAIN records THEN order ELSE Append(kept, r)
  /\ records' = [q \in (DOMAIN records \ gone) \cup {r} |->
                   IF q = r THEN record ELSE records[q]]
  /\ overtaken' = [d \in Calls |-> IF d = c THEN 0
                     ELSE IF overtaken[d] < Capacity THEN overtaken[d] + 1
                     ELSE overtaken[d]]

(* stash: a result that is not in the table goes to the end of the order,  *)
(* the oldest entries leaving until there is room.                         *)
Stash(c, r, record) ==
  LET excess == IF r \in DOMAIN records \/ Len(order) < Capacity THEN 0
                ELSE Len(order) - Capacity + 1
      evicted == {order[i] : i \in 1 .. excess} IN
  /\ order' = IF r \in DOMAIN records THEN order
              ELSE Append(SubSeq(order, excess + 1, Len(order)), r)
  /\ records' = [q \in (DOMAIN records \ evicted) \cup {r} |->
                   IF q = r THEN record ELSE records[q]]
  /\ overtaken' = [d \in Calls |-> IF d = c THEN 0
                     ELSE IF overtaken[d] < Capacity THEN overtaken[d] + 1
                     ELSE overtaken[d]]

(* claim: the record leaves the table, the order keeps a tombstone. *)
Claim(r) ==
  /\ records' = [q \in DOMAIN records \ {r} |-> records[q]]
  /\ UNCHANGED <<order, overtaken>>

(* What the SDK adds to a result it adds to a copy, under a new pointer, *)
(* and can take off again.                                               *)
Decorate(r, s) == [r EXCEPT !.decor = s]
Undecorate(r) == Plain(r.content)

-----------------------------------------------------------------------------
(* mcp-go, before the handler.                                             *)

(* An unknown or filtered tool, a tool that does not support the session's *)
(* tasks, or one whose handler panics (below), ends in a protocol error.   *)
RejectTool(c, e) ==
  /\ pc[c] = "idle"
  /\ err' = [err EXCEPT ![c] = e]
  /\ exempt' = [exempt EXCEPT ![c] = e = "plain"]
  /\ pc' = [pc EXCEPT ![c] = "failed"]
  /\ UNCHANGED <<tracked, moves, pending, task, dispatched, tracing, wire, reply, events>>

(* Arguments that do not fit the schema: an error result, no middleware. *)
RejectArguments(c) ==
  /\ pc[c] = "idle"
  /\ reply' = [reply EXCEPT ![c] = Plain(<<c, 0>>)]
  /\ pc' = [pc EXCEPT ![c] = "complete"]
  /\ UNCHANGED <<tracked, moves, pending, task, dispatched, tracing, exempt, wire,
                 err, events>>

(* A tool of AddTaskTool, which no middleware wraps. *)
RunTaskTool(c) ==
  /\ pc[c] = "idle"
  /\ exempt' = [exempt EXCEPT ![c] = TRUE]
  /\ pc' = [pc EXCEPT ![c] = "complete"]
  /\ UNCHANGED <<tracked, moves, pending, task, dispatched, tracing, replies, events>>

(* Everything else goes to the outer middleware, a task detached from the  *)
(* request, whose after-hook then stands down whenever it runs.            *)
Dispatch(c, t) ==
  /\ pc[c] = "idle"
  /\ task' = [task EXCEPT ![c] = t]
  /\ pc' = [pc EXCEPT ![c] = "outer"]
  /\ UNCHANGED <<tracked, moves, pending, dispatched, tracing, exempt, replies, events>>

-----------------------------------------------------------------------------
(* The tool middleware.                                                    *)

Enter(c) ==
  /\ pc[c] = "outer" /\ dispatched[c] < MaxDispatch
  /\ dispatched' = [dispatched EXCEPT ![c] = @ + 1]
  /\ tracing' = [tracing EXCEPT ![c] = tracked]
  /\ pc' = [pc EXCEPT ![c] = "handler"]
  /\ UNCHANGED <<tracked, moves, pending, task, exempt, replies, events>>

(* Fault: an error is left to the error hook. *)
CaptureNoErrors(c, r, w, e) ==
  LET s == <<c, dispatched[c]>> IN
  IF e # "none" THEN UNCHANGED <<pending, events>>
  ELSE IF task[c] \/ w = None
  THEN PublishCall(c, s, r) /\ UNCHANGED pending
  ELSE Stash(c, w, [session |-> s, original |-> r]) /\ UNCHANGED events

(* Fault: a nil result is stashed like any other. *)
CaptureNil(c, r, w, e) ==
  LET s == <<c, dispatched[c]>> IN
  IF e # "none" \/ task[c]
  THEN /\ PublishCall(c, s, IF e = "none" THEN r ELSE None)
       /\ UNCHANGED pending
  ELSE /\ Stash(c, w, [session |-> s, original |-> r])
       /\ UNCHANGED events

(* What no after-hook can report is published here, the rest is stashed. *)
Capture(c, r, w, e) ==
  LET s == <<c, dispatched[c]>> IN
  IF e # "none" \/ task[c] \/ w = None
  THEN /\ PublishCall(c, s, IF e = "none" THEN r ELSE None)
       /\ UNCHANGED pending
  ELSE /\ Stash(c, w, [session |-> s, original |-> r])
       /\ UNCHANGED events

(* The handler returns r, nil or an error, and the middleware returns a    *)
(* decorated copy of r: a new pointer, unless the decoration panicked.     *)
HandlerReturns(c, r, e, decorates) ==
  /\ pc[c] = "handler"
  /\ LET w == IF tracing[c] /\ r # None /\ decorates
              THEN Decorate(r, <<c, dispatched[c]>>) ELSE r IN
     /\ IF tracing[c] THEN Capture(c, r, w, e) ELSE UNCHANGED <<pending, events>>
     /\ wire' = [wire EXCEPT ![c] = w]
     /\ reply' = [reply EXCEPT ![c] = w]
  /\ err' = [err EXCEPT ![c] = e]
  /\ exempt' = [exempt EXCEPT ![c] = @ \/ e = "notfound"]
  /\ pc' = [pc EXCEPT ![c] = "returned"]
  /\ UNCHANGED <<tracked, moves, task, dispatched, tracing>>

HandlerPanics(c) ==
  /\ pc[c] = "handler"
  /\ err' = [err EXCEPT ![c] = "plain"]
  /\ exempt' = [exempt EXCEPT ![c] = TRUE]
  /\ pc' = [pc EXCEPT ![c] = "failed"]
  /\ UNCHANGED <<tracked, moves, pending, task, dispatched, tracing, wire, reply, events>>

-----------------------------------------------------------------------------
(* The outer middleware, and mcp-go after the handler.                     *)

Does(c, move, from, to) ==
  /\ pc[c] = from
  /\ pc' = [pc EXCEPT ![c] = to]
  /\ moves' = [moves EXCEPT ![c] = @ \cup {move}]
  /\ UNCHANGED <<tracked, pending, task, dispatched, tracing, exempt, wire, events>>

Answer(c, r, e) ==
  /\ reply' = [reply EXCEPT ![c] = r]
  /\ err' = [err EXCEPT ![c] = e]

(* Not calling the inner middleware at all: with a result of its own ... *)
Shortcut(c) ==
  Does(c, "shortcut", "outer", "complete") /\ Answer(c, Plain(<<c, 0>>), "none")

(* ... or one that it kept from another call, ... *)
Cached(c, d) ==
  /\ dispatched[c] = 0 /\ wire[d] # None /\ err[d] = "none"
  /\ Does(c, "cached", "outer", "complete")
  /\ Answer(c, wire[d], "none")

(* ... an error for what would be a result, ... *)
Fail(c, from) ==
  err[c] = "none" /\ Does(c, "fail", from, "failed") /\ Answer(c, None, "plain")

(* ... a result for an error or for none, ... *)
Rescue(c) ==
  /\ err[c] # "none" \/ reply[c] = None
  /\ Does(c, "rescue", "returned", "complete")
  /\ Answer(c, Plain(<<c, 0>>), "none")

(* ... another try, ... *)
Retry(c) ==
  /\ dispatched[c] < MaxDispatch
  /\ Does(c, "retry", "returned", "outer")
  /\ Answer(c, None, "none")

(* ... or nothing at all. *)
Relay(c) ==
  /\ pc[c] = "returned"
  /\ pc' = [pc EXCEPT ![c] = IF err[c] = "none" THEN "complete" ELSE "failed"]
  /\ UNCHANGED <<tracked, moves, pending, task, dispatched, tracing, exempt,
                 replies, events>>

(* Another result, built from the one at hand or not: also what mcp-go's   *)
(* validation of the output does.                                          *)
Replace(c, decor) ==
  /\ pc[c] = "returned" /\ err[c] = "none" /\ reply[c] # None
  /\ decor \in {None, reply[c].decor}
  /\ reply' = [reply EXCEPT ![c] = [content |-> <<c, 0>>, decor |-> decor]]
  /\ pc' = [pc EXCEPT ![c] = "complete"]
  /\ UNCHANGED <<tracked, moves, pending, task, dispatched, tracing, exempt,
                 wire, err, events>>

-----------------------------------------------------------------------------
(* The hooks.                                                              *)

Answered(c) ==
  /\ pc' = [pc EXCEPT ![c] = "answered"]
  /\ UNCHANGED <<tracked, moves, task, dispatched, tracing, exempt, replies>>

(* OnError: of a request that fails, only what never reached the handler.  *)
ErrorHook(c) ==
  /\ pc[c] = "failed"
  /\ IF err[c] = "notfound" /\ ~task[c] THEN PublishCall(c, <<c, 0>>, None)
     ELSE UNCHANGED events
  /\ Answered(c)
  /\ UNCHANGED pending

(* AfterCallTool: a task and a nil result were published already, ... *)
AfterHookStandsDown(c) ==
  /\ pc[c] = "complete" /\ (task[c] \/ reply[c] = None)
  /\ Answered(c)
  /\ UNCHANGED <<pending, events>>

(* ... a result with a record is reported as the record says, ... *)
AfterHookClaims(c) ==
  /\ pc[c] = "complete" /\ ~task[c] /\ reply[c] \in DOMAIN records
  /\ PublishCall(c, records[reply[c]].session, records[reply[c]].original)
  /\ Claim(reply[c])
  /\ Answered(c)

(* Fault: the result is reported as it is. *)
AfterHookMissesDecorated(c) ==
  /\ pc[c] = "complete" /\ ~task[c]
  /\ reply[c] # None /\ reply[c] \notin DOMAIN records
  /\ PublishCall(c, <<c, 0>>, reply[c])
  /\ Answered(c)
  /\ UNCHANGED pending

(* ... and one without as it stands, with handles resolved again. *)
AfterHookMisses(c) ==
  /\ pc[c] = "complete" /\ ~task[c]
  /\ reply[c] # None /\ reply[c] \notin DOMAIN records
  /\ PublishCall(c, <<c, 0>>, Undecorate(reply[c]))
  /\ Answered(c)
  /\ UNCHANGED pending

(* UnregisterServer, or the end of the server. *)
Untrack ==
  /\ tracked /\ tracked' = FALSE
  /\ UNCHANGED <<pending, progress, replies, events>>

-----------------------------------------------------------------------------
HandlerStep(c) ==
  \/ \E r \in {Plain(<<c, dispatched[c]>>), Plain(Shared)}, b \in BOOLEAN :
       HandlerReturns(c, r, "none", b)
  \/ \E e \in {"none", "plain", "notfound"} : HandlerReturns(c, None, e, TRUE)
  \/ HandlerPanics(c)

OuterStep(c) ==
  \/ Shortcut(c) \/ Relay(c) \/ Rescue(c) \/ Retry(c)
  \/ \E from \in {"outer", "returned"} : Fail(c, from)
  \/ \E d \in Calls : Cached(c, d)
  \/ \E s \in Sessions \cup {None} : Replace(c, s)

HookStep(c) ==
  ErrorHook(c) \/ AfterHookStandsDown(c) \/ AfterHookClaims(c) \/ AfterHookMisses(c)

CallStep(c) ==
  \/ \E e \in {"notfound", "plain"} : RejectTool(c, e)
  \/ RejectArguments(c) \/ RunTaskTool(c) \/ \E t \in BOOLEAN : Dispatch(c, t)
  \/ Enter(c) \/ HandlerStep(c) \/ OuterStep(c) \/ HookStep(c)

Terminated == (\A c \in Calls : pc[c] = "answered") /\ UNCHANGED vars

Next == Untrack \/ Terminated \/ \E c \in Calls : CallStep(c)

Spec == Init /\ [][Next]_vars
=============================================================================
