----------------------------- MODULE ToolCallProps -----------------------------
(***************************************************************************)
(* The correctness properties of the capture of tool calls.                *)
(***************************************************************************)
EXTENDS ToolCalls

(* The type invariant. *)
TypeOK ==
  /\ tracked \in BOOLEAN
  /\ DOMAIN records \subseteq Results
  /\ \A r \in DOMAIN records : records[r] \in CallRecords
  /\ order \in Seq(Results)
  /\ overtaken \in [Calls -> 0 .. Capacity]
  /\ pc \in [Calls -> {"idle", "outer", "handler", "returned", "failed",
                       "complete", "answered"}]
  /\ task \in [Calls -> BOOLEAN]
  /\ dispatched \in [Calls -> 0 .. MaxDispatch]
  /\ tracing \in [Calls -> BOOLEAN]
  /\ exempt \in [Calls -> BOOLEAN]
  /\ moves \in [Calls -> SUBSET {"shortcut", "cached", "fail", "rescue", "retry"}]
  /\ wire \in [Calls -> Results \cup {None}]
  /\ reply \in [Calls -> Results \cup {None}]
  /\ err \in [Calls -> {"none", "plain", "notfound"}]
  /\ events \in [Calls -> Seq(CallEvents)]

(* The table of pending calls never holds more than its capacity, however  *)
(* many results were replaced and never claimed, and every record in it    *)
(* can still be found by the eviction (stash: "Oldest-first eviction keeps *)
(* the bound").                                                            *)
PendingBounded ==
  /\ Len(order) <= Capacity
  /\ \A r \in DOMAIN records : \E i \in 1 .. Len(order) : order[i] = r

(* The outer middleware changed which of the three places see the call. *)
Diverted(c) ==
  \/ moves[c] \cap {"fail", "rescue", "retry"} # {}
  \/ task[c] /\ moves[c] # {}

(* "Every tools/call that mcp-go dispatches through handleToolCall         *)
(* publishes exactly one event" but for four shapes, whichever of the      *)
(* middleware and the two hooks sees it (failure_hooks.go:32), if only the *)
(* outer middleware lets results be results and errors errors.             *)
ExactlyOneEvent ==
  \A c \in Calls : ~exempt[c] /\ ~Diverted(c) =>
    /\ Len(events[c]) <= 1
    /\ pc[c] = "answered" /\ tracked => Len(events[c]) = 1

(* The hooks' share of the calls: the after-hook has a result to report or *)
(* the error hook a tool that is not found, and no task ran.               *)
HookReports(c) ==
  /\ pc[c] = "answered" /\ ~task[c]
  /\ err[c] = "notfound" \/ (err[c] = "none" /\ reply[c] # None)

(* What is left of "exactly one event" outside the guarantee, whatever the *)
(* outer middleware and the handler make of the call (failure_hooks.go:32): *)
(* no more events than dispatches, and one for the call of which a hook    *)
(* reports the end, which does not go without.                             *)
OneEventPerLook ==
  \A c \in Calls :
    /\ Len(events[c]) <= dispatched[c] + (IF HookReports(c) THEN 1 ELSE 0)
    /\ HookReports(c) /\ tracked => events[c] # <<>>

(* The client received the result that the middleware returned, and fewer  *)
(* calls were stashed since than the table holds.                          *)
Survives(c) ==
  reply[c] # None /\ reply[c] = wire[c] /\ overtaken[c] < Capacity

FiledAsTold(c) ==
  pc[c] = "answered" /\ events[c] # <<>> /\ tracked =>
    reply[c].decor \in {None, events[c][Len(events[c])].session}

(* The event is filed under the session the agent was told, not a second   *)
(* one, unless the result was replaced, its record evicted, or its pointer *)
(* handed to another call as well (warnRecordLost).                        *)
SessionAgreement ==
  \A c \in Calls :
    Survives(c) /\ (\A d \in Calls \ {c} : reply[d] # wire[c]) => FiledAsTold(c)

(* The event shows what the client received, and nothing the SDK put into  *)
(* it: the mint-back is on the wire only (callRecord.original,             *)
(* undecorateResult).  Of two events, the later one does.                  *)
TruthfulEvent ==
  \A c \in Calls :
    /\ pc[c] = "answered" /\ err[c] = "none" /\ reply[c] # None
    /\ ~task[c] /\ events[c] # <<>> /\ tracked
    => events[c][Len(events[c])].shows = Plain(reply[c].content)

-----------------------------------------------------------------------------
(* What the comments say and the code does not do.                         *)

(* failure_hooks.go:32: "exactly one event", and only "four shapes sit     *)
(* outside that guarantee", all of which exempt stands for.                *)
FourShapesOutside ==
  \A c \in Calls : ~exempt[c] =>
    /\ Len(events[c]) <= 1
    /\ pc[c] = "answered" /\ tracked => Len(events[c]) = 1
=============================================================================
