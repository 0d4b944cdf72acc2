----------------------------- MODULE EventDelivery -----------------------------
(***************************************************************************)
(* What the publisher promises the goroutines that hand it events: an      *)
(* event is taken or refused at once; a taken event is settled exactly     *)
(* once, delivered or lost; after the intake closes nothing is taken any   *)
(* more; and the shutdown reports "drained" only when every event it took  *)
(* is settled, and may otherwise only report the deadline.                 *)
(***************************************************************************)
CONSTANTS Events

VARIABLES
  outcome, \* of each event: "new", "refused", "taken", "delivered" or "lost"
  intake,  \* "open" or "closed"
  report   \* of the shutdown: "none", "drained" or "deadline"

vars == <<outcome, intake, report>>

Init ==
  /\ outcome = [e \in Events |-> "new"]
  /\ intake = "open"
  /\ report = "none"

Become(e, o) ==
  /\ outcome' = [outcome EXCEPT ![e] = o]
  /\ UNCHANGED <<intake, report>>

Take(e)    == outcome[e] = "new" /\ intake = "open" /\ Become(e, "taken")
Refuse(e)  == outcome[e] = "new" /\ Become(e, "refused")
Deliver(e) == outcome[e] = "taken" /\ Become(e, "delivered")
Lose(e)    == outcome[e] = "taken" /\ Become(e, "lost")

CloseIntake ==
  /\ intake = "open"
  /\ intake' = "closed"
  /\ UNCHANGED <<outcome, report>>

Report(r) ==
  /\ intake = "closed" /\ report = "none"
  /\ r = "drained" => \A e \in Events : outcome[e] # "taken"
  /\ report' = r
  /\ UNCHANGED <<outcome, intake>>

Next ==
  \/ \E e \in Events : Take(e) \/ Refuse(e) \/ Deliver(e) \/ Lose(e)
  \/ CloseIntake
  \/ \E r \in {"drained", "deadline"} : Report(r)

Spec == Init /\ [][Next]_vars

(* A taken event does not stay taken, and a closed intake is reported on. *)
Fairness ==
  /\ \A e \in Events : WF_vars(Deliver(e) \/ Lose(e))
  /\ WF_vars(\E r \in {"drained", "deadline"} : Report(r))

FairSpec == Spec /\ Fairness
=============================================================================
