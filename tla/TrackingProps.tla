----------------------------- MODULE TrackingProps -----------------------------
(* What tracking a server promises. *)
EXTENDS Tracking

Places == {"idle", "register", "hooks", "newhooks", "capturer", "instrument",
           "use", "done", "found"}

(* Every variable of the tracking state has its type, registry.go and *)
(* hook_state.go included.                                             *)
TypeOK ==
  /\ life \in [Objects -> {"unborn", "live", "dead"}]
  /\ addr \in [Objects -> Addresses \cup {None}]
  /\ hooksOf \in [Servers -> Hooks \cup {None}]
  /\ middleware \in [Servers -> SUBSET Tracks]
  /\ serverMap \in [Addresses -> Tracks \cup {None}]
  /\ capturers \in [Addresses -> Tracks \cup {None}]
  /\ instrumented \in [Addresses -> Tracks \cup {None}]
  /\ cleanups \subseteq {"server", "capturer", "hooks"} \X Tracks
  /\ closures \in [Hooks -> SUBSET Tracks]
  /\ pc \in [Tracks -> Places] /\ subject \in [Tracks -> Servers \cup {None}]
  /\ held \in [Tracks -> Hooks \cup {None}] /\ before \in [Tracks -> SUBSET Tracks]
  /\ unregistered \subseteq Servers

(* A live server that was registered is found in the registry, by an entry  *)
(* of its own: no late cleanup of a server that was at the same address     *)
(* before it, and no other Track, takes the entry away (registry.go:36).    *)
RegisteredIsFound ==
  \A s \in Servers \ unregistered :
    Live(s) /\ Registered(s) # {} =>
      serverMap[addr[s]] \in Registered(s)

(* A Hooks value gets the closures once, however many servers share it and  *)
(* however many Tracks run at a time, and a value at a recycled address     *)
(* gets its own: once a Track is through, its server's hooks carry them     *)
(* (hook_state.go:104).                                                     *)
HooksInstrumentedOnce ==
  /\ \A h \in Hooks : \A t, u \in closures[h] : t = u
  /\ \A t \in Tracks :
       pc[t] \in {"use", "done"} /\ held[t] # None /\ Live(held[t]) =>
         closures[held[t]] # {}

(* The shared closures find the capturer of a live server that runs the     *)
(* middleware, one whose middleware is installed or about to be, and never  *)
(* the one of another server (hook_state.go:70).                            *)
CapturerIsOwn ==
  \A s \in Servers \ Official :
    Live(s) /\ middleware[s] # {} =>
      LET c == CapturerFor(s) IN
        c # None /\ (c \in middleware[s] \/ Busy(c))

(* The maps let go of whatever the collector frees: each entry of the      *)
(* three maps is one that a cleanup still to come will find at the object's *)
(* address and drop, so nothing is left behind when a factory makes a       *)
(* server for each request (registry.go:2, hook_state.go:20).               *)
EntriesGoWithObjects ==
  \A a \in Addresses, t \in Tracks :
    /\ serverMap[a] = t => <<"server", t>> \in cleanups /\ addr[subject[t]] = a
    /\ capturers[a] = t => <<"capturer", t>> \in cleanups /\ addr[subject[t]] = a
    /\ instrumented[a] = t => <<"hooks", t>> \in cleanups /\ addr[held[t]] = a

-----------------------------------------------------------------------------
(* What the comments say and the code does not do.                         *)

(* mcpgo/mcpgo.go:146 and 212 (officialsdk/officialsdk.go:206 in its words): *)
(* Track attaches tracking to the server it is given, and "is idempotent per *)
(* server: a second call must not install a second tool middleware".  So a   *)
(* server runs it once when its Tracks are through.  Track looks at the      *)
(* registry by address, and registers later.                                 *)
TrackedOnce ==
  \A s \in Servers \ unregistered :
    LET calls == {t \in Tracks : subject[t] = s} IN
    calls # {} /\ (\A t \in calls : ~Busy(t)) => \E t \in calls : middleware[s] = {t}
=============================================================================
