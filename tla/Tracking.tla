-------------------------------- MODULE Tracking --------------------------------
(***************************************************************************)
(* How Track finds out that a server is tracked already and installs itself *)
(* once.  Three process-wide maps say so: the registry of servers, the      *)
(* capturers of servers and the Hooks values that carry the SDK's closures. *)
(* They are keyed by address, must not keep what they describe alive, and   *)
(* lose an entry in a cleanup that runs some time after the collector freed *)
(* the object, when its address may be in use again.                        *)
(*                                                                         *)
(* An entry is named by the Track that made it.  A Track draws one token    *)
(* per map at most, so its name stands for the token too.                   *)
(***************************************************************************)

CONSTANTS
  Servers,   \* server objects, over the life of the process
  Official,  \* those of the official SDK, which has no hooks
  Hooks,     \* server.Hooks values of mcp-go
  Addresses, \* where an object can be
  Tracks,    \* calls of Track
  None       \* nil

Objects == Servers \cup Hooks

ASSUME TrackingAssumption ==
  /\ Official \subseteq Servers /\ Servers \cap Hooks = {}
  /\ None \notin Objects \cup Tracks \cup Addresses

VARIABLES
  life,        \* "unborn", "live", or "dead" once the collector freed it
  addr,        \* the address of an object, kept after its death
  hooksOf,     \* MCPServer.hooks
  middleware,  \* the Tracks whose middleware a server runs
  serverMap,   \* registry.serverMap, by address
  capturers,   \* capturers, by address
  instrumented,\* instrumentedHooks, by address
  cleanups,    \* registered with runtime.AddCleanup, not run so far
  closures,    \* the Tracks that appended their closures to a Hooks value
  pc,          \* where each Track stands
  subject,     \* the server it was called with
  held,        \* the Hooks value it works on
  unregistered,\* servers that Unregister was called for
  before       \* Tracks that had registered its server when it looked

objects  == <<life, addr, hooksOf>>
maps     == <<serverMap, capturers, instrumented, cleanups>>
installs == <<middleware, closures>>
tracks   == <<pc, subject, held, before>>
vars == <<objects, maps, installs, tracks, unregistered>>

Live(o) == life[o] = "live"
Busy(t) == pc[t] \notin {"idle", "done", "found"}

(* The Tracks past RegisterServer, for the server s. *)
Registered(s) ==
  {t \in Tracks : subject[t] = s /\ pc[t] \notin {"idle", "register", "found"}}

Init ==
  /\ life = [o \in Objects |-> "unborn"] /\ addr = [o \in Objects |-> None]
  /\ hooksOf = [s \in Servers |-> None] /\ middleware = [s \in Servers |-> {}]
  /\ serverMap = [a \in Addresses |-> None]
  /\ capturers = [a \in Addresses |-> None]
  /\ instrumented = [a \in Addresses |-> None]
  /\ cleanups = {} /\ closures = [h \in Hooks |-> {}]
  /\ pc = [t \in Tracks |-> "idle"] /\ subject = [t \in Tracks |-> None]
  /\ held = [t \in Tracks |-> None] /\ before = [t \in Tracks |-> {}]
  /\ unregistered = {}

-----------------------------------------------------------------------------
(* Objects come and go; an address is free again at once.                  *)

Free(a) == \A o \in Objects : Live(o) => addr[o] # a

Allocate(o, a) ==
  /\ life[o] = "unborn" /\ Free(a)
  /\ life' = [life EXCEPT ![o] = "live"]
  /\ addr' = [addr EXCEPT ![o] = a]

(* The customer makes a server, with a Hooks value of its own choice *)
(* (WithHooks) or none, which several servers may share.             *)
NewServer(s, a) ==
  /\ Allocate(s, a)
  /\ \E h \in {x \in Hooks : Live(x) /\ s \notin Official} \cup {None} :
       hooksOf' = [hooksOf EXCEPT ![s] = h]
  /\ UNCHANGED <<maps, installs, tracks, unregistered>>

NewHooks(h, a) ==
  /\ Allocate(h, a)
  /\ UNCHANGED <<hooksOf, maps, installs, tracks, unregistered>>

Reachable(o) ==
  \/ \E t \in Tracks : Busy(t) /\ o \in {subject[t], held[t]}
  \/ \E s \in Servers : Live(s) /\ hooksOf[s] = o

(* None of the maps keeps a server or a Hooks value alive. *)
Collect(o) ==
  /\ Live(o) /\ ~Reachable(o)
  /\ life' = [life EXCEPT ![o] = "dead"]
  /\ UNCHANGED <<addr, hooksOf, maps, installs, tracks, unregistered>>

-----------------------------------------------------------------------------
(* Cleanups of a collected object.                                         *)

(* Fault: whatever is at the address goes. *)
DropAny(map, a, t) == [map EXCEPT ![a] = None]

(* The entry at the address goes if it is still the one of that token. *)
Drop(map, a, t) == [map EXCEPT ![a] = IF @ = t THEN None ELSE @]

CleanupServer(t) ==
  /\ <<"server", t>> \in cleanups /\ ~Live(subject[t])
  /\ serverMap' = Drop(serverMap, addr[subject[t]], t)
  /\ cleanups' = cleanups \ {<<"server", t>>}
  /\ UNCHANGED <<capturers, instrumented, objects, installs, tracks, unregistered>>

CleanupCapturer(t) ==
  /\ <<"capturer", t>> \in cleanups /\ ~Live(subject[t])
  /\ capturers' = Drop(capturers, addr[subject[t]], t)
  /\ cleanups' = cleanups \ {<<"capturer", t>>}
  /\ UNCHANGED <<serverMap, instrumented, objects, installs, tracks, unregistered>>

CleanupHooks(t) ==
  /\ <<"hooks", t>> \in cleanups /\ ~Live(held[t])
  /\ instrumented' = Drop(instrumented, addr[held[t]], t)
  /\ cleanups' = cleanups \ {<<"hooks", t>>}
  /\ UNCHANGED <<serverMap, capturers, objects, installs, tracks, unregistered>>

-----------------------------------------------------------------------------
(* Track.                                                                  *)

Goto(t, place) == pc' = [pc EXCEPT ![t] = place]

(* Fault: Track does not look. *)
TrackCallBlind(t, s) ==
  /\ pc[t] = "idle" /\ Live(s)
  /\ subject' = [subject EXCEPT ![t] = s]
  /\ before' = [before EXCEPT ![t] = Registered(s)]
  /\ Goto(t, "register")
  /\ UNCHANGED <<held, objects, maps, installs, unregistered>>

(* Track up to its look at the registry, which goes by the address alone:  *)
(* a stale entry passes for the server's own.                              *)
TrackCall(t, s) ==
  /\ pc[t] = "idle" /\ Live(s)
  /\ subject' = [subject EXCEPT ![t] = s]
  /\ before' = [before EXCEPT ![t] = Registered(s)]
  /\ Goto(t, IF serverMap[addr[s]] # None THEN "found" ELSE "register")
  /\ UNCHANGED <<held, objects, maps, installs, unregistered>>

(* Fault: no cleanup is arranged. *)
RegisterForGood(t) ==
  /\ pc[t] = "register"
  /\ serverMap' = [serverMap EXCEPT ![addr[subject[t]]] = t]
  /\ Goto(t, IF subject[t] \in Official THEN "use" ELSE "hooks")
  /\ UNCHANGED <<cleanups, capturers, instrumented, subject, held, before, objects, installs, unregistered>>

(* RegisterServer writes over what it finds and arranges the cleanup. *)
Register(t) ==
  /\ pc[t] = "register"
  /\ serverMap' = [serverMap EXCEPT ![addr[subject[t]]] = t]
  /\ cleanups' = cleanups \cup {<<"server", t>>}
  /\ Goto(t, IF subject[t] \in Official THEN "use" ELSE "hooks")
  /\ UNCHANGED <<capturers, instrumented, subject, held, before, objects, installs, unregistered>>

(* GetHooks. *)
ReadHooks(t) ==
  /\ pc[t] = "hooks"
  /\ LET h == hooksOf[subject[t]] IN
       /\ held' = [held EXCEPT ![t] = h]
       /\ Goto(t, IF h = None THEN "newhooks" ELSE "capturer")
  /\ UNCHANGED <<subject, before, objects, maps, installs, unregistered>>

(* A server without hooks gets a value of its own. *)
GiveHooks(t, h, a) ==
  /\ pc[t] = "newhooks" /\ Allocate(h, a)
  /\ hooksOf' = [hooksOf EXCEPT ![subject[t]] = h]
  /\ held' = [held EXCEPT ![t] = h]
  /\ Goto(t, "capturer")
  /\ UNCHANGED <<subject, before, maps, installs, unregistered>>

(* Fault: an entry that is there already is kept. *)
CapturerFirstWins(t) ==
  /\ pc[t] = "capturer"
  /\ LET a == addr[subject[t]] IN
       capturers' = [capturers EXCEPT ![a] = IF @ = None THEN t ELSE @]
  /\ cleanups' = cleanups \cup {<<"capturer", t>>}
  /\ Goto(t, "instrument")
  /\ UNCHANGED <<serverMap, instrumented, subject, held, before, objects, installs, unregistered>>

(* registerCapturer writes over what it finds, too. *)
RegisterCapturer(t) ==
  /\ pc[t] = "capturer"
  /\ capturers' = [capturers EXCEPT ![addr[subject[t]]] = t]
  /\ cleanups' = cleanups \cup {<<"capturer", t>>}
  /\ Goto(t, "instrument")
  /\ UNCHANGED <<serverMap, instrumented, subject, held, before, objects, installs, unregistered>>

(* The entry at the Hooks value's address is about that very value: the *)
(* weak pointer of an entry whose object is gone yields nil.             *)
CarriesClosures(h) ==
  LET e == instrumented[addr[h]] IN e # None /\ held[e] = h

(* Fault: an entry at the address is believed without a look at its value. *)
InstrumentByAddress(t) ==
  /\ pc[t] = "instrument"
  /\ LET h == held[t] IN
     IF instrumented[addr[h]] # None THEN UNCHANGED <<instrumented, cleanups, closures>>
     ELSE /\ instrumented' = [instrumented EXCEPT ![addr[h]] = t]
          /\ cleanups' = cleanups \cup {<<"hooks", t>>}
          /\ closures' = [closures EXCEPT ![h] = @ \cup {t}]
  /\ Goto(t, "use")
  /\ UNCHANGED <<serverMap, capturers, middleware, subject, held, before, objects, unregistered>>

(* Fault: the entry is the Hooks value itself. *)
InstrumentByValue(t) ==
  /\ pc[t] = "instrument"
  /\ LET h == held[t] IN
       /\ instrumented' = [instrumented EXCEPT ![addr[h]] = h]
       /\ cleanups' = cleanups \cup {<<"hooks", t>>}
       /\ closures' = [closures EXCEPT ![h] = @ \cup {t}]
  /\ Goto(t, "use")
  /\ UNCHANGED <<serverMap, capturers, middleware, subject, held, before, objects, unregistered>>

(* instrumentHooksOnce: claim and install under one lock. *)
InstrumentHooksOnce(t) ==
  /\ pc[t] = "instrument"
  /\ LET h == held[t] IN
     IF CarriesClosures(h) THEN UNCHANGED <<instrumented, cleanups, closures>>
     ELSE /\ instrumented' = [instrumented EXCEPT ![addr[h]] = t]
          /\ cleanups' = cleanups \cup {<<"hooks", t>>}
          /\ closures' = [closures EXCEPT ![h] = @ \cup {t}]
  /\ Goto(t, "use")
  /\ UNCHANGED <<serverMap, capturers, middleware, subject, held, before, objects, unregistered>>

(* Use, or AddReceivingMiddleware of the official SDK. *)
Use(t) ==
  /\ pc[t] = "use"
  /\ middleware' = [middleware EXCEPT ![subject[t]] = @ \cup {t}]
  /\ Goto(t, "done")
  /\ UNCHANGED <<subject, held, before, closures, objects, maps, unregistered>>

(* UnregisterServer: the middleware stays. *)
Unregister(s) ==
  /\ Live(s) /\ s \notin unregistered
  /\ serverMap' = [serverMap EXCEPT ![addr[s]] = None]
  /\ unregistered' = unregistered \cup {s}
  /\ UNCHANGED <<capturers, instrumented, cleanups, objects, installs, tracks>>

-----------------------------------------------------------------------------
(* capturerFor: the weakly held capturer of a server.  Its strong owner is *)
(* the middleware, or the Track that has yet to install that.               *)
CapturerFor(s) ==
  LET e == capturers[addr[s]] IN
  IF e # None /\ subject[e] = s THEN e ELSE None

TrackSteps(t) ==
  \/ Register(t) \/ ReadHooks(t) \/ RegisterCapturer(t)
  \/ InstrumentHooksOnce(t) \/ Use(t)
  \/ \E h \in Hooks, a \in Addresses : GiveHooks(t, h, a)

Cleanup(t) == CleanupServer(t) \/ CleanupCapturer(t) \/ CleanupHooks(t)

Next ==
  \/ \E s \in Servers, a \in Addresses : NewServer(s, a)
  \/ \E h \in Hooks, a \in Addresses : NewHooks(h, a)
  \/ \E o \in Objects : Collect(o)
  \/ \E s \in Servers : Unregister(s)
  \/ \E t \in Tracks, s \in Servers : TrackCall(t, s)
  \/ \E t \in Tracks : TrackSteps(t) \/ Cleanup(t)

Spec == Init /\ [][Next]_vars
=============================================================================
