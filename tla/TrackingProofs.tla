----------------------------- MODULE TrackingProofs -----------------------------
(* Proofs that the maps of Tracking say the truth about live objects, for any *)
(* numbers of servers, Hooks values, addresses and Tracks.                    *)
EXTENDS TrackingProps, TLAPS

(* What a Track has in hand is alive, live objects are at addresses of their *)
(* own, and what was never allocated has left no trace.                      *)
Shape ==
  /\ \A o \in Objects : life[o] # "unborn" => addr[o] \in Addresses
  /\ \A o, p \in Objects : Live(o) /\ Live(p) /\ addr[o] = addr[p] => o = p
  /\ \A s \in Servers : Live(s) /\ hooksOf[s] # None => Live(hooksOf[s])
  /\ \A t \in Tracks : pc[t] # "idle" => subject[t] # None /\ life[subject[t]] # "unborn"
  /\ \A t \in Tracks : Busy(t) => Live(subject[t])
  /\ \A t \in Tracks : Busy(t) /\ held[t] # None => Live(held[t])
  /\ \A t \in Tracks : held[t] # None => life[held[t]] # "unborn"
  /\ \A t \in Tracks : pc[t] \in {"capturer", "instrument"} => held[t] # None
  /\ \A t \in Tracks :
       pc[t] \in {"idle", "register", "hooks", "newhooks", "found"} => held[t] = None
  /\ \A h \in Hooks : closures[h] # {} => life[h] # "unborn"

Typed == TypeOK /\ Shape

(* Initially the variables are typed so ... *)
LEMMA TypedInit == Init => Typed
  BY TrackingAssumption DEF Init, Typed, TypeOK, Shape, Places, Live, Busy, Objects

(* ... and every step keeps it. *)
LEMMA TypedNext == Typed /\ [Next]_vars => Typed'
<1> SUFFICES ASSUME Typed, [Next]_vars PROVE Typed'
  OBVIOUS
<1> USE TrackingAssumption DEF Typed, TypeOK, Shape, Places, Live, Busy, Objects, objects, maps,
     installs, tracks, vars, Goto
<1>1. ASSUME NEW s \in Servers, NEW a \in Addresses, NewServer(s, a) PROVE Typed'
  BY <1>1 DEF NewServer, Allocate, Free
<1>2. ASSUME NEW h \in Hooks, NEW a \in Addresses, NewHooks(h, a) PROVE Typed'
  BY <1>2 DEF NewHooks, Allocate, Free
<1>3. ASSUME NEW o \in Objects, Collect(o) PROVE Typed'
  BY <1>3 DEF Collect, Reachable
<1>4. ASSUME NEW s \in Servers, Unregister(s) PROVE Typed'
  BY <1>4 DEF Unregister
<1>5. ASSUME NEW t \in Tracks, NEW s \in Servers, TrackCall(t, s) PROVE Typed'
  <2>1. Registered(s) \in SUBSET Tracks
    BY DEF Registered
  <2>2. PICK place \in {"found", "register"} : pc' = [pc EXCEPT ![t] = place]
    BY <1>5 DEF TrackCall
  <2>3. /\ pc[t] = "idle" /\ Live(s) /\ subject' = [subject EXCEPT ![t] = s]
        /\ before' = [before EXCEPT ![t] = Registered(s)]
        /\ UNCHANGED <<held, objects, maps, installs, unregistered>>
    BY <1>5 DEF TrackCall
  <2> HIDE DEF Registered
  <2>4. TypeOK'
    BY <2>1, <2>2, <2>3
  <2>5. Shape'
    BY <2>2, <2>3
  <2> QED
    BY <2>4, <2>5
<1>6. ASSUME NEW t \in Tracks, Register(t) PROVE Typed'
  BY <1>6 DEF Register
<1>7. ASSUME NEW t \in Tracks, ReadHooks(t) PROVE Typed'
  BY <1>7 DEF ReadHooks
<1>8. ASSUME NEW t \in Tracks, RegisterCapturer(t) PROVE Typed'
  BY <1>8 DEF RegisterCapturer
<1>9. ASSUME NEW t \in Tracks, InstrumentHooksOnce(t) PROVE Typed'
  <2>1. /\ pc[t] = "instrument" /\ pc' = [pc EXCEPT ![t] = "use"]
        /\ UNCHANGED <<serverMap, capturers, middleware, subject, held, before, objects, unregistered>>
        /\ held[t] \in Hooks /\ life[held[t]] # "unborn"
    BY <1>9 DEF InstrumentHooksOnce
  <2>2. CASE CarriesClosures(held[t])
    <3>1. instrumented' = instrumented /\ cleanups' = cleanups /\ closures' = closures
      BY <1>9, <2>2 DEF InstrumentHooksOnce
    <3> QED
      BY <2>1, <3>1
  <2>3. CASE ~CarriesClosures(held[t])
    <3>1. /\ instrumented' = [instrumented EXCEPT ![addr[held[t]]] = t]
          /\ cleanups' = cleanups \cup {<<"hooks", t>>}
          /\ closures' = [closures EXCEPT ![held[t]] = @ \cup {t}]
      BY <1>9, <2>3 DEF InstrumentHooksOnce
    <3> QED
      BY <2>1, <3>1
  <2> QED
    BY <2>2, <2>3
<1>10. ASSUME NEW t \in Tracks, Use(t) PROVE Typed'
  BY <1>10 DEF Use
<1>11. ASSUME NEW t \in Tracks, NEW h \in Hooks, NEW a \in Addresses, GiveHooks(t, h, a) PROVE Typed'
  <2>1. /\ life[h] = "unborn" /\ life' = [life EXCEPT ![h] = "live"]
        /\ addr' = [addr EXCEPT ![h] = a] /\ \A o \in Objects : Live(o) => addr[o] # a
    BY <1>11 DEF GiveHooks, Allocate, Free
  <2>2. /\ pc[t] = "newhooks" /\ pc' = [pc EXCEPT ![t] = "capturer"]
        /\ hooksOf' = [hooksOf EXCEPT ![subject[t]] = h] /\ held' = [held EXCEPT ![t] = h]
        /\ UNCHANGED <<subject, before, maps, installs, unregistered>>
    BY <1>11 DEF GiveHooks
  <2>3. TypeOK'
    BY <2>1, <2>2
  <2>4. /\ \A o \in Objects : life'[o] # "unborn" => addr'[o] \in Addresses
        /\ \A o, p \in Objects : Live(o)' /\ Live(p)' /\ addr'[o] = addr'[p] => o = p
    BY <2>1
  <2>5. \A s \in Servers : Live(s)' /\ hooksOf'[s] # None => Live(hooksOf[s])'
    BY <2>1, <2>2
  <2>6. /\ \A u \in Tracks : pc'[u] # "idle" => subject'[u] # None /\ (life[subject[u]] # "unborn")'
        /\ \A u \in Tracks : Busy(u)' => Live(subject[u])'
    BY <2>1, <2>2
  <2>7. /\ \A u \in Tracks : Busy(u)' /\ held'[u] # None => Live(held[u])'
        /\ \A u \in Tracks : held'[u] # None => (life[held[u]] # "unborn")'
    BY <2>1, <2>2
  <2>8. /\ \A u \in Tracks : pc'[u] \in {"capturer", "instrument"} => held'[u] # None
        /\ \A u \in Tracks :
             pc'[u] \in {"idle", "register", "hooks", "newhooks", "found"} => held'[u] = None
    BY <2>2
  <2>9. \A k \in Hooks : closures'[k] # {} => life'[k] # "unborn"
    BY <2>1, <2>2
  <2>10. Shape'
    BY <2>4, <2>5, <2>6, <2>7, <2>8, <2>9
  <2> QED
    BY <2>3, <2>10
<1>12. ASSUME NEW t \in Tracks, Cleanup(t) PROVE Typed'
  <2>1. CASE CleanupServer(t)
    BY <2>1 DEF CleanupServer, Drop
  <2>2. CASE CleanupCapturer(t)
    BY <2>2 DEF CleanupCapturer, Drop
  <2>3. CASE CleanupHooks(t)
    BY <2>3 DEF CleanupHooks, Drop
  <2> QED
    BY <1>12, <2>1, <2>2, <2>3 DEF Cleanup
<1>13. CASE UNCHANGED vars
  BY <1>13
<1> QED
  BY <1>1, <1>2, <1>3, <1>4, <1>5, <1>6, <1>7, <1>8, <1>9, <1>10, <1>11, <1>12, <1>13
     DEF Next, TrackSteps

(* Every variable of the maps, of the objects and of the Tracks has its type, *)
(* whatever Track, the collector and the cleanups do (registry.go).           *)
THEOREM TypeCorrect == Spec => []TypeOK
<1>1. Typed => TypeOK
  BY DEF Typed
<1> QED
  BY TypedInit, TypedNext, <1>1, PTL DEF Spec

-----------------------------------------------------------------------------
(* The entry of a map was made by a Track that is past the step that makes it, *)
(* at the address of its object, and its cleanup is still to come.             *)
ServerEntries ==
  \A a \in Addresses :
    LET t == serverMap[a] IN
    t # None => pc[t] \notin {"idle", "register", "found"} /\ addr[subject[t]] = a

CapturerEntries ==
  \A a \in Addresses :
    LET t == capturers[a] IN
    t # None => pc[t] \in {"instrument", "use", "done"} /\ addr[subject[t]] = a

HooksEntries ==
  \A a \in Addresses :
    LET t == instrumented[a] IN
    t # None => pc[t] \in {"use", "done"} /\ held[t] # None /\ addr[held[t]] = a

ServerCleanups == {t \in Tracks : <<"server", t>> \in cleanups}
CapturerCleanups == {t \in Tracks : <<"capturer", t>> \in cleanups}
HooksCleanups == {t \in Tracks : <<"hooks", t>> \in cleanups}

CleanupsToCome ==
  \A a \in Addresses :
    /\ serverMap[a] # None => serverMap[a] \in ServerCleanups
    /\ capturers[a] # None => capturers[a] \in CapturerCleanups
    /\ instrumented[a] # None => instrumented[a] \in HooksCleanups

Entries == ServerEntries /\ CapturerEntries /\ HooksEntries /\ CleanupsToCome

(* What instrumentHooksOnce does, by whether the value carries the closures *)
(* already (hook_state.go:115).                                             *)
LEMMA InstrumentCases ==
  ASSUME NEW t \in Tracks, InstrumentHooksOnce(t)
  PROVE  /\ pc[t] = "instrument" /\ pc' = [pc EXCEPT ![t] = "use"]
         /\ UNCHANGED <<serverMap, capturers, middleware, subject, held, before,
                        life, addr, hooksOf, unregistered>>
         /\ \/ /\ CarriesClosures(held[t])
               /\ instrumented' = instrumented /\ cleanups' = cleanups /\ closures' = closures
            \/ /\ ~CarriesClosures(held[t])
               /\ instrumented' = [instrumented EXCEPT ![addr[held[t]]] = t]
               /\ cleanups' = cleanups \cup {<<"hooks", t>>}
               /\ closures' = [closures EXCEPT ![held[t]] = @ \cup {t}]
<1>1. CASE CarriesClosures(held[t])
  BY <1>1 DEF InstrumentHooksOnce, Goto, objects
<1>2. CASE ~CarriesClosures(held[t])
  BY <1>2 DEF InstrumentHooksOnce, Goto, objects
<1> QED
  BY <1>1, <1>2

(* What TrackCall does to a Track that was idle (mcpgo.go:215). *)
LEMMA TrackCallCases ==
  ASSUME NEW t \in Tracks, NEW s \in Servers, TrackCall(t, s)
  PROVE  /\ pc[t] = "idle" /\ Live(s) /\ subject' = [subject EXCEPT ![t] = s]
         /\ before' = [before EXCEPT ![t] = Registered(s)]
         /\ UNCHANGED <<held, objects, maps, installs, unregistered>>
         /\ \/ serverMap[addr[s]] # None /\ pc' = [pc EXCEPT ![t] = "found"]
            \/ serverMap[addr[s]] = None /\ pc' = [pc EXCEPT ![t] = "register"]
  BY DEF TrackCall, Goto

(* A registry entry stays at its server's address (registry.go:36). *)
LEMMA ServerEntriesNext ==
  ASSUME Typed, ServerEntries, [Next]_vars
  PROVE  ServerEntries'
<1> USE TrackingAssumption DEF Places, Live, Busy, Objects, objects, maps, installs, tracks, Goto,
     ServerEntries
<1>0. /\ life \in [Objects -> {"unborn", "live", "dead"}]
      /\ addr \in [Objects -> Addresses \cup {None}]
      /\ serverMap \in [Addresses -> Tracks \cup {None}]
      /\ capturers \in [Addresses -> Tracks \cup {None}]
      /\ instrumented \in [Addresses -> Tracks \cup {None}]
      /\ pc \in [Tracks -> Places] /\ subject \in [Tracks -> Servers \cup {None}]
      /\ held \in [Tracks -> Hooks \cup {None}]
      /\ \A t \in Tracks :
           /\ pc[t] # "idle" => subject[t] \in Objects /\ life[subject[t]] # "unborn"
           /\ held[t] # None => held[t] \in Objects /\ life[held[t]] # "unborn"
           /\ pc[t] \in {"capturer", "instrument"} => held[t] # None
           /\ pc[t] \in {"idle", "register", "hooks", "newhooks", "found"} => held[t] = None
      /\ \A o \in Objects : life[o] # "unborn" => addr[o] \in Addresses
  BY DEF Typed, TypeOK, Shape
<1>1. ASSUME NEW s \in Servers, NEW a \in Addresses, NewServer(s, a) PROVE ServerEntries'
  BY <1>0, <1>1 DEF NewServer, Allocate, Free
<1>2. ASSUME NEW h \in Hooks, NEW a \in Addresses, NewHooks(h, a) PROVE ServerEntries'
  BY <1>0, <1>2 DEF NewHooks, Allocate, Free
<1>3. ASSUME NEW o \in Objects, Collect(o) PROVE ServerEntries'
  BY <1>0, <1>3 DEF Collect
<1>4. ASSUME NEW s \in Servers, Unregister(s) PROVE ServerEntries'
  BY <1>0, <1>4 DEF Unregister
<1>5. ASSUME NEW t \in Tracks, NEW s \in Servers, TrackCall(t, s) PROVE ServerEntries'
  <2>1. PICK place \in {"found", "register"} : pc' = [pc EXCEPT ![t] = place]
    BY <1>0, <1>5, TrackCallCases
  <2>2. /\ pc[t] = "idle" /\ subject' = [subject EXCEPT ![t] = s]
        /\ UNCHANGED <<life, addr, serverMap, capturers, instrumented, cleanups,
                       middleware, closures, held, unregistered>>
    BY <1>0, <1>5, TrackCallCases
  <2> QED
    BY <1>0, <2>1, <2>2
<1>6. ASSUME NEW t \in Tracks, Register(t) PROVE ServerEntries'
  BY <1>0, <1>6 DEF Register
<1>7. ASSUME NEW t \in Tracks, ReadHooks(t) PROVE ServerEntries'
  BY <1>0, <1>7 DEF ReadHooks
<1>8. ASSUME NEW t \in Tracks, RegisterCapturer(t) PROVE ServerEntries'
  BY <1>0, <1>8 DEF RegisterCapturer
<1>9. ASSUME NEW t \in Tracks, InstrumentHooksOnce(t) PROVE ServerEntries'
  <2>1. /\ pc[t] = "instrument" /\ pc' = [pc EXCEPT ![t] = "use"]
        /\ UNCHANGED <<life, addr, serverMap, capturers, middleware, subject, held, before,
                       unregistered>>
    BY <1>0, <1>9, InstrumentCases
  <2>2. /\ held[t] \in Hooks /\ addr[held[t]] \in Addresses
    BY <1>0, <2>1
  <2>3. CASE UNCHANGED <<instrumented, cleanups, closures>> /\ CarriesClosures(held[t])
    BY <1>0, <2>1, <2>2, <2>3
  <2>4. CASE /\ ~CarriesClosures(held[t])
             /\ instrumented' = [instrumented EXCEPT ![addr[held[t]]] = t]
             /\ cleanups' = cleanups \cup {<<"hooks", t>>}
             /\ closures' = [closures EXCEPT ![held[t]] = @ \cup {t}]
    BY <1>0, <2>1, <2>2, <2>4
  <2> QED
    BY <1>0, <1>9, <2>3, <2>4, InstrumentCases
<1>10. ASSUME NEW t \in Tracks, Use(t) PROVE ServerEntries'
  BY <1>0, <1>10 DEF Use
<1>11. ASSUME NEW t \in Tracks, NEW h \in Hooks, NEW a \in Addresses, GiveHooks(t, h, a) PROVE ServerEntries'
  BY <1>0, <1>11 DEF GiveHooks, Allocate, Free
<1>12. ASSUME NEW t \in Tracks, CleanupServer(t) PROVE ServerEntries'
  BY <1>0, <1>12 DEF CleanupServer, Drop
<1>13. ASSUME NEW t \in Tracks, CleanupCapturer(t) PROVE ServerEntries'
  BY <1>0, <1>13 DEF CleanupCapturer, Drop
<1>14. ASSUME NEW t \in Tracks, CleanupHooks(t) PROVE ServerEntries'
  BY <1>0, <1>14 DEF CleanupHooks, Drop
<1>15. CASE UNCHANGED vars
  BY <1>0, <1>15 DEF vars
<1> QED
  BY <1>1, <1>2, <1>3, <1>4, <1>5, <1>6, <1>7, <1>8, <1>9, <1>10, <1>11, <1>12, <1>13,
     <1>14, <1>15 DEF Next, TrackSteps, Cleanup

(* So does an entry of the capturers (hook_state.go:47). *)
LEMMA CapturerEntriesNext ==
  ASSUME Typed, CapturerEntries, [Next]_vars
  PROVE  CapturerEntries'
<1> USE TrackingAssumption DEF Places, Live, Busy, Objects, objects, maps, installs, tracks, Goto,
     CapturerEntries
<1>0. /\ life \in [Objects -> {"unborn", "live", "dead"}]
      /\ addr \in [Objects -> Addresses \cup {None}]
      /\ serverMap \in [Addresses -> Tracks \cup {None}]
      /\ capturers \in [Addresses -> Tracks \cup {None}]
      /\ instrumented \in [Addresses -> Tracks \cup {None}]
      /\ pc \in [Tracks -> Places] /\ subject \in [Tracks -> Servers \cup {None}]
      /\ held \in [Tracks -> Hooks \cup {None}]
      /\ \A t \in Tracks :
           /\ pc[t] # "idle" => subject[t] \in Objects /\ life[subject[t]] # "unborn"
           /\ held[t] # None => held[t] \in Objects /\ life[held[t]] # "unborn"
           /\ pc[t] \in {"capturer", "instrument"} => held[t] # None
           /\ pc[t] \in {"idle", "register", "hooks", "newhooks", "found"} => held[t] = None
      /\ \A o \in Objects : life[o] # "unborn" => addr[o] \in Addresses
  BY DEF Typed, TypeOK, Shape
<1>1. ASSUME NEW s \in Servers, NEW a \in Addresses, NewServer(s, a) PROVE CapturerEntries'
  BY <1>0, <1>1 DEF NewServer, Allocate, Free
<1>2. ASSUME NEW h \in Hooks, NEW a \in Addresses, NewHooks(h, a) PROVE CapturerEntries'
  BY <1>0, <1>2 DEF NewHooks, Allocate, Free
<1>3. ASSUME NEW o \in Objects, Collect(o) PROVE CapturerEntries'
  BY <1>0, <1>3 DEF Collect
<1>4. ASSUME NEW s \in Servers, Unregister(s) PROVE CapturerEntries'
  BY <1>0, <1>4 DEF Unregister
<1>5. ASSUME NEW t \in Tracks, NEW s \in Servers, TrackCall(t, s) PROVE CapturerEntries'
  <2>1. PICK place \in {"found", "register"} : pc' = [pc EXCEPT ![t] = place]
    BY <1>0, <1>5, TrackCallCases
  <2>2. /\ pc[t] = "idle" /\ subject' = [subject EXCEPT ![t] = s]
        /\ UNCHANGED <<life, addr, serverMap, capturers, instrumented, cleanups,
                       middleware, closures, held, unregistered>>
    BY <1>0, <1>5, TrackCallCases
  <2> QED
    BY <1>0, <2>1, <2>2
<1>6. ASSUME NEW t \in Tracks, Register(t) PROVE CapturerEntries'
  BY <1>0, <1>6 DEF Register
<1>7. ASSUME NEW t \in Tracks, ReadHooks(t) PROVE CapturerEntries'
  BY <1>0, <1>7 DEF ReadHooks
<1>8. ASSUME NEW t \in Tracks, RegisterCapturer(t) PROVE CapturerEntries'
  BY <1>0, <1>8 DEF RegisterCapturer
<1>9. ASSUME NEW t \in Tracks, InstrumentHooksOnce(t) PROVE CapturerEntries'
  <2>1. /\ pc[t] = "instrument" /\ pc' = [pc EXCEPT ![t] = "use"]
        /\ UNCHANGED <<life, addr, serverMap, capturers, middleware, subject, held, before,
                       unregistered>>
    BY <1>0, <1>9, InstrumentCases
  <2>2. /\ held[t] \in Hooks /\ addr[held[t]] \in Addresses
    BY <1>0, <2>1
  <2>3. CASE UNCHANGED <<instrumented, cleanups, closures>> /\ CarriesClosures(held[t])
    BY <1>0, <2>1, <2>2, <2>3
  <2>4. CASE /\ ~CarriesClosures(held[t])
             /\ instrumented' = [instrumented EXCEPT ![addr[held[t]]] = t]
             /\ cleanups' = cleanups \cup {<<"hooks", t>>}
             /\ closures' = [closures EXCEPT ![held[t]] = @ \cup {t}]
    BY <1>0, <2>1, <2>2, <2>4
  <2> QED
    BY <1>0, <1>9, <2>3, <2>4, InstrumentCases
<1>10. ASSUME NEW t \in Tracks, Use(t) PROVE CapturerEntries'
  BY <1>0, <1>10 DEF Use
<1>11. ASSUME NEW t \in Tracks, NEW h \in Hooks, NEW a \in Addresses, GiveHooks(t, h, a) PROVE CapturerEntries'
  BY <1>0, <1>11 DEF GiveHooks, Allocate, Free
<1>12. ASSUME NEW t \in Tracks, CleanupServer(t) PROVE CapturerEntries'
  BY <1>0, <1>12 DEF CleanupServer, Drop
<1>13. ASSUME NEW t \in Tracks, CleanupCapturer(t) PROVE CapturerEntries'
  BY <1>0, <1>13 DEF CleanupCapturer, Drop
<1>14. ASSUME NEW t \in Tracks, CleanupHooks(t) PROVE CapturerEntries'
  BY <1>0, <1>14 DEF CleanupHooks, Drop
<1>15. CASE UNCHANGED vars
  BY <1>0, <1>15 DEF vars
<1> QED
  BY <1>1, <1>2, <1>3, <1>4, <1>5, <1>6, <1>7, <1>8, <1>9, <1>10, <1>11, <1>12, <1>13,
     <1>14, <1>15 DEF Next, TrackSteps, Cleanup

(* So does an entry of the instrumented values (hook_state.go:127). *)
LEMMA HooksEntriesNext ==
  ASSUME Typed, HooksEntries, [Next]_vars
  PROVE  HooksEntries'
<1> USE TrackingAssumption DEF Places, Live, Busy, Objects, objects, maps, installs, tracks, Goto,
     HooksEntries
<1>0. /\ life \in [Objects -> {"unborn", "live", "dead"}]
      /\ addr \in [Objects -> Addresses \cup {None}]
      /\ serverMap \in [Addresses -> Tracks \cup {None}]
      /\ capturers \in [Addresses -> Tracks \cup {None}]
      /\ instrumented \in [Addresses -> Tracks \cup {None}]
      /\ pc \in [Tracks -> Places] /\ subject \in [Tracks -> Servers \cup {None}]
      /\ held \in [Tracks -> Hooks \cup {None}]
      /\ \A t \in Tracks :
           /\ pc[t] # "idle" => subject[t] \in Objects /\ life[subject[t]] # "unborn"
           /\ held[t] # None => held[t] \in Objects /\ life[held[t]] # "unborn"
           /\ pc[t] \in {"capturer", "instrument"} => held[t] # None
           /\ pc[t] \in {"idle", "register", "hooks", "newhooks", "found"} => held[t] = None
      /\ \A o \in Objects : life[o] # "unborn" => addr[o] \in Addresses
  BY DEF Typed, TypeOK, Shape
<1>1. ASSUME NEW s \in Servers, NEW a \in Addresses, NewServer(s, a) PROVE HooksEntries'
  BY <1>0, <1>1 DEF NewServer, Allocate, Free
<1>2. ASSUME NEW h \in Hooks, NEW a \in Addresses, NewHooks(h, a) PROVE HooksEntries'
  BY <1>0, <1>2 DEF NewHooks, Allocate, Free
<1>3. ASSUME NEW o \in Objects, Collect(o) PROVE HooksEntries'
  BY <1>0, <1>3 DEF Collect
<1>4. ASSUME NEW s \in Servers, Unregister(s) PROVE HooksEntries'
  BY <1>0, <1>4 DEF Unregister
<1>5. ASSUME NEW t \in Tracks, NEW s \in Servers, TrackCall(t, s) PROVE HooksEntries'
  <2>1. PICK place \in {"found", "register"} : pc' = [pc EXCEPT ![t] = place]
    BY <1>0, <1>5, TrackCallCases
  <2>2. /\ pc[t] = "idle" /\ subject' = [subject EXCEPT ![t] = s]
        /\ UNCHANGED <<life, addr, serverMap, capturers, instrumented, cleanups,
                       middleware, closures, held, unregistered>>
    BY <1>0, <1>5, TrackCallCases
  <2> QED
    BY <1>0, <2>1, <2>2
<1>6. ASSUME NEW t \in Tracks, Register(t) PROVE HooksEntries'
  BY <1>0, <1>6 DEF Register
<1>7. ASSUME NEW t \in Tracks, ReadHooks(t) PROVE HooksEntries'
  BY <1>0, <1>7 DEF ReadHooks
<1>8. ASSUME NEW t \in Tracks, RegisterCapturer(t) PROVE HooksEntries'
  BY <1>0, <1>8 DEF RegisterCapturer
<1>9. ASSUME NEW t \in Tracks, InstrumentHooksOnce(t) PROVE HooksEntries'
  <2>1. /\ pc[t] = "instrument" /\ pc' = [pc EXCEPT ![t] = "use"]
        /\ UNCHANGED <<life, addr, serverMap, capturers, middleware, subject, held, before,
                       unregistered>>
    BY <1>0, <1>9, InstrumentCases
  <2>2. /\ held[t] \in Hooks /\ addr[held[t]] \in Addresses
    BY <1>0, <2>1
  <2>3. CASE UNCHANGED <<instrumented, cleanups, closures>> /\ CarriesClosures(held[t])
    BY <1>0, <2>1, <2>2, <2>3
  <2>4. CASE /\ ~CarriesClosures(held[t])
             /\ instrumented' = [instrumented EXCEPT ![addr[held[t]]] = t]
             /\ cleanups' = cleanups \cup {<<"hooks", t>>}
             /\ closures' = [closures EXCEPT ![held[t]] = @ \cup {t}]
    BY <1>0, <2>1, <2>2, <2>4
  <2> QED
    BY <1>0, <1>9, <2>3, <2>4, InstrumentCases
<1>10. ASSUME NEW t \in Tracks, Use(t) PROVE HooksEntries'
  BY <1>0, <1>10 DEF Use
<1>11. ASSUME NEW t \in Tracks, NEW h \in Hooks, NEW a \in Addresses, GiveHooks(t, h, a) PROVE HooksEntries'
  BY <1>0, <1>11 DEF GiveHooks, Allocate, Free
<1>12. ASSUME NEW t \in Tracks, CleanupServer(t) PROVE HooksEntries'
  BY <1>0, <1>12 DEF CleanupServer, Drop
<1>13. ASSUME NEW t \in Tracks, CleanupCapturer(t) PROVE HooksEntries'
  BY <1>0, <1>13 DEF CleanupCapturer, Drop
<1>14. ASSUME NEW t \in Tracks, CleanupHooks(t) PROVE HooksEntries'
  BY <1>0, <1>14 DEF CleanupHooks, Drop
<1>15. CASE UNCHANGED vars
  BY <1>0, <1>15 DEF vars
<1> QED
  BY <1>1, <1>2, <1>3, <1>4, <1>5, <1>6, <1>7, <1>8, <1>9, <1>10, <1>11, <1>12, <1>13,
     <1>14, <1>15 DEF Next, TrackSteps, Cleanup

(* An entry goes when its cleanup runs, if not before (registry.go:29). *)
LEMMA CleanupsNext ==
  ASSUME Typed, ServerEntries, CapturerEntries, HooksEntries, CleanupsToCome, [Next]_vars
  PROVE  CleanupsToCome'
<1> USE TrackingAssumption DEF CleanupsToCome
<1>0. /\ life \in [Objects -> {"unborn", "live", "dead"}]
      /\ addr \in [Objects -> Addresses \cup {None}]
      /\ serverMap \in [Addresses -> Tracks \cup {None}]
      /\ capturers \in [Addresses -> Tracks \cup {None}]
      /\ instrumented \in [Addresses -> Tracks \cup {None}]
      /\ None \notin Tracks
  BY DEF Typed, TypeOK
<1>1. ASSUME NEW s \in Servers, NEW a \in Addresses, NewServer(s, a) PROVE CleanupsToCome'
  <2>1. UNCHANGED <<serverMap, capturers, instrumented, cleanups>>
    BY <1>1 DEF NewServer, Allocate, Free, maps
  <2>2. UNCHANGED <<ServerCleanups, CapturerCleanups, HooksCleanups>>
    BY <2>1 DEF ServerCleanups, CapturerCleanups, HooksCleanups
  <2> QED
    BY <2>1, <2>2
<1>2. ASSUME NEW h \in Hooks, NEW a \in Addresses, NewHooks(h, a) PROVE CleanupsToCome'
  <2>1. UNCHANGED <<serverMap, capturers, instrumented, cleanups>>
    BY <1>2 DEF NewHooks, Allocate, Free, maps
  <2>2. UNCHANGED <<ServerCleanups, CapturerCleanups, HooksCleanups>>
    BY <2>1 DEF ServerCleanups, CapturerCleanups, HooksCleanups
  <2> QED
    BY <2>1, <2>2
<1>3. ASSUME NEW o \in Objects, Collect(o) PROVE CleanupsToCome'
  <2>1. UNCHANGED <<serverMap, capturers, instrumented, cleanups>>
    BY <1>3 DEF Collect, maps
  <2>2. UNCHANGED <<ServerCleanups, CapturerCleanups, HooksCleanups>>
    BY <2>1 DEF ServerCleanups, CapturerCleanups, HooksCleanups
  <2> QED
    BY <2>1, <2>2
<1>4. ASSUME NEW s \in Servers, Unregister(s) PROVE CleanupsToCome'
  <2>1. serverMap' = [serverMap EXCEPT ![addr[s]] = None] /\ UNCHANGED <<capturers, instrumented, cleanups>>
    BY <1>4 DEF Unregister
  <2>2. UNCHANGED <<ServerCleanups, CapturerCleanups, HooksCleanups>>
    BY <2>1 DEF ServerCleanups, CapturerCleanups, HooksCleanups
  <2> QED
    BY <2>1, <2>2
<1>5. ASSUME NEW t \in Tracks, NEW s \in Servers, TrackCall(t, s) PROVE CleanupsToCome'
  <2>1. UNCHANGED <<serverMap, capturers, instrumented, cleanups>>
    BY <1>5 DEF TrackCall, maps
  <2>2. UNCHANGED <<ServerCleanups, CapturerCleanups, HooksCleanups>>
    BY <2>1 DEF ServerCleanups, CapturerCleanups, HooksCleanups
  <2> QED
    BY <2>1, <2>2
<1>6. ASSUME NEW t \in Tracks, Register(t) PROVE CleanupsToCome'
  <2>1. /\ serverMap' = [serverMap EXCEPT ![addr[subject[t]]] = t]
        /\ cleanups' = cleanups \cup {<<"server", t>>}
        /\ UNCHANGED <<capturers, instrumented>>
    BY <1>6 DEF Register
  <2>2. /\ ServerCleanups' = ServerCleanups \cup {t}
        /\ CapturerCleanups' = CapturerCleanups
        /\ HooksCleanups' = HooksCleanups
    BY <2>1 DEF ServerCleanups, CapturerCleanups, HooksCleanups
  <2> QED
    BY <2>1, <2>2
<1>7. ASSUME NEW t \in Tracks, ReadHooks(t) PROVE CleanupsToCome'
  <2>1. UNCHANGED <<serverMap, capturers, instrumented, cleanups>>
    BY <1>7 DEF ReadHooks, maps
  <2>2. UNCHANGED <<ServerCleanups, CapturerCleanups, HooksCleanups>>
    BY <2>1 DEF ServerCleanups, CapturerCleanups, HooksCleanups
  <2> QED
    BY <2>1, <2>2
<1>8. ASSUME NEW t \in Tracks, RegisterCapturer(t) PROVE CleanupsToCome'
  <2>1. /\ capturers' = [capturers EXCEPT ![addr[subject[t]]] = t]
        /\ cleanups' = cleanups \cup {<<"capturer", t>>}
        /\ UNCHANGED <<serverMap, instrumented>>
    BY <1>8 DEF RegisterCapturer
  <2>2. /\ ServerCleanups' = ServerCleanups
        /\ CapturerCleanups' = CapturerCleanups \cup {t}
        /\ HooksCleanups' = HooksCleanups
    BY <2>1 DEF ServerCleanups, CapturerCleanups, HooksCleanups
  <2> QED
    BY <2>1, <2>2
<1>9. ASSUME NEW t \in Tracks, InstrumentHooksOnce(t) PROVE CleanupsToCome'
  <2>1. UNCHANGED <<serverMap, capturers>>
    BY <1>9, InstrumentCases
  <2>2. CASE UNCHANGED <<instrumented, cleanups>>
    <3>1. UNCHANGED <<ServerCleanups, CapturerCleanups, HooksCleanups>>
      BY <2>2 DEF ServerCleanups, CapturerCleanups, HooksCleanups
    <3> QED
      BY <2>1, <2>2, <3>1
  <2>3. CASE /\ instrumented' = [instrumented EXCEPT ![addr[held[t]]] = t]
             /\ cleanups' = cleanups \cup {<<"hooks", t>>}
    <3>1. /\ ServerCleanups' = ServerCleanups
          /\ CapturerCleanups' = CapturerCleanups
          /\ HooksCleanups' = HooksCleanups \cup {t}
      BY <2>3 DEF ServerCleanups, CapturerCleanups, HooksCleanups
    <3> QED
      BY <1>0, <2>1, <2>3, <3>1
  <2> QED
    BY <1>9, <2>2, <2>3, InstrumentCases
<1>10. ASSUME NEW t \in Tracks, Use(t) PROVE CleanupsToCome'
  <2>1. UNCHANGED <<serverMap, capturers, instrumented, cleanups>>
    BY <1>10 DEF Use, maps
  <2>2. UNCHANGED <<ServerCleanups, CapturerCleanups, HooksCleanups>>
    BY <2>1 DEF ServerCleanups, CapturerCleanups, HooksCleanups
  <2> QED
    BY <2>1, <2>2
<1>11. ASSUME NEW t \in Tracks, NEW h \in Hooks, NEW a \in Addresses, GiveHooks(t, h, a) PROVE CleanupsToCome'
  <2>1. UNCHANGED <<serverMap, capturers, instrumented, cleanups>>
    BY <1>11 DEF GiveHooks, Allocate, Free, maps
  <2>2. UNCHANGED <<ServerCleanups, CapturerCleanups, HooksCleanups>>
    BY <2>1 DEF ServerCleanups, CapturerCleanups, HooksCleanups
  <2> QED
    BY <2>1, <2>2
<1>12. ASSUME NEW t \in Tracks, CleanupServer(t) PROVE CleanupsToCome'
  <2>1. /\ serverMap' = [serverMap EXCEPT ![addr[subject[t]]] = IF serverMap[addr[subject[t]]] = t THEN None ELSE serverMap[addr[subject[t]]]]
        /\ cleanups' = cleanups \ {<<"server", t>>}
        /\ UNCHANGED <<capturers, instrumented>>
    BY <1>12 DEF CleanupServer, Drop
  <2>2. /\ ServerCleanups' = ServerCleanups \ {t}
        /\ CapturerCleanups' = CapturerCleanups
        /\ HooksCleanups' = HooksCleanups
    BY <2>1 DEF ServerCleanups, CapturerCleanups, HooksCleanups
  <2>3. \A a \in Addresses : serverMap[a] = t => a = addr[subject[t]]
    BY <1>0 DEF ServerEntries
  <2> QED
    BY <1>0, <2>1, <2>2, <2>3
<1>13. ASSUME NEW t \in Tracks, CleanupCapturer(t) PROVE CleanupsToCome'
  <2>1. /\ capturers' = [capturers EXCEPT ![addr[subject[t]]] = IF capturers[addr[subject[t]]] = t THEN None ELSE capturers[addr[subject[t]]]]
        /\ cleanups' = cleanups \ {<<"capturer", t>>}
        /\ UNCHANGED <<serverMap, instrumented>>
    BY <1>13 DEF CleanupCapturer, Drop
  <2>2. /\ ServerCleanups' = ServerCleanups
        /\ CapturerCleanups' = CapturerCleanups \ {t}
        /\ HooksCleanups' = HooksCleanups
    BY <2>1 DEF ServerCleanups, CapturerCleanups, HooksCleanups
  <2>3. \A a \in Addresses : capturers[a] = t => a = addr[subject[t]]
    BY <1>0 DEF CapturerEntries
  <2> QED
    BY <1>0, <2>1, <2>2, <2>3
<1>14. ASSUME NEW t \in Tracks, CleanupHooks(t) PROVE CleanupsToCome'
  <2>1. /\ instrumented' = [instrumented EXCEPT ![addr[held[t]]] = IF instrumented[addr[held[t]]] = t THEN None ELSE instrumented[addr[held[t]]]]
        /\ cleanups' = cleanups \ {<<"hooks", t>>}
        /\ UNCHANGED <<serverMap, capturers>>
    BY <1>14 DEF CleanupHooks, Drop
  <2>2. /\ ServerCleanups' = ServerCleanups
        /\ CapturerCleanups' = CapturerCleanups
        /\ HooksCleanups' = HooksCleanups \ {t}
    BY <2>1 DEF ServerCleanups, CapturerCleanups, HooksCleanups
  <2>3. \A a \in Addresses : instrumented[a] = t => a = addr[held[t]]
    BY <1>0 DEF HooksEntries
  <2> QED
    BY <1>0, <2>1, <2>2, <2>3
<1>15. CASE UNCHANGED vars
  BY <1>15 DEF vars, maps, ServerCleanups, CapturerCleanups, HooksCleanups
<1> QED
  BY <1>1, <1>2, <1>3, <1>4, <1>5, <1>6, <1>7, <1>8, <1>9, <1>10, <1>11, <1>12, <1>13,
     <1>14, <1>15 DEF Next, TrackSteps, Cleanup

(* No step takes the registry entry of a live server away (registry.go:29). *)
LEMMA FoundNext ==
  ASSUME Typed, RegisteredIsFound, [Next]_vars
  PROVE  RegisteredIsFound'
<1> USE TrackingAssumption DEF Typed, TypeOK, Shape, Places, Live, Busy, Objects, objects, maps, installs, tracks,
     Goto, RegisteredIsFound, Registered
<1>1. ASSUME NEW s \in Servers, NEW a \in Addresses, NewServer(s, a) PROVE RegisteredIsFound'
  BY <1>1 DEF NewServer, Allocate, Free
<1>2. ASSUME NEW h \in Hooks, NEW a \in Addresses, NewHooks(h, a) PROVE RegisteredIsFound'
  BY <1>2 DEF NewHooks, Allocate, Free
<1>3. ASSUME NEW o \in Objects, Collect(o) PROVE RegisteredIsFound'
  BY <1>3 DEF Collect
<1>4. ASSUME NEW s \in Servers, Unregister(s) PROVE RegisteredIsFound'
  BY <1>4 DEF Unregister
<1>5. ASSUME NEW t \in Tracks, NEW s \in Servers, TrackCall(t, s) PROVE RegisteredIsFound'
  <2>1. PICK place \in {"found", "register"} : pc' = [pc EXCEPT ![t] = place]
    BY <1>5, TrackCallCases
  <2>2. /\ pc[t] = "idle" /\ subject' = [subject EXCEPT ![t] = s]
        /\ UNCHANGED <<life, addr, serverMap, capturers, instrumented, cleanups,
                       middleware, closures, held, unregistered>>
    BY <1>5, TrackCallCases
  <2> QED
    BY <2>1, <2>2
<1>6. ASSUME NEW t \in Tracks, Register(t) PROVE RegisteredIsFound'
  BY <1>6 DEF Register
<1>7. ASSUME NEW t \in Tracks, ReadHooks(t) PROVE RegisteredIsFound'
  BY <1>7 DEF ReadHooks
<1>8. ASSUME NEW t \in Tracks, RegisterCapturer(t) PROVE RegisteredIsFound'
  BY <1>8 DEF RegisterCapturer
<1>9. ASSUME NEW t \in Tracks, InstrumentHooksOnce(t) PROVE RegisteredIsFound'
  <2>1. /\ pc[t] = "instrument" /\ pc' = [pc EXCEPT ![t] = "use"]
        /\ UNCHANGED <<life, addr, serverMap, capturers, middleware, subject, held, before,
                       unregistered>>
    BY <1>9, InstrumentCases
  <2>2. /\ held[t] \in Hooks /\ addr[held[t]] \in Addresses
    BY <2>1
  <2>3. CASE UNCHANGED <<instrumented, cleanups, closures>> /\ CarriesClosures(held[t])
    BY <2>1, <2>2, <2>3
  <2>4. CASE /\ ~CarriesClosures(held[t])
             /\ instrumented' = [instrumented EXCEPT ![addr[held[t]]] = t]
             /\ cleanups' = cleanups \cup {<<"hooks", t>>}
             /\ closures' = [closures EXCEPT ![held[t]] = @ \cup {t}]
    BY <2>1, <2>2, <2>4
  <2> QED
    BY <1>9, <2>3, <2>4, InstrumentCases
<1>10. ASSUME NEW t \in Tracks, Use(t) PROVE RegisteredIsFound'
  BY <1>10 DEF Use
<1>11. ASSUME NEW t \in Tracks, NEW h \in Hooks, NEW a \in Addresses, GiveHooks(t, h, a) PROVE RegisteredIsFound'
  BY <1>11 DEF GiveHooks, Allocate, Free
<1>12. ASSUME NEW t \in Tracks, CleanupServer(t) PROVE RegisteredIsFound'
  BY <1>12 DEF CleanupServer, Drop
<1>13. ASSUME NEW t \in Tracks, CleanupCapturer(t) PROVE RegisteredIsFound'
  BY <1>13 DEF CleanupCapturer, Drop
<1>14. ASSUME NEW t \in Tracks, CleanupHooks(t) PROVE RegisteredIsFound'
  BY <1>14 DEF CleanupHooks, Drop
<1>15. CASE UNCHANGED vars
  BY <1>15 DEF vars
<1> QED
  BY <1>1, <1>2, <1>3, <1>4, <1>5, <1>6, <1>7, <1>8, <1>9, <1>10, <1>11, <1>12, <1>13,
     <1>14, <1>15 DEF Next, TrackSteps, Cleanup

-----------------------------------------------------------------------------
(* The map of instrumented values tells which live values carry closures. *)
ClosuresKnown ==
  /\ \A h \in Hooks : Live(h) /\ closures[h] # {} => CarriesClosures(h)
  /\ \A a \in Addresses :
       instrumented[a] # None => instrumented[a] \in closures[held[instrumented[a]]]

Instrumented == ClosuresKnown /\ HooksInstrumentedOnce

(* Claiming and installing under one lock keeps the map true (hook_state.go:115). *)
LEMMA InstrumentedNext ==
  ASSUME Typed, HooksEntries, Instrumented, [Next]_vars
  PROVE  Instrumented'
<1> USE TrackingAssumption DEF Places, Live, Busy, Objects, objects, maps, installs, tracks, Goto,
     Instrumented, ClosuresKnown, HooksInstrumentedOnce, CarriesClosures
<1>0. /\ life \in [Objects -> {"unborn", "live", "dead"}]
      /\ addr \in [Objects -> Addresses \cup {None}]
      /\ instrumented \in [Addresses -> Tracks \cup {None}]
      /\ closures \in [Hooks -> SUBSET Tracks]
      /\ pc \in [Tracks -> Places] /\ held \in [Tracks -> Hooks \cup {None}]
      /\ \A t \in Tracks :
           /\ held[t] # None => held[t] \in Objects /\ life[held[t]] # "unborn"
           /\ pc[t] \in {"capturer", "instrument"} => held[t] # None
           /\ pc[t] \in {"idle", "register", "hooks", "newhooks", "found"} => held[t] = None
      /\ \A o \in Objects : life[o] # "unborn" => addr[o] \in Addresses
      /\ \A o, p \in Objects : Live(o) /\ Live(p) /\ addr[o] = addr[p] => o = p
      /\ \A t \in Tracks : Busy(t) /\ held[t] # None => Live(held[t])
      /\ \A h \in Hooks : closures[h] # {} => life[h] # "unborn"
      /\ \A a \in Addresses :
           instrumented[a] # None =>
             /\ instrumented[a] \in Tracks /\ pc[instrumented[a]] \in {"use", "done"}
             /\ held[instrumented[a]] # None /\ addr[held[instrumented[a]]] = a
  <2>1. /\ life \in [Objects -> {"unborn", "live", "dead"}]
        /\ addr \in [Objects -> Addresses \cup {None}]
        /\ instrumented \in [Addresses -> Tracks \cup {None}]
        /\ closures \in [Hooks -> SUBSET Tracks]
        /\ pc \in [Tracks -> Places] /\ held \in [Tracks -> Hooks \cup {None}]
    BY DEF Typed, TypeOK
  <2>2. /\ \A t \in Tracks :
             /\ held[t] # None => held[t] \in Objects /\ life[held[t]] # "unborn"
             /\ pc[t] \in {"capturer", "instrument"} => held[t] # None
             /\ pc[t] \in {"idle", "register", "hooks", "newhooks", "found"} => held[t] = None
        /\ \A o \in Objects : life[o] # "unborn" => addr[o] \in Addresses
        /\ \A o, p \in Objects : Live(o) /\ Live(p) /\ addr[o] = addr[p] => o = p
        /\ \A t \in Tracks : Busy(t) /\ held[t] # None => Live(held[t])
        /\ \A h \in Hooks : closures[h] # {} => life[h] # "unborn"
    BY <2>1 DEF Typed, Shape
  <2>3. \A a \in Addresses :
           instrumented[a] # None =>
             /\ instrumented[a] \in Tracks /\ pc[instrumented[a]] \in {"use", "done"}
             /\ held[instrumented[a]] # None /\ addr[held[instrumented[a]]] = a
    <3> HIDE DEF Instrumented, ClosuresKnown, HooksInstrumentedOnce
    <3>1. TAKE a \in Addresses
    <3>2. HAVE instrumented[a] # None
    <3> QED
      BY <2>1, <3>2 DEF HooksEntries
  <2> QED
    BY <2>1, <2>2, <2>3
<1>1. ASSUME NEW s \in Servers, NEW a \in Addresses, NewServer(s, a) PROVE Instrumented'
  BY <1>0, <1>1 DEF NewServer, Allocate, Free
<1>2. ASSUME NEW h \in Hooks, NEW a \in Addresses, NewHooks(h, a) PROVE Instrumented'
  BY <1>0, <1>2 DEF NewHooks, Allocate, Free
<1>3. ASSUME NEW o \in Objects, Collect(o) PROVE Instrumented'
  BY <1>0, <1>3 DEF Collect
<1>4. ASSUME NEW s \in Servers, Unregister(s) PROVE Instrumented'
  BY <1>0, <1>4 DEF Unregister
<1>5. ASSUME NEW t \in Tracks, NEW s \in Servers, TrackCall(t, s) PROVE Instrumented'
  <2>1. PICK place \in {"found", "register"} : pc' = [pc EXCEPT ![t] = place]
    BY <1>0, <1>5, TrackCallCases
  <2>2. /\ pc[t] = "idle" /\ subject' = [subject EXCEPT ![t] = s]
        /\ UNCHANGED <<life, addr, serverMap, capturers, instrumented, cleanups,
                       middleware, closures, held, unregistered>>
    BY <1>0, <1>5, TrackCallCases
  <2> QED
    BY <1>0, <2>1, <2>2
<1>6. ASSUME NEW t \in Tracks, Register(t) PROVE Instrumented'
  BY <1>0, <1>6 DEF Register
<1>7. ASSUME NEW t \in Tracks, ReadHooks(t) PROVE Instrumented'
  BY <1>0, <1>7 DEF ReadHooks
<1>8. ASSUME NEW t \in Tracks, RegisterCapturer(t) PROVE Instrumented'
  BY <1>0, <1>8 DEF RegisterCapturer
<1>9. ASSUME NEW t \in Tracks, InstrumentHooksOnce(t) PROVE Instrumented'
  <2>1. /\ pc[t] = "instrument" /\ pc' = [pc EXCEPT ![t] = "use"]
        /\ UNCHANGED <<life, addr, serverMap, capturers, middleware, subject, held, before,
                       unregistered>>
    BY <1>0, <1>9, InstrumentCases
  <2>2. /\ held[t] \in Hooks /\ addr[held[t]] \in Addresses
    BY <1>0, <2>1
  <2>3. CASE UNCHANGED <<instrumented, cleanups, closures>> /\ CarriesClosures(held[t])
    BY <1>0, <2>1, <2>2, <2>3
  <2>4. CASE /\ ~CarriesClosures(held[t])
             /\ instrumented' = [instrumented EXCEPT ![addr[held[t]]] = t]
             /\ cleanups' = cleanups \cup {<<"hooks", t>>}
             /\ closures' = [closures EXCEPT ![held[t]] = @ \cup {t}]
    <3>1. \A h \in Hooks : Live(h) /\ h # held[t] => addr[h] # addr[held[t]]
      BY <1>0, <2>1, <2>2
    <3>2. closures[held[t]] = {}
      BY <1>0, <2>1, <2>2, <2>4
    <3>3. \A h \in Hooks : closures'[h] = IF h = held[t] THEN {t} ELSE closures[h]
      BY <1>0, <2>2, <2>4, <3>2
    <3>4. \A a \in Addresses :
            instrumented'[a] = IF a = addr[held[t]] THEN t ELSE instrumented[a]
      BY <1>0, <2>2, <2>4
    <3>5. \A h \in Hooks : Live(h) /\ closures'[h] # {} => CarriesClosures(h)'
      <4> SUFFICES ASSUME NEW h \in Hooks, Live(h), closures'[h] # {}
                   PROVE  instrumented'[addr[h]] # None /\ held[instrumented'[addr[h]]] = h
        BY <1>0, <2>1
      <4>1. CASE h = held[t]
        BY <1>0, <2>2, <3>4, <4>1
      <4>2. CASE h # held[t]
        <5>1. CarriesClosures(h) /\ addr[h] # addr[held[t]] /\ addr[h] \in Addresses
          BY <1>0, <3>1, <3>3, <4>2
        <5> QED
          BY <1>0, <3>4, <5>1
      <4> QED
        BY <1>0, <4>1, <4>2
    <3>6. \A a \in Addresses :
            instrumented'[a] # None => instrumented'[a] \in closures'[held[instrumented'[a]]]
      <4> SUFFICES ASSUME NEW a \in Addresses, instrumented'[a] # None
                   PROVE  instrumented'[a] \in closures'[held[instrumented'[a]]]
        BY <1>0
      <4>1. CASE a = addr[held[t]]
        BY <1>0, <2>2, <3>3, <3>4, <4>1
      <4>2. CASE a # addr[held[t]]
        <5>1. instrumented'[a] = instrumented[a] /\ instrumented[a] \in Tracks
          BY <1>0, <3>4, <4>2
        <5>2. instrumented[a] \in closures[held[instrumented[a]]] /\ held[instrumented[a]] \in Hooks
          BY <1>0, <5>1
        <5>3. held[instrumented[a]] # held[t]
          BY <1>0, <3>2, <5>2
        <5> QED
          BY <1>0, <3>3, <5>1, <5>2, <5>3
      <4> QED
        BY <1>0, <4>1, <4>2
    <3>7. HooksInstrumentedOnce'
      <4>1. \A h \in Hooks : \A u, v \in closures'[h] : u = v
        BY <1>0, <3>3
      <4>2. \A u \in Tracks :
              pc'[u] \in {"use", "done"} /\ held[u] # None /\ Live(held[u]) => closures'[held[u]] # {}
        <5> SUFFICES ASSUME NEW u \in Tracks, pc'[u] \in {"use", "done"}, held[u] # None, Live(held[u])
                     PROVE  closures'[held[u]] # {}
          BY <1>0
        <5>1. held[u] \in Hooks /\ (u # t => pc[u] \in {"use", "done"})
          BY <1>0, <2>1
        <5>2. u = t \/ closures[held[u]] # {}
          BY <1>0, <5>1
        <5>3. closures'[held[u]] = {t} \/ closures'[held[u]] = closures[held[u]]
          BY <1>0, <3>3, <5>1
        <5> HIDE DEF Instrumented
        <5> QED
          BY <1>0, <3>3, <5>1, <5>2, <5>3
      <4> QED
        BY <1>0, <2>1, <4>1, <4>2
    <3> QED
      BY <1>0, <2>1, <3>5, <3>6, <3>7
  <2> QED
    BY <1>0, <1>9, <2>3, <2>4, InstrumentCases
<1>10. ASSUME NEW t \in Tracks, Use(t) PROVE Instrumented'
  BY <1>0, <1>10 DEF Use
<1>11. ASSUME NEW t \in Tracks, NEW h \in Hooks, NEW a \in Addresses, GiveHooks(t, h, a) PROVE Instrumented'
  BY <1>0, <1>11 DEF GiveHooks, Allocate, Free
<1>12. ASSUME NEW t \in Tracks, CleanupServer(t) PROVE Instrumented'
  BY <1>0, <1>12 DEF CleanupServer, Drop
<1>13. ASSUME NEW t \in Tracks, CleanupCapturer(t) PROVE Instrumented'
  BY <1>0, <1>13 DEF CleanupCapturer, Drop
<1>14. ASSUME NEW t \in Tracks, CleanupHooks(t) PROVE Instrumented'
  <2>1. /\ <<"hooks", t>> \in cleanups /\ ~Live(held[t])
        /\ instrumented' = [instrumented EXCEPT ![addr[held[t]]] =
                              IF instrumented[addr[held[t]]] = t THEN None
                              ELSE instrumented[addr[held[t]]]]
        /\ UNCHANGED <<life, addr, closures, pc, held>>
    BY <1>0, <1>14 DEF CleanupHooks, Drop
  <2>2. \A a \in Addresses : instrumented'[a] = instrumented[a] \/ instrumented'[a] = None
    BY <1>0, <2>1
  <2>3. \A h \in Hooks : Live(h) /\ CarriesClosures(h) => CarriesClosures(h)'
    <3> SUFFICES ASSUME NEW h \in Hooks, Live(h), CarriesClosures(h)
                 PROVE  instrumented'[addr[h]] = instrumented[addr[h]]
      BY <1>0, <2>1
    <3>1. instrumented[addr[h]] # t
      BY <1>0, <2>1
    <3> QED
      BY <1>0, <2>1, <3>1
  <2>4. ClosuresKnown'
    <3>1. \A h \in Hooks : Live(h)' /\ closures'[h] # {} => CarriesClosures(h)'
      BY <1>0, <2>1, <2>3
    <3>2. \A a \in Addresses :
            instrumented'[a] # None => instrumented'[a] \in closures'[held'[instrumented'[a]]]
      <4> HIDE DEF HooksInstrumentedOnce, CarriesClosures
      <4> QED
        BY <1>0, <2>1, <2>2
    <3> QED
      BY <1>0, <3>1, <3>2
  <2>5. HooksInstrumentedOnce'
    BY <1>0, <2>1
  <2> QED
    BY <1>0, <2>4, <2>5
<1>15. CASE UNCHANGED vars
  BY <1>0, <1>15 DEF vars
<1> QED
  BY <1>1, <1>2, <1>3, <1>4, <1>5, <1>6, <1>7, <1>8, <1>9, <1>10, <1>11, <1>12, <1>13,
     <1>14, <1>15 DEF Next, TrackSteps, Cleanup

-----------------------------------------------------------------------------
(* A live server's capturer is of one of its own Tracks, which installs the *)
(* middleware that owns it next.                                            *)
Captured ==
  /\ \A s \in Servers, t \in Tracks :
       t \in middleware[s] <=> subject[t] = s /\ pc[t] = "done"
  /\ \A t \in Tracks :
       subject[t] \in Servers \ Official /\ Live(subject[t])
       /\ pc[t] \in {"instrument", "use", "done"} =>
         CapturerFor(subject[t]) # None

(* No step takes the capturer of a live server away (hook_state.go:47). *)
LEMMA CapturedNext ==
  ASSUME Typed, CapturerEntries, Captured, [Next]_vars
  PROVE  Captured'
<1> USE TrackingAssumption DEF Places, Live, Busy, Objects, objects, maps, installs, tracks, Goto,
     Captured, CapturerFor
<1>0. /\ life \in [Objects -> {"unborn", "live", "dead"}]
      /\ addr \in [Objects -> Addresses \cup {None}]
      /\ capturers \in [Addresses -> Tracks \cup {None}]
      /\ middleware \in [Servers -> SUBSET Tracks]
      /\ pc \in [Tracks -> Places] /\ subject \in [Tracks -> Servers \cup {None}]
      /\ held \in [Tracks -> Hooks \cup {None}]
      /\ \A t \in Tracks :
           /\ pc[t] # "idle" => subject[t] \in Servers /\ life[subject[t]] # "unborn"
           /\ pc[t] \in {"capturer", "instrument"} => held[t] \in Hooks
           /\ Busy(t) => Live(subject[t])
           /\ Busy(t) /\ held[t] # None => Live(held[t])
      /\ \A o \in Objects : life[o] # "unborn" => addr[o] \in Addresses
      /\ \A o, p \in Objects : Live(o) /\ Live(p) /\ addr[o] = addr[p] => o = p
      /\ \A a \in Addresses :
           capturers[a] # None =>
             /\ capturers[a] \in Tracks /\ pc[capturers[a]] \in {"instrument", "use", "done"}
             /\ addr[subject[capturers[a]]] = a
  <2>1. /\ life \in [Objects -> {"unborn", "live", "dead"}]
        /\ addr \in [Objects -> Addresses \cup {None}]
        /\ capturers \in [Addresses -> Tracks \cup {None}]
        /\ middleware \in [Servers -> SUBSET Tracks]
        /\ pc \in [Tracks -> Places] /\ subject \in [Tracks -> Servers \cup {None}]
        /\ held \in [Tracks -> Hooks \cup {None}]
    BY DEF Typed, TypeOK
  <2>2. /\ \A t \in Tracks :
             /\ pc[t] # "idle" => subject[t] \in Servers /\ life[subject[t]] # "unborn"
             /\ pc[t] \in {"capturer", "instrument"} => held[t] \in Hooks
             /\ Busy(t) => Live(subject[t])
             /\ Busy(t) /\ held[t] # None => Live(held[t])
        /\ \A o \in Objects : life[o] # "unborn" => addr[o] \in Addresses
        /\ \A o, p \in Objects : Live(o) /\ Live(p) /\ addr[o] = addr[p] => o = p
    BY <2>1 DEF Typed, Shape
  <2>3. \A a \in Addresses :
           capturers[a] # None =>
             /\ capturers[a] \in Tracks /\ pc[capturers[a]] \in {"instrument", "use", "done"}
             /\ addr[subject[capturers[a]]] = a
    <3> HIDE DEF Captured
    <3>1. TAKE a \in Addresses
    <3>2. HAVE capturers[a] # None
    <3> QED
      BY <2>1, <3>2 DEF CapturerEntries
  <2> QED
    BY <2>1, <2>2, <2>3
<1>1. ASSUME NEW s \in Servers, NEW a \in Addresses, NewServer(s, a) PROVE Captured'
  BY <1>0, <1>1 DEF NewServer, Allocate, Free
<1>2. ASSUME NEW h \in Hooks, NEW a \in Addresses, NewHooks(h, a) PROVE Captured'
  BY <1>0, <1>2 DEF NewHooks, Allocate, Free
<1>3. ASSUME NEW o \in Objects, Collect(o) PROVE Captured'
  BY <1>0, <1>3 DEF Collect
<1>4. ASSUME NEW s \in Servers, Unregister(s) PROVE Captured'
  BY <1>0, <1>4 DEF Unregister
<1>5. ASSUME NEW t \in Tracks, NEW s \in Servers, TrackCall(t, s) PROVE Captured'
  <2>1. PICK place \in {"found", "register"} : pc' = [pc EXCEPT ![t] = place]
    BY <1>0, <1>5, TrackCallCases
  <2>2. /\ pc[t] = "idle" /\ subject' = [subject EXCEPT ![t] = s]
        /\ UNCHANGED <<life, addr, serverMap, capturers, instrumented, cleanups,
                       middleware, closures, held, unregistered>>
    BY <1>0, <1>5, TrackCallCases
  <2> QED
    BY <1>0, <2>1, <2>2
<1>6. ASSUME NEW t \in Tracks, Register(t) PROVE Captured'
  BY <1>0, <1>6 DEF Register
<1>7. ASSUME NEW t \in Tracks, ReadHooks(t) PROVE Captured'
  BY <1>0, <1>7 DEF ReadHooks
<1>8. ASSUME NEW t \in Tracks, RegisterCapturer(t) PROVE Captured'
  <2>1. /\ pc[t] = "capturer" /\ pc' = [pc EXCEPT ![t] = "instrument"]
        /\ capturers' = [capturers EXCEPT ![addr[subject[t]]] = t]
        /\ UNCHANGED <<life, addr, subject, middleware>>
    BY <1>0, <1>8 DEF RegisterCapturer
  <2>2. subject[t] \in Servers /\ Live(subject[t]) /\ addr[subject[t]] \in Addresses
    BY <1>0, <2>1
  <2>3. ASSUME NEW u \in Tracks, subject[u] \in Servers \ Official, Live(subject[u]),
               pc'[u] \in {"instrument", "use", "done"}
        PROVE  CapturerFor(subject[u])' # None
    <3>1. CASE subject[u] = subject[t]
      BY <1>0, <2>1, <2>2, <3>1
    <3>2. CASE subject[u] # subject[t]
      <4>1. addr[subject[u]] # addr[subject[t]] /\ pc'[u] = pc[u]
        BY <1>0, <2>1, <2>2, <2>3, <3>2
      <4> QED
        BY <1>0, <2>1, <2>2, <2>3, <4>1
    <3> QED
      BY <3>1, <3>2
  <2> QED
    BY <1>0, <2>1, <2>3
<1>9. ASSUME NEW t \in Tracks, InstrumentHooksOnce(t) PROVE Captured'
  <2>1. /\ pc[t] = "instrument" /\ pc' = [pc EXCEPT ![t] = "use"]
        /\ UNCHANGED <<life, addr, serverMap, capturers, middleware, subject, held, before,
                       unregistered>>
    BY <1>0, <1>9, InstrumentCases
  <2>2. /\ held[t] \in Hooks /\ addr[held[t]] \in Addresses
    BY <1>0, <2>1
  <2>3. CASE UNCHANGED <<instrumented, cleanups, closures>> /\ CarriesClosures(held[t])
    BY <1>0, <2>1, <2>2, <2>3
  <2>4. CASE /\ ~CarriesClosures(held[t])
             /\ instrumented' = [instrumented EXCEPT ![addr[held[t]]] = t]
             /\ cleanups' = cleanups \cup {<<"hooks", t>>}
             /\ closures' = [closures EXCEPT ![held[t]] = @ \cup {t}]
    BY <1>0, <2>1, <2>2, <2>4
  <2> QED
    BY <1>0, <1>9, <2>3, <2>4, InstrumentCases
<1>10. ASSUME NEW t \in Tracks, Use(t) PROVE Captured'
  BY <1>0, <1>10 DEF Use
<1>11. ASSUME NEW t \in Tracks, NEW h \in Hooks, NEW a \in Addresses, GiveHooks(t, h, a) PROVE Captured'
  BY <1>0, <1>11 DEF GiveHooks, Allocate, Free
<1>12. ASSUME NEW t \in Tracks, CleanupServer(t) PROVE Captured'
  BY <1>0, <1>12 DEF CleanupServer, Drop
<1>13. ASSUME NEW t \in Tracks, CleanupCapturer(t) PROVE Captured'
  BY <1>0, <1>13 DEF CleanupCapturer, Drop
<1>14. ASSUME NEW t \in Tracks, CleanupHooks(t) PROVE Captured'
  BY <1>0, <1>14 DEF CleanupHooks, Drop
<1>15. CASE UNCHANGED vars
  BY <1>0, <1>15 DEF vars
<1> QED
  BY <1>1, <1>2, <1>3, <1>4, <1>5, <1>6, <1>7, <1>8, <1>9, <1>10, <1>11, <1>12, <1>13,
     <1>14, <1>15 DEF Next, TrackSteps, Cleanup

-----------------------------------------------------------------------------
(* A Track that went on to register found no other Track registered. *)
LookedFirst ==
  \A t \in Tracks :
    subject[t] \notin unregistered /\ pc[t] \notin {"idle", "found"} => before[t] = {}

(* A Track that finds no entry has none before it (mcpgo.go:215). *)
LEMMA LookedNext ==
  ASSUME Typed, RegisteredIsFound, LookedFirst, [Next]_vars
  PROVE  LookedFirst'
<1> USE TrackingAssumption DEF Typed, TypeOK, Shape, Places, Live, Busy, Objects, objects, maps, installs, tracks,
     Goto, RegisteredIsFound, LookedFirst
<1>1. ASSUME NEW s \in Servers, NEW a \in Addresses, NewServer(s, a) PROVE LookedFirst'
  BY <1>1 DEF NewServer, Allocate, Free
<1>2. ASSUME NEW h \in Hooks, NEW a \in Addresses, NewHooks(h, a) PROVE LookedFirst'
  BY <1>2 DEF NewHooks, Allocate, Free
<1>3. ASSUME NEW o \in Objects, Collect(o) PROVE LookedFirst'
  BY <1>3 DEF Collect
<1>4. ASSUME NEW s \in Servers, Unregister(s) PROVE LookedFirst'
  BY <1>4 DEF Unregister
<1>5. ASSUME NEW t \in Tracks, NEW s \in Servers, TrackCall(t, s) PROVE LookedFirst'
  <2>1. /\ subject' = [subject EXCEPT ![t] = s] /\ before' = [before EXCEPT ![t] = Registered(s)]
        /\ UNCHANGED unregistered
    BY <1>5, TrackCallCases
  <2>2. CASE pc' = [pc EXCEPT ![t] = "found"]
    BY <2>1, <2>2
  <2>3. CASE serverMap[addr[s]] = None /\ pc' = [pc EXCEPT ![t] = "register"]
    <3>1. s \in unregistered \/ Registered(s) = {}
      <4>1. Live(s)
        BY <1>5, TrackCallCases
      <4>2. None \notin Registered(s)
        BY DEF Registered
      <4> HIDE DEF Typed, LookedFirst
      <4> QED
        BY <2>3, <4>1, <4>2
    <3>2. \A u \in Tracks \ {t} : subject'[u] = subject[u] /\ pc'[u] = pc[u] /\ before'[u] = before[u]
      BY <2>1, <2>3
    <3>3. subject'[t] = s /\ before'[t] = Registered(s)
      BY <2>1
    <3> QED
      BY <2>1, <3>1, <3>2, <3>3
  <2> QED
    BY <1>5, <2>2, <2>3, TrackCallCases
<1>6. ASSUME NEW t \in Tracks, Register(t) PROVE LookedFirst'
  BY <1>6 DEF Register
<1>7. ASSUME NEW t \in Tracks, ReadHooks(t) PROVE LookedFirst'
  BY <1>7 DEF ReadHooks
<1>8. ASSUME NEW t \in Tracks, RegisterCapturer(t) PROVE LookedFirst'
  BY <1>8 DEF RegisterCapturer
<1>9. ASSUME NEW t \in Tracks, InstrumentHooksOnce(t) PROVE LookedFirst'
  <2>1. /\ pc[t] = "instrument" /\ pc' = [pc EXCEPT ![t] = "use"]
        /\ UNCHANGED <<life, addr, serverMap, capturers, middleware, subject, held, before,
                       unregistered>>
    BY <1>9, InstrumentCases
  <2>2. /\ held[t] \in Hooks /\ addr[held[t]] \in Addresses
    BY <2>1
  <2>3. CASE UNCHANGED <<instrumented, cleanups, closures>> /\ CarriesClosures(held[t])
    BY <2>1, <2>2, <2>3
  <2>4. CASE /\ ~CarriesClosures(held[t])
             /\ instrumented' = [instrumented EXCEPT ![addr[held[t]]] = t]
             /\ cleanups' = cleanups \cup {<<"hooks", t>>}
             /\ closures' = [closures EXCEPT ![held[t]] = @ \cup {t}]
    BY <2>1, <2>2, <2>4
  <2> QED
    BY <1>9, <2>3, <2>4, InstrumentCases
<1>10. ASSUME NEW t \in Tracks, Use(t) PROVE LookedFirst'
  BY <1>10 DEF Use
<1>11. ASSUME NEW t \in Tracks, NEW h \in Hooks, NEW a \in Addresses, GiveHooks(t, h, a) PROVE LookedFirst'
  BY <1>11 DEF GiveHooks, Allocate, Free
<1>12. ASSUME NEW t \in Tracks, CleanupServer(t) PROVE LookedFirst'
  BY <1>12 DEF CleanupServer, Drop
<1>13. ASSUME NEW t \in Tracks, CleanupCapturer(t) PROVE LookedFirst'
  BY <1>13 DEF CleanupCapturer, Drop
<1>14. ASSUME NEW t \in Tracks, CleanupHooks(t) PROVE LookedFirst'
  BY <1>14 DEF CleanupHooks, Drop
<1>15. CASE UNCHANGED vars
  BY <1>15 DEF vars
<1> QED
  BY <1>1, <1>2, <1>3, <1>4, <1>5, <1>6, <1>7, <1>8, <1>9, <1>10, <1>11, <1>12, <1>13,
     <1>14, <1>15 DEF Next, TrackSteps, Cleanup

-----------------------------------------------------------------------------
(* The invariant, each part inductive by those before it. *)
TrackingInv ==
  Typed /\ Entries /\ RegisteredIsFound /\ Instrumented /\ Captured /\ LookedFirst

(* Nothing is tracked at first (registry.go:17). *)
LEMMA InvInit == Init => TrackingInv
<1> SUFFICES ASSUME Init PROVE TrackingInv
  OBVIOUS
<1>1. Typed
  BY TypedInit
<1> USE TrackingAssumption DEF Init
<1>2. Entries
  BY DEF Entries, ServerEntries, CapturerEntries, HooksEntries, CleanupsToCome
<1>3. RegisteredIsFound
  BY DEF RegisteredIsFound, Registered
<1>4. Instrumented
  BY DEF Instrumented, ClosuresKnown, HooksInstrumentedOnce
<1>5. Captured /\ LookedFirst
  BY DEF Captured, LookedFirst
<1> QED
  BY <1>1, <1>2, <1>3, <1>4, <1>5 DEF TrackingInv

(* The maps are true in every state the process can reach. *)
LEMMA TrackingInvariant == Spec => []TrackingInv
<1>1. TrackingInv /\ [Next]_vars => TrackingInv'
  <2> SUFFICES ASSUME TrackingInv, [Next]_vars PROVE TrackingInv'
    OBVIOUS
  <2>1. Typed /\ Entries /\ RegisteredIsFound /\ Instrumented /\ Captured /\ LookedFirst
    BY DEF TrackingInv
  <2>2. Typed'
    BY <2>1, TypedNext
  <2>3. Entries' /\ RegisteredIsFound' /\ Instrumented' /\ Captured' /\ LookedFirst'
    BY <2>1, ServerEntriesNext, CapturerEntriesNext, HooksEntriesNext, CleanupsNext, FoundNext,
       InstrumentedNext, CapturedNext, LookedNext DEF Entries
  <2> QED
    BY <2>2, <2>3 DEF TrackingInv
<1> QED
  BY InvInit, <1>1, PTL DEF Spec

(* Nothing is left behind in a map: the cleanup of each entry is still to    *)
(* come, at the address where the entry is (registry.go:2, hook_state.go:20). *)
THEOREM EntriesAlwaysGo == Spec => []EntriesGoWithObjects
<1>1. ASSUME TrackingInv PROVE EntriesGoWithObjects
  <2> SUFFICES ASSUME NEW a \in Addresses, NEW t \in Tracks
               PROVE
                 /\ serverMap[a] = t => <<"server", t>> \in cleanups /\ addr[subject[t]] = a
                 /\ capturers[a] = t => <<"capturer", t>> \in cleanups /\ addr[subject[t]] = a
                 /\ instrumented[a] = t => <<"hooks", t>> \in cleanups /\ addr[held[t]] = a
    BY DEF EntriesGoWithObjects
  <2>1. t # None
    BY TrackingAssumption
  <2>2. ServerEntries /\ CapturerEntries /\ HooksEntries /\ CleanupsToCome
    BY <1>1 DEF TrackingInv, Entries
  <2>3. ASSUME serverMap[a] = t PROVE <<"server", t>> \in cleanups /\ addr[subject[t]] = a
    BY <2>1, <2>2, <2>3 DEF ServerEntries, CleanupsToCome,
       ServerCleanups
  <2>4. ASSUME capturers[a] = t PROVE <<"capturer", t>> \in cleanups /\ addr[subject[t]] = a
    BY <2>1, <2>2, <2>4 DEF CapturerEntries, CleanupsToCome,
       CapturerCleanups
  <2>5. ASSUME instrumented[a] = t PROVE <<"hooks", t>> \in cleanups /\ addr[held[t]] = a
    BY <2>1, <2>2, <2>5 DEF HooksEntries, CleanupsToCome,
       HooksCleanups
  <2> QED
    BY <2>3, <2>4, <2>5
<1> QED
  BY TrackingInvariant, <1>1, PTL

(* A live server that was registered is found by an entry of its own, *)
(* whatever was at its address before (registry.go:36).               *)
THEOREM RegisteredAlwaysFound == Spec => []RegisteredIsFound
<1>1. TrackingInv => RegisteredIsFound
  BY DEF TrackingInv
<1> QED
  BY TrackingInvariant, <1>1, PTL

(* However many servers share a Hooks value and however many Tracks run, it *)
(* carries the closures once, and does when a Track is through              *)
(* (hook_state.go:104).                                                     *)
THEOREM AlwaysInstrumentedOnce == Spec => []HooksInstrumentedOnce
<1>1. TrackingInv => HooksInstrumentedOnce
  BY DEF TrackingInv, Instrumented
<1> QED
  BY TrackingInvariant, <1>1, PTL

(* The closures find a capturer of the server's own, owned by a middleware *)
(* that is installed or about to be (hook_state.go:70).                    *)
THEOREM CapturerAlwaysOwn == Spec => []CapturerIsOwn
<1>1. ASSUME TrackingInv PROVE CapturerIsOwn
  <2> SUFFICES ASSUME NEW s \in Servers \ Official, Live(s), middleware[s] # {}
               PROVE  LET c == CapturerFor(s) IN c # None /\ (c \in middleware[s] \/ Busy(c))
    BY DEF CapturerIsOwn
  <2>1. middleware[s] \subseteq Tracks
    BY <1>1 DEF TrackingInv, Typed, TypeOK
  <2>2. PICK t \in Tracks : subject[t] = s /\ pc[t] = "done"
    BY <1>1, <2>1 DEF TrackingInv, Captured
  <2>3. CapturerFor(s) # None
    BY <1>1, <2>2 DEF TrackingInv, Captured
  <2>4. addr[s] \in Addresses
    BY <1>1 DEF TrackingInv, Typed, Shape, Live, Objects
  <2>5. PICK c \in Tracks : capturers[addr[s]] = c /\ subject[c] = s /\ CapturerFor(s) = c
    BY <1>1, <2>3, <2>4 DEF CapturerFor, TrackingInv, Typed, TypeOK
  <2>6. pc[c] \in {"instrument", "use", "done"}
    <3>1. CapturerEntries /\ c # None
      BY <1>1, <2>3, <2>5 DEF TrackingInv, Entries
    <3> QED
      BY <2>4, <2>5, <3>1 DEF CapturerEntries, CleanupsToCome,
       CapturerCleanups
  <2>7. pc[c] = "done" => c \in middleware[s]
    BY <1>1, <2>5 DEF TrackingInv, Captured
  <2> QED
    BY <2>3, <2>5, <2>6, <2>7 DEF Busy
<1> QED
  BY TrackingInvariant, <1>1, PTL

(* A Track that was called after another had registered the server does not   *)
(* install beside it, unless the server was unregistered: two that look       *)
(* before either registers are the one way to two middlewares (mcpgo.go:212). *)
THEOREM TwiceOnlyByRace ==
  Spec => [](\A s \in Servers \ unregistered : \A t, u \in middleware[s] : t \notin before[u])
<1>1. ASSUME TrackingInv
      PROVE  \A s \in Servers \ unregistered : \A t, u \in middleware[s] : t \notin before[u]
  <2> SUFFICES ASSUME NEW s \in Servers \ unregistered, NEW t \in middleware[s],
                      NEW u \in middleware[s]
               PROVE  t \notin before[u]
    OBVIOUS
  <2>1. u \in Tracks
    BY <1>1 DEF TrackingInv, Typed, TypeOK
  <2>2. subject[u] = s /\ pc[u] = "done"
    BY <1>1, <2>1 DEF TrackingInv, Captured
  <2> QED
    BY <1>1, <2>1, <2>2 DEF TrackingInv, LookedFirst
<1> QED
  BY TrackingInvariant, <1>1, PTL
=============================================================================
