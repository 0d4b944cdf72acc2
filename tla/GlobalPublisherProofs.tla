------------------------- MODULE GlobalPublisherProofs -------------------------
(***************************************************************************)
(* Proofs about the shared publisher's life cycle, for any number of       *)
(* servers, Tracks, shutdowns, events and publishers.                      *)
(***************************************************************************)
EXTENDS GlobalPublisherProps, TLAPS

(* Where a shutdown stands says what it has done to the publisher it took. *)
ShutdownStates ==
  /\ \A c \in Closers :
       /\ closePc[c] \in {"idle", "blocked", "take"} => taken[c] = None
       /\ closePc[c] = "close" =>
            taken[c] \in Publishers /\ intake[taken[c]] = "open"
       /\ closePc[c] = "drain" => taken[c] \in Publishers
       /\ taken[c] # None /\ closePc[c] # "close" => intake[taken[c]] = "closed"
  /\ \A c, d \in Closers : taken[c] = taken[d] /\ taken[c] # None => c = d

(* A publisher that is open is the global one or about to be closed. *)
PublisherStates ==
  /\ globalPub # None => intake[globalPub] = "open"
  /\ \A c \in Closers : taken[c] # None => globalPub # taken[c]
  /\ \A p \in Publishers : intake[p] = "open" =>
       globalPub = p \/ \E c \in Closers : taken[c] = p /\ closePc[c] = "close"

(* Only publishers that exist are captured and chosen. *)
CaptureStates ==
  /\ \A t \in Tracks :
       /\ trackPc[t] = "installed" => closure[t] \in Publishers
       /\ trackPc[t] # "idle" => trackOf[t] \in Servers
  /\ \A e \in Events : fate[e] # "new" => via[e] \in Publishers

IInv == TypeOK /\ ShutdownStates /\ PublisherStates /\ CaptureStates
          /\ TakerDrains

(* No publisher was built yet. *)
LEMMA InitIInv == Init => IInv
  BY GlobalAssumption
  DEF Init, IInv, TypeOK, ShutdownStates, PublisherStates, CaptureStates,
      TakerDrains, Fates

(* The steps of the shutdowns leave alone where events are, and the others *)
(* leave alone where the shutdowns are.                                    *)
LEMMA GetOrInitStep ==
  ASSUME IInv, NEW s \in Servers \cup {None}, NEW p \in Publishers,
         GetOrInit(s, p), UNCHANGED closeVars
  PROVE  /\ ShutdownStates' /\ PublisherStates'
         /\ globalPub' \in Publishers \cup {None}
         /\ hooks' \in [Publishers -> SUBSET Redacting]
         /\ exporters' \in [Publishers -> SUBSET Exporting]
         /\ intake' \in [Publishers -> {"unborn", "open", "closed"}]
<1> USE GlobalAssumption DEF closeVars
<1>1. CASE New(s, p)
  <2>1. /\ globalPub' \in Publishers \cup {None}
        /\ hooks' \in [Publishers -> SUBSET Redacting]
        /\ exporters' \in [Publishers -> SUBSET Exporting]
        /\ intake' \in [Publishers -> {"unborn", "open", "closed"}]
    BY <1>1 DEF New, IInv, TypeOK
  <2>2. ShutdownStates'
    BY <1>1 DEF New, IInv, TypeOK, ShutdownStates
  <2>3. PublisherStates'
    BY <1>1 DEF New, IInv, TypeOK, ShutdownStates, PublisherStates
  <2>4. QED
    BY <2>1, <2>2, <2>3
<1>2. CASE Reuse(s, p)
  BY <1>2 DEF Reuse, IInv, TypeOK, ShutdownStates, PublisherStates
<1>3. QED
  BY <1>1, <1>2 DEF GetOrInit

(* A Track looks, registers, and builds a publisher or finds one. *)
LEMMA TrackStepStep ==
  ASSUME IInv, NEW t \in Tracks, TrackStep(t)
  PROVE  IInv'
<1>1. ASSUME NEW s \in Servers, TrackCall(t, s) PROVE IInv'
  BY <1>1 DEF TrackCall, pubVars, eventVars, closeVars, IInv, TypeOK,
     ShutdownStates, PublisherStates, CaptureStates, TakerDrains
<1>2. CASE TrackRegister(t)
  BY <1>2 DEF TrackRegister, pubVars, eventVars, closeVars, IInv, TypeOK,
     ShutdownStates, PublisherStates, CaptureStates, TakerDrains
<1>3. ASSUME NEW p \in Publishers, InitPublisher(t, p) PROVE IInv'
  <2> USE <1>3 DEF InitPublisher, eventVars
  <2>1. trackOf[t] \in Servers
    BY DEF IInv, TypeOK, CaptureStates
  <2>2. ShutdownStates' /\ PublisherStates'
    BY <2>1, GetOrInitStep
  <2>3. TypeOK'
    <3>1. /\ globalPub' \in Publishers \cup {None}
          /\ hooks' \in [Publishers -> SUBSET Redacting]
          /\ exporters' \in [Publishers -> SUBSET Exporting]
          /\ intake' \in [Publishers -> {"unborn", "open", "closed"}]
      BY <2>1, GetOrInitStep
    <3>2. QED
      BY <3>1 DEF IInv, TypeOK, closeVars
  <2>4. CaptureStates' /\ TakerDrains'
    BY DEF IInv, TypeOK, CaptureStates, TakerDrains, closeVars
  <2>5. QED
    BY <2>2, <2>3, <2>4 DEF IInv
<1>4. QED
  BY <1>1, <1>2, <1>3 DEF TrackStep

(* An event gets into a publisher only while that one is open. *)
LEMMA PublishOnlyOpen ==
  ASSUME IInv, NEW e \in Events, NEW p \in Publishers, Publish(e, p)
  PROVE  \E f \in {"taken", "refused"} :
           /\ fate' = [fate EXCEPT ![e] = f]
           /\ f = "taken" => intake[p] = "open"
                  /\ \A c \in Closers : closePc[c] = "ok" => taken[c] # p
<1>1. intake[p] = "open" =>
        \A c \in Closers : closePc[c] = "ok" => taken[c] # p
  BY GlobalAssumption DEF IInv, ShutdownStates
<1>2. QED
  BY <1>1 DEF Publish

(* Tool calls and custom events hand a publisher their event. *)
LEMMA EventStepStep ==
  ASSUME IInv, NEW e \in Events, EventStep(e)
  PROVE  IInv'
<1> USE GlobalAssumption
<1>1. ASSUME NEW t \in Tracks, ToolCall(t, e) PROVE IInv'
  <2> USE <1>1 DEF ToolCall
  <2>1. closure[t] \in Publishers /\ trackOf[t] \in Servers
    BY DEF IInv, CaptureStates
  <2>2. PICK f \in {"taken", "refused"} :
          /\ fate' = [fate EXCEPT ![e] = f]
          /\ f = "taken" =>
               \A c \in Closers : closePc[c] = "ok" => taken[c] # closure[t]
    BY <2>1, PublishOnlyOpen
  <2>3. TypeOK'
    BY <2>1, <2>2 DEF IInv, TypeOK, Fates, pubVars, trackVars, closeVars
  <2>4. ShutdownStates' /\ PublisherStates'
    BY DEF IInv, ShutdownStates, PublisherStates, pubVars, closeVars
  <2>5. CaptureStates'
    BY <2>1, <2>2 DEF IInv, TypeOK, CaptureStates, trackVars
  <2>6. TakerDrains'
    BY <2>1, <2>2 DEF IInv, TypeOK, TakerDrains, closeVars
  <2>7. QED
    BY <2>3, <2>4, <2>5, <2>6 DEF IInv
<1>2. ASSUME NEW s \in Servers \cup {None}, NEW p \in Publishers,
             CustomEvent(e, s, p)
      PROVE  IInv'
  <2> USE <1>2 DEF CustomEvent
  <2>1. ShutdownStates' /\ PublisherStates'
    BY GetOrInitStep
  <2>2. TypeOK'
    <3>1. /\ globalPub' \in Publishers \cup {None}
          /\ hooks' \in [Publishers -> SUBSET Redacting]
          /\ exporters' \in [Publishers -> SUBSET Exporting]
          /\ intake' \in [Publishers -> {"unborn", "open", "closed"}]
      BY GetOrInitStep
    <3>2. QED
      BY <3>1 DEF IInv, TypeOK, Fates, trackVars, closeVars
  <2>3. CaptureStates' /\ TakerDrains'
    BY DEF IInv, TypeOK, CaptureStates, TakerDrains, trackVars, closeVars
  <2>4. QED
    BY <2>1, <2>2, <2>3 DEF IInv
<1>3. CASE CustomPublish(e)
  <2> USE <1>3 DEF CustomPublish
  <2>1. via[e] \in Publishers
    BY DEF IInv, CaptureStates
  <2>2. PICK f \in {"taken", "refused"} :
          /\ fate' = [fate EXCEPT ![e] = f]
          /\ f = "taken" =>
               \A c \in Closers : closePc[c] = "ok" => taken[c] # via[e]
    BY <2>1, PublishOnlyOpen
  <2>3. TypeOK'
    BY <2>2 DEF IInv, TypeOK, Fates, pubVars, trackVars, closeVars
  <2>4. ShutdownStates' /\ PublisherStates'
    BY DEF IInv, ShutdownStates, PublisherStates, pubVars, closeVars
  <2>5. CaptureStates' /\ TakerDrains'
    BY <2>1, <2>2 DEF IInv, TypeOK, CaptureStates, TakerDrains, trackVars,
       closeVars
  <2>6. QED
    BY <2>3, <2>4, <2>5 DEF IInv
<1>4. ASSUME NEW f \in {"delivered", "lost"}, Settle(e, f) PROVE IInv'
  BY <1>4 DEF Settle, IInv, TypeOK, Fates, ShutdownStates, PublisherStates,
     CaptureStates, TakerDrains, pubVars, trackVars, closeVars
<1>5. CASE ExportAsync(e)
  <2>1. exporters[via[e]] \subseteq Exporting
    BY <1>5 DEF ExportAsync, IInv, TypeOK, CaptureStates
  <2> QED
    BY <1>5, <2>1 DEF ExportAsync, IInv, TypeOK, ShutdownStates, PublisherStates,
       CaptureStates, TakerDrains, pubVars, trackVars, closeVars
<1>6. QED
  BY <1>1, <1>2, <1>3, <1>4, <1>5 DEF EventStep

(* The steps of a shutdown take the publisher, drain it and return. *)
LEMMA CloserStepStep ==
  ASSUME IInv, NEW c \in Closers, CloserStep(c)
  PROVE  IInv'
<1> USE GlobalAssumption DEF pubVars, trackVars, eventVars
<1>1. CASE ShutdownCall(c)
  BY <1>1 DEF ShutdownCall, IInv, TypeOK, ShutdownStates, PublisherStates,
     CaptureStates, TakerDrains
<1>2. ASSUME NEW t \in Tracks, ShutdownFnCall(c, t) PROVE IInv'
  BY <1>2 DEF ShutdownFnCall, IInv, TypeOK, ShutdownStates, PublisherStates,
     CaptureStates, TakerDrains
<1>3. CASE ShutdownFnUnblocked(c) \/ TakeNothing(c)
  BY <1>3 DEF ShutdownFnUnblocked, TakeNothing, Return, IInv, TypeOK,
     ShutdownStates, PublisherStates, CaptureStates, TakerDrains
<1>4. CASE TakeGlobal(c)
  <2> USE <1>4 DEF TakeGlobal
  <2>1. TypeOK' /\ CaptureStates' /\ TakerDrains'
    <3>1. TypeOK'
      BY DEF IInv, TypeOK
    <3>2. CaptureStates'
      BY DEF IInv, CaptureStates
    <3>3. TakerDrains'
      BY DEF IInv, TypeOK, TakerDrains
    <3>4. QED
      BY <3>1, <3>2, <3>3
  <2>2. globalPub \in Publishers /\ intake[globalPub] = "open"
    BY DEF IInv, TypeOK, PublisherStates
  <2>3. ShutdownStates'
    BY <2>2 DEF IInv, TypeOK, ShutdownStates, PublisherStates
  <2>4. PublisherStates'
    BY <2>2 DEF IInv, TypeOK, ShutdownStates, PublisherStates
  <2>5. QED
    BY <2>1, <2>3, <2>4 DEF IInv
<1>5. CASE CloseIntake(c)
  <2> USE <1>5 DEF CloseIntake
  <2>1. TypeOK' /\ CaptureStates' /\ TakerDrains'
    <3>1. TypeOK'
      BY DEF IInv, TypeOK
    <3>2. CaptureStates'
      BY DEF IInv, CaptureStates
    <3>3. TakerDrains'
      BY DEF IInv, TypeOK, TakerDrains
    <3>4. QED
      BY <3>1, <3>2, <3>3
  <2>2. taken[c] \in Publishers /\ \A d \in Closers \ {c} : taken[d] # taken[c]
    BY DEF IInv, ShutdownStates
  <2>3. ShutdownStates'
    BY <2>2 DEF IInv, TypeOK, ShutdownStates
  <2>4. PublisherStates'
    BY <2>2 DEF IInv, TypeOK, PublisherStates
  <2>5. QED
    BY <2>1, <2>3, <2>4 DEF IInv
<1>6. ASSUME NEW r \in {"drained", "deadline"}, Drain(c, r) PROVE IInv'
  <2> USE <1>6 DEF Drain, Return
  <2>1. taken[c] \in Publishers
    BY DEF IInv, ShutdownStates
  <2>2. TypeOK' /\ CaptureStates'
    BY DEF IInv, TypeOK, CaptureStates
  <2>3. ShutdownStates' /\ PublisherStates'
    BY DEF IInv, TypeOK, ShutdownStates, PublisherStates
  <2>4. TakerDrains'
    BY DEF IInv, TypeOK, TakerDrains
  <2>5. QED
    BY <2>2, <2>3, <2>4 DEF IInv
<1>7. QED
  BY <1>1, <1>2, <1>3, <1>4, <1>5, <1>6 DEF CloserStep

(* The invariant is about the variables alone. *)
LEMMA Stutters == IInv /\ UNCHANGED vars => IInv'
  BY DEF IInv, TypeOK, ShutdownStates, PublisherStates, CaptureStates,
         TakerDrains, vars, pubVars, trackVars, eventVars, closeVars

(* The inductive invariant: what each shutdown holds, that an open         *)
(* publisher has a holder, and that only publishers that exist are used.   *)
THEOREM Inductive == Spec => []IInv
<1>1. IInv /\ [Next]_vars => IInv'
  BY TrackStepStep, CloserStepStep, EventStepStep, Stutters
     DEF Next, Terminated
<1>2. QED
  BY <1>1, InitIInv, PTL DEF Spec

(* Type correctness of the life cycle. *)
THEOREM TypeCorrect == Spec => []TypeOK
  BY Inductive, PTL DEF IInv

(* GetOrInit and ShutdownGlobal never leave a running publisher that       *)
(* nobody will close.                                                      *)
THEOREM NoPublisherOrphaned == Spec => []NoOrphanedPublisher
<1>1. IInv => NoOrphanedPublisher
  BY GlobalAssumption
     DEF IInv, TypeOK, ShutdownStates, PublisherStates, NoOrphanedPublisher
<1>2. QED
  BY <1>1, Inductive, PTL

(* The shutdown that took the publisher and returned nil has drained it. *)
THEOREM TakerHasDrained == Spec => []TakerDrains
  BY Inductive, PTL DEF IInv

(* No event gets into a publisher that no shutdown will drain. *)
THEOREM IntakeIsLive == Spec => TakenByLivePublisher
<1>1. ASSUME IInv, [Next]_vars, NEW e \in Events,
             fate[e] # "taken", fate'[e] = "taken"
      PROVE  /\ via'[e] \in Publishers /\ intake[via'[e]] = "open"
  <2>1. ASSUME NEW t \in Tracks, NEW d \in Events, ToolCall(t, d)
        PROVE  via'[e] \in Publishers /\ intake[via'[e]] = "open"
    <3>1. closure[t] \in Publishers
      BY <1>1, <2>1 DEF ToolCall, IInv, CaptureStates
    <3>2. QED
      BY <1>1, <2>1, <3>1, PublishOnlyOpen DEF ToolCall, IInv, TypeOK
  <2>2. ASSUME NEW d \in Events, CustomPublish(d)
        PROVE  via'[e] \in Publishers /\ intake[via'[e]] = "open"
    <3>1. via[d] \in Publishers
      BY <1>1, <2>2 DEF CustomPublish, IInv, CaptureStates
    <3>2. QED
      BY <1>1, <2>2, <3>1, PublishOnlyOpen DEF CustomPublish, IInv, TypeOK
  <2>3. ASSUME NEW d \in Events, NEW s \in Servers \cup {None},
               NEW p \in Publishers, CustomEvent(d, s, p)
        PROVE  FALSE
    BY <1>1, <2>3 DEF CustomEvent, IInv, TypeOK
  <2>4. ASSUME NEW d \in Events, NEW f \in {"delivered", "lost"}, Settle(d, f)
        PROVE  FALSE
    BY <1>1, <2>4 DEF Settle, IInv, TypeOK
  <2>5. UNCHANGED fate => FALSE
    BY <1>1
  <2>6. ASSUME NEW t \in Tracks, TrackStep(t) PROVE UNCHANGED fate
    BY <2>6 DEF TrackStep, TrackCall, TrackRegister, InitPublisher, eventVars
  <2>7. ASSUME NEW c \in Closers, CloserStep(c) PROVE UNCHANGED fate
    BY <2>7 DEF CloserStep, ShutdownCall, ShutdownFnCall, ShutdownFnUnblocked,
       TakeGlobal, TakeNothing, CloseIntake, Drain, Return, eventVars
  <2>8. ASSUME NEW d \in Events, ExportAsync(d) PROVE UNCHANGED fate
    BY <2>8 DEF ExportAsync
  <2>9. QED
    BY <1>1, <2>1, <2>2, <2>3, <2>4, <2>5, <2>6, <2>7, <2>8
       DEF Next, EventStep, Terminated, vars, eventVars
<1>2. IInv /\ [Next]_vars =>
        [\A e \in Events : fate[e] # "taken" /\ fate'[e] = "taken" =>
           \/ globalPub = via'[e]
           \/ \E c \in Closers : taken[c] = via'[e] /\ closePc[c] = "close"]_vars
  BY <1>1 DEF IInv, PublisherStates
<1>3. QED
  BY <1>2, Inductive, PTL DEF Spec, TakenByLivePublisher

-----------------------------------------------------------------------------
(* A publisher whose intake is not closed has no report, and one that is      *)
(* being drained none yet.                                                    *)
ReportStates ==
  /\ \A p \in Publishers : intake[p] # "closed" => report[p] = "none"
  /\ \A c \in Closers : closePc[c] = "drain" => report[taken[c]] = "none"

(* GetOrInit opens an intake, ... *)
LEMMA GetOrInitReports ==
  ASSUME IInv, ReportStates, NEW s \in Servers \cup {None}, NEW p \in Publishers,
         GetOrInit(s, p), UNCHANGED closeVars
  PROVE  ReportStates'
<1>1. CASE New(s, p)
  BY <1>1 DEF New, IInv, TypeOK, ReportStates, closeVars
<1>2. CASE Reuse(s, p)
  BY <1>2, GlobalAssumption DEF Reuse, IInv, TypeOK, PublisherStates, ReportStates, closeVars
<1> QED
  BY <1>1, <1>2 DEF GetOrInit

(* ... and only the shutdown that took a publisher closes it and reports. *)
LEMMA ReportStatesNext == IInv /\ ReportStates /\ [Next]_vars => ReportStates'
<1> SUFFICES ASSUME IInv, ReportStates, [Next]_vars PROVE ReportStates'
  OBVIOUS
<1>1. ASSUME UNCHANGED <<intake, report, taken>>,
             \A c \in Closers : closePc'[c] = "drain" => closePc[c] = "drain"
      PROVE  ReportStates'
  BY <1>1 DEF ReportStates
<1>2. ASSUME NEW t \in Tracks, TrackStep(t) PROVE ReportStates'
  <2>1. ASSUME NEW p \in Publishers, InitPublisher(t, p) PROVE ReportStates'
    <3>1. trackOf[t] \in Servers
      BY <2>1 DEF InitPublisher, IInv, CaptureStates
    <3> QED
      BY <2>1, <3>1, GetOrInitReports DEF InitPublisher
  <2> QED
    BY <1>1, <1>2, <2>1 DEF TrackStep, TrackCall, TrackRegister, pubVars, closeVars
<1>3. ASSUME NEW e \in Events, EventStep(e) PROVE ReportStates'
  <2>1. ASSUME NEW s \in Servers \cup {None}, NEW p \in Publishers, CustomEvent(e, s, p)
        PROVE  ReportStates'
    BY <2>1, GetOrInitReports DEF CustomEvent
  <2> QED
    BY <1>1, <1>3, <2>1 DEF EventStep, ToolCall, CustomPublish, ExportAsync, Settle, pubVars, closeVars
<1>4. ASSUME NEW c \in Closers, CloserStep(c) PROVE ReportStates'
  <2> USE DEF pubVars
  <2>1. CASE ShutdownCall(c) \/ (\E t \in Tracks : ShutdownFnCall(c, t))
             \/ ShutdownFnUnblocked(c) \/ TakeNothing(c)
    BY <1>1, <2>1 DEF ShutdownCall, ShutdownFnCall, ShutdownFnUnblocked, TakeNothing, Return,
       IInv, TypeOK
  <2>2. CASE TakeGlobal(c)
    BY <2>2 DEF TakeGlobal, IInv, TypeOK, ReportStates
  <2>3. CASE CloseIntake(c)
    BY <2>3 DEF CloseIntake, IInv, TypeOK, ShutdownStates, ReportStates
  <2>4. ASSUME NEW r \in {"drained", "deadline"}, Drain(c, r) PROVE ReportStates'
    <3>1. /\ taken[c] \in Publishers /\ intake[taken[c]] = "closed"
          /\ \A d \in Closers : taken[d] = taken[c] => d = c
      BY <2>4, GlobalAssumption DEF Drain, IInv, ShutdownStates
    <3>2. closePc'[c] # "drain"
      BY <2>4 DEF Drain, Return, IInv, TypeOK
    <3> QED
      BY <2>4, <3>1, <3>2 DEF Drain, Return, IInv, TypeOK, ShutdownStates, ReportStates
  <2> QED
    BY <1>4, <2>1, <2>2, <2>3, <2>4 DEF CloserStep
<1>5. CASE UNCHANGED vars
  BY <1>1, <1>5 DEF vars, pubVars, closeVars
<1> QED
  BY <1>2, <1>3, <1>4, <1>5 DEF Next, Terminated

(* No publisher was built yet. *)
LEMMA ReportStatesInit == Init => ReportStates
  BY GlobalAssumption DEF Init, ReportStates

-----------------------------------------------------------------------------
(* Exporters.  Who uses a publisher, said without sets of its Tracks and      *)
(* events.                                                                    *)
LEMMA UsersAre ==
  ASSUME NEW p, NEW s
  PROVE  s \in Users(p) <=> \/ \E t \in Tracks : closure[t] = p /\ trackOf[t] = s
                            \/ \E e \in Events : via[e] = p /\ owner[e] = s
  BY DEF Users

(* The same after a step. *)
LEMMA UsersAreNext ==
  ASSUME NEW p, NEW s
  PROVE  s \in Users(p)' <=> \/ \E t \in Tracks : closure'[t] = p /\ trackOf'[t] = s
                             \/ \E e \in Events : via'[e] = p /\ owner'[e] = s
  BY DEF Users

(* A publisher that nobody asked for is unborn, and what has no publisher yet *)
(* has no exporters either.                                                   *)
UserStates ==
  /\ \A p \in Publishers : intake[p] = "unborn" => Users(p) = {}
  /\ \A t \in Tracks : trackPc[t] # "installed" => closure[t] = None
  /\ \A e \in Events : fate[e] = "new" => via[e] = None
  /\ \A e \in Events : fed[e] # {None} => fate[e] # "new"

(* The manager of a publisher is that of one of its users, if any of them     *)
(* lists exporters.                                                           *)
ManagerIsAUsers ==
  \A p \in Publishers :
    \/ Users(p) \cap Configuring = {} /\ exporters[p] = {}
    \/ \E s \in Users(p) \cap Configuring : exporters[p] = {s} \cap Exporting

(* What a step can do to the users of the publishers: nothing ...             *)
UsersKept == exporters' = exporters /\ \A p \in Publishers : Users(p)' = Users(p)

(* ... or GetOrInit, which gives one of them one user more.                   *)
UserJoins(s, p) ==
  /\ GetOrInit(s, p)
  /\ \A q \in Publishers : Users(q)' = IF q = p THEN Users(q) \cup {s} ELSE Users(q)

(* A Track is a user from the moment it has its closure.                      *)
LEMMA TrackUsers ==
  ASSUME IInv, UserStates, NEW t \in Tracks, TrackStep(t)
  PROVE  UsersKept \/ \E s \in Servers, p \in Publishers : UserJoins(s, p)
<1> USE GlobalAssumption
<1>0. /\ trackOf \in [Tracks -> Servers \cup {None}]
      /\ closure \in [Tracks -> Publishers \cup {None}]
  BY DEF IInv, TypeOK
<1>1. ASSUME NEW s \in Servers, TrackCall(t, s) PROVE UsersKept
  <2>1. closure[t] = None
    BY <1>1 DEF TrackCall, UserStates
  <2>2. ASSUME NEW p \in Publishers, NEW u PROVE u \in Users(p)' <=> u \in Users(p)
    BY <1>0, <1>1, <2>1, UsersAre, UsersAreNext DEF TrackCall, eventVars
  <2> QED
    BY <1>1, <2>2 DEF UsersKept, TrackCall, pubVars
<1>2. CASE TrackRegister(t)
  BY <1>2 DEF TrackRegister, UsersKept, Users, pubVars, eventVars
<1>3. ASSUME NEW p \in Publishers, InitPublisher(t, p)
      PROVE  \E s \in Servers : UserJoins(s, p)
  <2>1. trackOf[t] \in Servers /\ closure[t] = None
    BY <1>3 DEF InitPublisher, IInv, CaptureStates, UserStates
  <2>2. /\ closure' = [closure EXCEPT ![t] = p] /\ UNCHANGED <<trackOf, via, owner>>
    BY <1>3 DEF InitPublisher, eventVars
  <2>3. ASSUME NEW q \in Publishers, NEW u
        PROVE  u \in Users(q)' <=> u \in Users(q) \/ (q = p /\ u = trackOf[t])
    BY <1>0, <2>1, <2>2, UsersAre, UsersAreNext
  <2>4. \A q \in Publishers :
          Users(q)' = IF q = p THEN Users(q) \cup {trackOf[t]} ELSE Users(q)
    BY <2>3
  <2> QED
    BY <1>3, <2>1, <2>4 DEF InitPublisher, UserJoins
<1> QED
  BY <1>1, <1>2, <1>3 DEF TrackStep

(* So is a custom event; a tool call uses what its Track was given.           *)
LEMMA EventUsers ==
  ASSUME IInv, UserStates, NEW e \in Events, EventStep(e)
  PROVE  UsersKept \/ \E s \in Servers \cup {None}, p \in Publishers : UserJoins(s, p)
<1> USE GlobalAssumption
<1>0. /\ owner \in [Events -> Servers \cup {None}]
      /\ via \in [Events -> Publishers \cup {None}]
  BY DEF IInv, TypeOK
<1>1. ASSUME NEW t \in Tracks, ToolCall(t, e) PROVE UsersKept
  <2>1. /\ via[e] = None /\ closure[t] \in Publishers
        /\ owner' = [owner EXCEPT ![e] = trackOf[t]] /\ via' = [via EXCEPT ![e] = closure[t]]
        /\ UNCHANGED <<exporters, trackOf, closure>>
    BY <1>1 DEF ToolCall, IInv, CaptureStates, UserStates, pubVars, trackVars
  <2>2. ASSUME NEW p \in Publishers, NEW u PROVE u \in Users(p)' <=> u \in Users(p)
    BY <1>0, <2>1, UsersAre, UsersAreNext
  <2> QED
    BY <2>1, <2>2 DEF UsersKept
<1>2. ASSUME NEW s \in Servers \cup {None}, NEW p \in Publishers, CustomEvent(e, s, p)
      PROVE  UserJoins(s, p)
  <2>1. /\ via[e] = None /\ UNCHANGED <<trackOf, closure>>
        /\ owner' = [owner EXCEPT ![e] = s] /\ via' = [via EXCEPT ![e] = p]
    BY <1>2 DEF CustomEvent, UserStates, trackVars
  <2>2. ASSUME NEW q \in Publishers, NEW u
        PROVE  u \in Users(q)' <=> u \in Users(q) \/ (q = p /\ u = s)
    BY <1>0, <2>1, UsersAre, UsersAreNext
  <2>3. \A q \in Publishers : Users(q)' = IF q = p THEN Users(q) \cup {s} ELSE Users(q)
    BY <2>2
  <2> QED
    BY <1>2, <2>3 DEF CustomEvent, UserJoins
<1>3. ASSUME CustomPublish(e) \/ ExportAsync(e) \/ \E f \in {"delivered", "lost"} : Settle(e, f)
      PROVE  UsersKept
  BY <1>3 DEF CustomPublish, ExportAsync, Settle, UsersKept, Users, pubVars, trackVars
<1> QED
  BY <1>1, <1>2, <1>3 DEF EventStep

(* Shutdowns have no part in it. *)
LEMMA StepUsers ==
  ASSUME IInv, UserStates, [Next]_vars
  PROVE  UsersKept \/ \E s \in Servers \cup {None}, p \in Publishers : UserJoins(s, p)
<1>1. ASSUME NEW c \in Closers, CloserStep(c) PROVE UsersKept
  BY <1>1 DEF CloserStep, ShutdownCall, ShutdownFnCall, ShutdownFnUnblocked, TakeGlobal,
     TakeNothing, CloseIntake, Drain, Return, UsersKept, Users, pubVars, trackVars, eventVars
<1>2. CASE UNCHANGED vars
  BY <1>2 DEF vars, UsersKept, Users, pubVars, trackVars, eventVars
<1> QED
  BY <1>1, <1>2, TrackUsers, EventUsers DEF Next, Terminated

(* What an event was handed to, and who asked for its publisher, stays.       *)
LEMMA HandedOnce ==
  ASSUME IInv, UserStates, [Next]_vars, NEW e \in Events, fed[e] # {None}
  PROVE  fed'[e] = fed[e] /\ via'[e] = via[e] /\ owner'[e] = owner[e]
<1>0. fate[e] # "new" /\ TypeOK
  BY DEF UserStates, IInv
<1>1. ASSUME NEW d \in Events, EventStep(d)
      PROVE  fed'[e] = fed[e] /\ via'[e] = via[e] /\ owner'[e] = owner[e]
  BY <1>0, <1>1 DEF EventStep, ToolCall, CustomEvent, CustomPublish, ExportAsync, Settle, TypeOK
<1>2. ASSUME NEW t \in Tracks, TrackStep(t) PROVE UNCHANGED eventVars
  BY <1>2 DEF TrackStep, TrackCall, TrackRegister, InitPublisher
<1>3. ASSUME NEW c \in Closers, CloserStep(c) PROVE UNCHANGED eventVars
  BY <1>3 DEF CloserStep, ShutdownCall, ShutdownFnCall, ShutdownFnUnblocked, TakeGlobal,
     TakeNothing, CloseIntake, Drain, Return
<1> QED
  BY <1>1, <1>2, <1>3 DEF Next, Terminated, vars, eventVars

(* An event is handed over once it is taken, to the manager its publisher     *)
(* has then.                                                                  *)
LEMMA HandedOver ==
  ASSUME IInv, [Next]_vars, NEW e \in Events, fed[e] = {None}, fed'[e] # {None}
  PROVE  /\ fate[e] = "taken" /\ fate' = fate /\ via' = via /\ owner' = owner
         /\ fed'[e] = exporters[via[e]]
<1>1. fed \in [Events -> SUBSET (Exporting \cup {None})]
  BY DEF IInv, TypeOK
<1>2. ASSUME NEW d \in Events, EventStep(d), fed' # fed PROVE ExportAsync(d)
  BY <1>2 DEF EventStep, ToolCall, CustomEvent, CustomPublish, ExportAsync, Settle
<1>3. ASSUME NEW t \in Tracks, TrackStep(t) PROVE UNCHANGED fed
  BY <1>3 DEF TrackStep, TrackCall, TrackRegister, InitPublisher, eventVars
<1>4. ASSUME NEW c \in Closers, CloserStep(c) PROVE UNCHANGED fed
  BY <1>4 DEF CloserStep, ShutdownCall, ShutdownFnCall, ShutdownFnUnblocked, TakeGlobal,
     TakeNothing, CloseIntake, Drain, Return, eventVars
<1>5. PICK d \in Events : ExportAsync(d)
  BY <1>2, <1>3, <1>4 DEF Next, Terminated, vars, eventVars
<1> QED
  BY <1>1, <1>5 DEF ExportAsync

(* Who captured a publisher, and for whom an event goes its way, stays so.    *)
LEMMA UserStatesNext == IInv /\ IInv' /\ UserStates /\ [Next]_vars => UserStates'
<1> SUFFICES ASSUME IInv, IInv', UserStates, [Next]_vars PROVE UserStates'
  OBVIOUS
<1> USE GlobalAssumption
<1>0. TypeOK
  BY DEF IInv
<1>1. ASSUME NEW p \in Publishers, intake'[p] = "unborn" PROVE Users(p)' = {}
  <2>1. intake[p] = "unborn"
    <3>1. ASSUME NEW s \in Servers \cup {None}, NEW q \in Publishers, GetOrInit(s, q)
          PROVE  intake[p] = "unborn"
      BY <1>0, <1>1, <3>1 DEF GetOrInit, New, Reuse, TypeOK
    <3>2. ASSUME NEW t \in Tracks, TrackStep(t) PROVE intake[p] = "unborn"
      BY <1>1, <3>1, <3>2 DEF TrackStep, TrackCall, TrackRegister, InitPublisher, IInv,
         CaptureStates, pubVars
    <3>3. ASSUME NEW e \in Events, EventStep(e) PROVE intake[p] = "unborn"
      BY <1>1, <3>1, <3>3 DEF EventStep, ToolCall, CustomEvent, CustomPublish, ExportAsync,
         Settle, pubVars
    <3>4. ASSUME NEW c \in Closers, CloserStep(c) PROVE intake[p] = "unborn"
      BY <1>0, <1>1, <3>4 DEF CloserStep, ShutdownCall, ShutdownFnCall, ShutdownFnUnblocked,
         TakeGlobal, TakeNothing, CloseIntake, Drain, Return, TypeOK, pubVars
    <3> QED
      BY <1>1, <3>2, <3>3, <3>4 DEF Next, Terminated, vars, pubVars
  <2>2. Users(p) = {}
    BY <2>1 DEF UserStates
  <2>3. ASSUME NEW s \in Servers \cup {None}, UserJoins(s, p) PROVE FALSE
    BY <1>0, <1>1, <2>1, <2>3 DEF UserJoins, GetOrInit, New, Reuse, TypeOK, IInv, PublisherStates
  <2> QED
    BY <2>2, <2>3, StepUsers DEF UsersKept, UserJoins
<1>2. ASSUME NEW t \in Tracks, trackPc'[t] # "installed" PROVE closure'[t] = None
  <2>1. ASSUME NEW u \in Tracks, TrackStep(u) PROVE closure'[t] = None
    BY <1>0, <1>2, <2>1 DEF TrackStep, TrackCall, TrackRegister, InitPublisher, UserStates, TypeOK
  <2>2. ASSUME NEW e \in Events, EventStep(e) PROVE UNCHANGED trackVars
    BY <2>2 DEF EventStep, ToolCall, CustomEvent, CustomPublish, ExportAsync, Settle
  <2>3. ASSUME NEW c \in Closers, CloserStep(c) PROVE UNCHANGED trackVars
    BY <2>3 DEF CloserStep, ShutdownCall, ShutdownFnCall, ShutdownFnUnblocked, TakeGlobal,
       TakeNothing, CloseIntake, Drain, Return
  <2> QED
    BY <1>2, <2>1, <2>2, <2>3 DEF Next, Terminated, vars, trackVars, UserStates
<1>3. ASSUME NEW e \in Events
      PROVE  /\ fate'[e] = "new" => via'[e] = None
             /\ fed'[e] # {None} => fate'[e] # "new"
  <2>1. ASSUME NEW d \in Events, EventStep(d)
        PROVE  /\ fate'[e] = "new" => fate[e] = "new" /\ via'[e] = via[e]
    BY <1>0, <2>1 DEF EventStep, ToolCall, CustomEvent, CustomPublish, Publish, ExportAsync,
       Settle, TypeOK
  <2>2. ASSUME NEW t \in Tracks, TrackStep(t) PROVE UNCHANGED eventVars
    BY <2>2 DEF TrackStep, TrackCall, TrackRegister, InitPublisher
  <2>3. ASSUME NEW c \in Closers, CloserStep(c) PROVE UNCHANGED eventVars
    BY <2>3 DEF CloserStep, ShutdownCall, ShutdownFnCall, ShutdownFnUnblocked, TakeGlobal,
       TakeNothing, CloseIntake, Drain, Return
  <2>4. fate'[e] = "new" => fate[e] = "new" /\ via'[e] = via[e]
    BY <2>1, <2>2, <2>3 DEF Next, Terminated, vars, eventVars
  <2>5. fed'[e] # {None} /\ fed[e] = {None} => fate'[e] = "taken"
    BY HandedOver
  <2> QED
    BY <2>4, <2>5 DEF UserStates
<1> QED
  BY <1>1, <1>2, <1>3 DEF UserStates

(* GetOrInit installs the exporters of its caller or leaves those there are,  *)
(* and the caller is a user from then on.                                     *)
LEMMA ManagerIsAUsersNext ==
  IInv /\ UserStates /\ ManagerIsAUsers /\ [Next]_vars => ManagerIsAUsers'
<1> SUFFICES ASSUME IInv, UserStates, ManagerIsAUsers, [Next]_vars, NEW p \in Publishers
             PROVE  \/ Users(p)' \cap Configuring = {} /\ exporters'[p] = {}
                    \/ \E s \in Users(p)' \cap Configuring : exporters'[p] = {s} \cap Exporting
  BY DEF ManagerIsAUsers
<1> USE GlobalAssumption
<1>0. exporters \in [Publishers -> SUBSET Exporting]
  BY DEF IInv, TypeOK
<1>1. CASE UsersKept
  BY <1>1 DEF UsersKept, ManagerIsAUsers
<1>2. ASSUME NEW s \in Servers \cup {None}, NEW q \in Publishers, UserJoins(s, q), q # p
      PROVE  exporters'[p] = exporters[p] /\ Users(p)' = Users(p)
  BY <1>0, <1>2 DEF UserJoins, GetOrInit, New, Reuse
<1>3. ASSUME NEW s \in Servers \cup {None}, UserJoins(s, p), s \in Configuring
      PROVE  s \in Users(p)' /\ exporters'[p] = {s} \cap Exporting
  BY <1>0, <1>3 DEF UserJoins, GetOrInit, New, Reuse
<1>4. ASSUME NEW s \in Servers \cup {None}, UserJoins(s, p), s \notin Configuring
      PROVE  exporters'[p] = exporters[p] /\ Users(p)' = Users(p) \cup {s}
  <2>1. CASE New(s, p)
    <3>1. Users(p) = {} /\ exporters'[p] = {}
      BY <1>0, <1>4, <2>1 DEF New, UserStates
    <3> QED
      BY <1>4, <3>1 DEF UserJoins, ManagerIsAUsers
  <2> QED
    BY <1>4, <2>1 DEF UserJoins, GetOrInit, Reuse
<1>5. ASSUME NEW s \in Servers \cup {None}, UserJoins(s, p), s \notin Configuring
      PROVE  Users(p)' \cap Configuring = Users(p) \cap Configuring
  BY <1>4, <1>5
<1> QED
  BY <1>1, <1>2, <1>3, <1>4, <1>5, StepUsers DEF ManagerIsAUsers

(* An event's own server is a user of the publisher it goes to, so what it is *)
(* handed to is its own server's or another's that lists exporters too; and   *)
(* a publisher loses no users.                                                *)
LEMMA ExportedAsConfiguredNext ==
  IInv /\ UserStates /\ ManagerIsAUsers /\ ExportedAsConfigured /\ [Next]_vars
    => ExportedAsConfigured'
<1> SUFFICES ASSUME IInv, UserStates, ManagerIsAUsers, ExportedAsConfigured, [Next]_vars,
                    NEW e \in Events, fed'[e] # {None}, NEW p, via'[e] = p
             PROVE  \/ owner'[e] \notin Configuring /\ fed'[e] = {}
                    \/ \E s \in Users(p)' \cap Configuring : fed'[e] = {s} \cap Exporting
  BY DEF ExportedAsConfigured, Users
<1>1. p \in Publishers => Users(p) \subseteq Users(p)'
  BY StepUsers DEF UsersKept, UserJoins
<1>2. CASE fed[e] # {None}
  <2>1. fed'[e] = fed[e] /\ via[e] = p /\ owner'[e] = owner[e] /\ p \in Publishers
    BY <1>2, HandedOnce DEF UserStates, IInv, CaptureStates
  <2>2. \/ owner[e] \notin Configuring /\ fed[e] = {}
        \/ \E s \in Users(p) \cap Configuring : fed[e] = {s} \cap Exporting
    BY <1>2, <2>1 DEF ExportedAsConfigured
  <2> QED
    BY <1>1, <2>1, <2>2
<1>3. CASE fed[e] = {None}
  <2>1. /\ fate[e] = "taken" /\ via[e] = p /\ owner' = owner /\ fed'[e] = exporters[p]
    BY <1>3, HandedOver
  <2>2. p \in Publishers /\ owner[e] \in Users(p)
    BY <2>1, UsersAre DEF IInv, CaptureStates
  <2> QED
    BY <1>1, <2>1, <2>2 DEF ManagerIsAUsers
<1> QED
  BY <1>2, <1>3

(* Every event reaches the exporters of a server that lists some and uses its *)
(* publisher, or none if neither its own nor any other does: a Track or a     *)
(* custom event without exporters takes them from nobody (GetOrInit), however *)
(* long the event was queued.                                                 *)
THEOREM ExportsAreOfUsers == Spec => []ExportedAsConfigured
<1>1. Init => UserStates /\ ManagerIsAUsers /\ ExportedAsConfigured
  BY GlobalAssumption
     DEF Init, UserStates, ManagerIsAUsers, ExportedAsConfigured, Users
<1>2. IInv /\ IInv' /\ UserStates /\ ManagerIsAUsers /\ ExportedAsConfigured /\ [Next]_vars
        => UserStates' /\ ManagerIsAUsers' /\ ExportedAsConfigured'
  BY UserStatesNext, ManagerIsAUsersNext, ExportedAsConfiguredNext
<1> QED
  BY <1>1, <1>2, Inductive, PTL DEF Spec

(* In a process where no other server lists exporters, every captured event   *)
(* of a server gets to its own (mcpgo.go:132), whatever custom events, other  *)
(* Tracks and restarts come between.  What breaks it is a second list, even   *)
(* one of which nothing initializes.                                          *)
THEOREM SoleExportersGetTheirEvents ==
  ASSUME NEW s, Configuring \subseteq {s}
  PROVE  Spec => []ExportersReceiveTheirEvents
<1>1. ExportedAsConfigured => ExportersReceiveTheirEvents
  BY GlobalAssumption DEF ExportedAsConfigured, ExportersReceiveTheirEvents
<1> QED
  BY <1>1, ExportsAreOfUsers, PTL

-----------------------------------------------------------------------------
(* What a publisher's users see of it: to them it stutters unless an event of *)
(* its own moves, its intake closes or its shutdown reports.                  *)

(* It does not change for them. *)
LEMMA DeliveryStutters ==
  ASSUME NEW p \in Publishers,
         \A e \in Events : (IF via'[e] = p THEN Outcome(fate'[e]) ELSE "new")
                          = (IF via[e] = p THEN Outcome(fate[e]) ELSE "new"),
         (intake'[p] = "closed") <=> (intake[p] = "closed"), report'[p] = report[p]
  PROVE  UNCHANGED Delivery(p)!vars
  BY DEF Delivery!vars

(* One event of its own moves, and nothing else about it changes. *)
LEMMA DeliveryMoves ==
  ASSUME IInv, NEW p \in Publishers, NEW e \in Events, NEW f \in Fates,
         fate' = [fate EXCEPT ![e] = f], via'[e] = p, fate[e] # "new" => via[e] = p,
         \A d \in Events : d # e => via'[d] = via[d],
         (intake'[p] = "closed") <=> (intake[p] = "closed"), report'[p] = report[p]
  PROVE  /\ [d \in Events |-> IF via[d] = p THEN Outcome(fate[d]) ELSE "new"][e]
            = Outcome(fate[e])
         /\ Delivery(p)!Become(e, Outcome(f))
<1> DEFINE before == [d \in Events |-> IF via[d] = p THEN Outcome(fate[d]) ELSE "new"]
           after == [d \in Events |-> IF via'[d] = p THEN Outcome(fate'[d]) ELSE "new"]
<1>1. fate \in [Events -> Fates]
  BY DEF IInv, TypeOK
<1>2. before[e] = Outcome(fate[e])
  BY DEF Outcome
<1>3. \A d \in Events : after[d] = IF d = e THEN Outcome(f) ELSE before[d]
  BY <1>1
<1>4. after = [before EXCEPT ![e] = Outcome(f)]
  <2>1. after = [d \in Events |-> after[d]] /\ before = [d \in Events |-> before[d]]
    OBVIOUS
  <2> HIDE DEF before, after
  <2>2. [before EXCEPT ![e] = Outcome(f)]
        = [d \in Events |-> IF d = e THEN Outcome(f) ELSE before[d]]
    BY <2>1
  <2>3. after = [d \in Events |-> IF d = e THEN Outcome(f) ELSE before[d]]
    BY <1>3, <2>1
  <2> QED
    BY <2>2, <2>3
<1> QED
  BY <1>2, <1>4 DEF Delivery!Become

(* An event that a publisher is handed is taken, if it is open, or refused;   *)
(* one that was only chosen for it is still to come.                          *)
LEMMA DeliveryOfPublish ==
  ASSUME IInv, NEW p \in Publishers, NEW e \in Events, fate[e] \in {"new", "chosen"},
         fate[e] = "chosen" => via[e] = p, via'[e] = p, Publish(e, p),
         \A d \in Events : d # e => via'[d] = via[d],
         UNCHANGED <<intake, report>>
  PROVE  Delivery(p)!Take(e) \/ Delivery(p)!Refuse(e)
<1>1. PICK f \in {"taken", "refused"} :
        (f = "taken" => intake[p] = "open") /\ fate' = [fate EXCEPT ![e] = f]
  BY DEF Publish
<1>2. f \in Fates /\ Outcome(f) = f /\ Outcome(fate[e]) = "new"
  BY DEF Fates, Outcome
<1>3. /\ [d \in Events |-> IF via[d] = p THEN Outcome(fate[d]) ELSE "new"][e] = "new"
      /\ Delivery(p)!Become(e, f)
  BY <1>1, <1>2, DeliveryMoves
<1> QED
  BY <1>1, <1>3 DEF Delivery!Take, Delivery!Refuse

(* Another publisher's event is none of its business. *)
LEMMA DeliveryOfOthers ==
  ASSUME IInv, NEW p \in Publishers, NEW e \in Events, NEW f \in Fates,
         fate' = [fate EXCEPT ![e] = f], via'[e] # p, fate[e] # "new" => via[e] # p,
         \A d \in Events : d # e => via'[d] = via[d],
         (intake'[p] = "closed") <=> (intake[p] = "closed"), report'[p] = report[p]
  PROVE  UNCHANGED Delivery(p)!vars
<1>1. fate \in [Events -> Fates]
  BY DEF IInv, TypeOK
<1>2. ASSUME NEW d \in Events
      PROVE  (IF via'[d] = p THEN Outcome(fate'[d]) ELSE "new")
             = (IF via[d] = p THEN Outcome(fate[d]) ELSE "new")
  BY <1>1 DEF Outcome
<1> QED
  BY <1>2, DeliveryStutters

(* GetOrInit opens what was never built, which is open to its users already. *)
LEMMA DeliveryOfGetOrInit ==
  ASSUME IInv, NEW p \in Publishers, NEW s, NEW q \in Publishers, GetOrInit(s, q)
  PROVE  (intake'[p] = "closed") <=> (intake[p] = "closed")
  BY DEF GetOrInit, New, Reuse, IInv, TypeOK

(* Tool calls, custom events and the workers. *)
LEMMA DeliveryOfEvents ==
  ASSUME IInv, NEW p \in Publishers, NEW e \in Events, EventStep(e)
  PROVE  \/ Delivery(p)!Take(e) \/ Delivery(p)!Refuse(e)
         \/ Delivery(p)!Deliver(e) \/ Delivery(p)!Lose(e)
         \/ UNCHANGED Delivery(p)!vars
<1>0. via \in [Events -> Publishers \cup {None}] /\ fate \in [Events -> Fates]
  BY DEF IInv, TypeOK
<1>1. ASSUME NEW t \in Tracks, ToolCall(t, e)
      PROVE  Delivery(p)!Take(e) \/ Delivery(p)!Refuse(e) \/ UNCHANGED Delivery(p)!vars
  <2>1. /\ fate[e] = "new" /\ via' = [via EXCEPT ![e] = closure[t]] /\ Publish(e, closure[t])
        /\ UNCHANGED <<intake, report>>
    BY <1>1 DEF ToolCall, pubVars, closeVars
  <2>2. via'[e] = closure[t] /\ \A d \in Events : d # e => via'[d] = via[d]
    BY <1>0, <2>1
  <2>3. CASE closure[t] = p
    BY <2>1, <2>2, <2>3, DeliveryOfPublish
  <2>4. CASE closure[t] # p
    <3>1. PICK f \in Fates : fate' = [fate EXCEPT ![e] = f]
      BY <2>1 DEF Publish, Fates
    <3> QED
      BY <2>1, <2>2, <2>4, <3>1, DeliveryOfOthers
  <2> QED
    BY <2>3, <2>4
<1>2. ASSUME NEW s \in Servers \cup {None}, NEW q \in Publishers, CustomEvent(e, s, q)
      PROVE  UNCHANGED Delivery(p)!vars
  <2>1. /\ fate[e] = "new" /\ via' = [via EXCEPT ![e] = q]
        /\ fate' = [fate EXCEPT ![e] = "chosen"] /\ report' = report
        /\ (intake'[p] = "closed") <=> (intake[p] = "closed")
    BY <1>2, DeliveryOfGetOrInit DEF CustomEvent, closeVars
  <2>2. ASSUME NEW d \in Events
        PROVE  (IF via'[d] = p THEN Outcome(fate'[d]) ELSE "new")
               = (IF via[d] = p THEN Outcome(fate[d]) ELSE "new")
    BY <1>0, <2>1 DEF Outcome
  <2> QED
    BY <2>1, <2>2, DeliveryStutters
<1>3. ASSUME CustomPublish(e)
      PROVE  Delivery(p)!Take(e) \/ Delivery(p)!Refuse(e) \/ UNCHANGED Delivery(p)!vars
  <2>1. fate[e] = "chosen" /\ Publish(e, via[e]) /\ via' = via /\ UNCHANGED <<intake, report>>
    BY <1>3 DEF CustomPublish, pubVars, closeVars
  <2>2. CASE via[e] = p
    BY <2>1, <2>2, DeliveryOfPublish
  <2>3. CASE via[e] # p
    <3>1. PICK f \in Fates : fate' = [fate EXCEPT ![e] = f]
      BY <2>1 DEF Publish, Fates
    <3> QED
      BY <2>1, <2>3, <3>1, DeliveryOfOthers
  <2> QED
    BY <2>2, <2>3
<1>4. ASSUME NEW f \in {"delivered", "lost"}, Settle(e, f)
      PROVE  Delivery(p)!Deliver(e) \/ Delivery(p)!Lose(e) \/ UNCHANGED Delivery(p)!vars
  <2>1. /\ fate[e] = "taken" /\ fate' = [fate EXCEPT ![e] = f] /\ via' = via
        /\ UNCHANGED <<intake, report>> /\ f \in Fates
    BY <1>4 DEF Settle, pubVars, closeVars, Fates
  <2>2. CASE via[e] = p
    <3>1. Outcome(f) = f /\ Outcome(fate[e]) = "taken"
      BY <2>1 DEF Outcome
    <3>2. /\ via'[e] = p /\ \A d \in Events : d # e => via'[d] = via[d]
          /\ intake' = intake /\ report' = report
      BY <2>1, <2>2
    <3>3. /\ [d \in Events |-> IF via[d] = p THEN Outcome(fate[d]) ELSE "new"][e]
             = Outcome(fate[e])
          /\ Delivery(p)!Become(e, Outcome(f))
      BY <2>1, <2>2, <3>2, DeliveryMoves
    <3>4. /\ [d \in Events |-> IF via[d] = p THEN Outcome(fate[d]) ELSE "new"][e] = "taken"
          /\ Delivery(p)!Become(e, f)
      BY <3>1, <3>3
    <3> QED
      BY <3>4 DEF Delivery!Deliver, Delivery!Lose
  <2>3. CASE via[e] # p
    BY <2>1, <2>3, DeliveryOfOthers
  <2> QED
    BY <2>2, <2>3
<1>5. ASSUME ExportAsync(e) PROVE UNCHANGED Delivery(p)!vars
  BY <1>5 DEF ExportAsync, Delivery!vars, pubVars, closeVars
<1> QED
  BY <1>1, <1>2, <1>3, <1>4, <1>5 DEF EventStep

(* A shutdown closes what it took, and reports what it has drained. *)
LEMMA DeliveryOfClosers ==
  ASSUME IInv, ReportStates, NEW p \in Publishers, NEW c \in Closers, CloserStep(c)
  PROVE  \/ Delivery(p)!CloseIntake
         \/ \E r \in {"drained", "deadline"} : Delivery(p)!Report(r)
         \/ UNCHANGED Delivery(p)!vars
<1>1. UNCHANGED <<fate, via>>
  BY DEF CloserStep, ShutdownCall, ShutdownFnCall, ShutdownFnUnblocked, TakeGlobal, TakeNothing,
         CloseIntake, Drain, Return, eventVars
<1>2. ASSUME (intake'[p] = "closed") <=> (intake[p] = "closed"), report'[p] = report[p]
      PROVE  UNCHANGED Delivery(p)!vars
  BY <1>1, <1>2 DEF Delivery!vars
<1>3. CASE \/ ShutdownCall(c) \/ \E t \in Tracks : ShutdownFnCall(c, t)
           \/ ShutdownFnUnblocked(c) \/ TakeGlobal(c) \/ TakeNothing(c)
  BY <1>2, <1>3 DEF ShutdownCall, ShutdownFnCall, ShutdownFnUnblocked, TakeGlobal, TakeNothing,
     pubVars
<1>4. CASE CloseIntake(c)
  <2>1. /\ intake' = [intake EXCEPT ![taken[c]] = "closed"] /\ report' = report
        /\ intake[taken[c]] = "open" /\ intake \in [Publishers -> {"unborn", "open", "closed"}]
    BY <1>4 DEF CloseIntake, IInv, TypeOK, ShutdownStates
  <2>2. CASE taken[c] = p
    <3>1. intake[p] = "open" /\ intake'[p] = "closed"
      BY <2>1, <2>2
    <3> QED
      BY <1>1, <2>1, <3>1 DEF Delivery!CloseIntake
  <2>3. CASE taken[c] # p
    BY <1>2, <2>1, <2>3
  <2> QED
    BY <2>2, <2>3
<1>5. ASSUME NEW r \in {"drained", "deadline"}, Drain(c, r)
      PROVE  Delivery(p)!Report(r) \/ UNCHANGED Delivery(p)!vars
  <2>1. /\ report' = [report EXCEPT ![taken[c]] = r] /\ intake' = intake
        /\ report \in [Publishers -> {"none", "drained", "deadline"}]
        /\ closePc[c] = "drain"
        /\ r = "drained" => \A e \in Events : via[e] = taken[c] => fate[e] # "taken"
    BY <1>5 DEF Drain, IInv, TypeOK, pubVars
  <2>2. taken[c] \in Publishers /\ intake[taken[c]] = "closed" /\ report[taken[c]] = "none"
    BY <2>1, GlobalAssumption DEF IInv, ShutdownStates, ReportStates
  <2>3. CASE taken[c] = p
    <3>1. r = "drained" => \A e \in Events :
            [d \in Events |-> IF via[d] = p THEN Outcome(fate[d]) ELSE "new"][e] # "taken"
      BY <2>1, <2>3 DEF Outcome
    <3> QED
      BY <1>1, <2>1, <2>2, <2>3, <3>1 DEF Delivery!Report
  <2>4. CASE taken[c] # p
    BY <1>2, <2>1, <2>4
  <2> QED
    BY <2>3, <2>4
<1> QED
  BY <1>3, <1>4, <1>5 DEF CloserStep

(* To the users of a publisher every step of the process is one of its own or *)
(* none.                                                                      *)
LEMMA DeliverySteps ==
  ASSUME IInv, ReportStates, [Next]_vars, NEW p \in Publishers
  PROVE  [Delivery(p)!Next]_(Delivery(p)!vars)
<1>1. ASSUME NEW t \in Tracks, TrackStep(t) PROVE UNCHANGED Delivery(p)!vars
  <2>1. UNCHANGED <<fate, via, report>>
    BY <1>1 DEF TrackStep, TrackCall, TrackRegister, InitPublisher, eventVars, closeVars
  <2>2. (intake'[p] = "closed") <=> (intake[p] = "closed")
    BY <1>1, DeliveryOfGetOrInit DEF TrackStep, TrackCall, TrackRegister, InitPublisher, pubVars
  <2> QED
    BY <2>1, <2>2 DEF Delivery!vars
<1>2. CASE UNCHANGED vars
  BY <1>2 DEF vars, pubVars, eventVars, closeVars, Delivery!vars
<1>3. ASSUME NEW e \in Events, EventStep(e) PROVE [Delivery(p)!Next]_(Delivery(p)!vars)
  BY <1>3, DeliveryOfEvents DEF Delivery!Next
<1>4. ASSUME NEW c \in Closers, CloserStep(c) PROVE [Delivery(p)!Next]_(Delivery(p)!vars)
  BY <1>4, DeliveryOfClosers DEF Delivery!Next
<1> QED
  BY <1>1, <1>2, <1>3, <1>4 DEF Next, Terminated

(* Every publisher of the process, however many are built and shut down after *)
(* one another, keeps to its users the promise of EventDelivery: each event   *)
(* handed to it is taken or refused at once and settled once, and nothing is  *)
(* taken after its intake closed (GetOrInit, Publish, ShutdownGlobal).        *)
THEOREM PublishersImplementDelivery == Spec => ImplementsDelivery
<1>1. Init => \A p \in Publishers : Delivery(p)!Init
  BY DEF Init, Delivery!Init, Outcome
<1>2. IInv /\ ReportStates /\ [Next]_vars =>
        [\A p \in Publishers : UNCHANGED Delivery(p)!vars \/ Delivery(p)!Next]_vars
  BY DeliverySteps
<1> QED
  BY <1>1, <1>2, Inductive, ReportStatesInit, ReportStatesNext, PTL DEF Spec, ImplementsDelivery
-----------------------------------------------------------------------------
(* When what is said of Shutdown is so.  A closed publisher is in the hands   *)
(* of the shutdown that closed it, which drains it or has ended.              *)
ClosedIsTaken ==
  \A p \in Publishers : intake[p] = "closed" =>
    \E c \in Closers : taken[c] = p /\ closePc[c] \in {"drain", "ok", "failed"}

(* A Track or a custom event builds an open publisher or uses one. *)
LEMMA GetOrInitTaken ==
  ASSUME IInv, ClosedIsTaken, NEW s \in Servers \cup {None}, NEW p \in Publishers,
         GetOrInit(s, p), UNCHANGED closeVars
  PROVE  ClosedIsTaken'
  BY DEF GetOrInit, New, Reuse, IInv, TypeOK, ClosedIsTaken, closeVars

(* Only the close of an intake makes a publisher closed, and who closed it    *)
(* keeps it.                                                                  *)
LEMMA ClosedIsTakenNext == IInv /\ ClosedIsTaken /\ [Next]_vars => ClosedIsTaken'
<1> SUFFICES ASSUME IInv, ClosedIsTaken, [Next]_vars PROVE ClosedIsTaken'
  OBVIOUS
<1>1. CASE UNCHANGED <<intake, closeVars>>
  BY <1>1 DEF ClosedIsTaken, closeVars
<1>2. ASSUME NEW t \in Tracks, TrackStep(t) PROVE ClosedIsTaken'
  <2>1. ASSUME NEW p \in Publishers, InitPublisher(t, p) PROVE ClosedIsTaken'
    <3>1. trackOf[t] \in Servers
      BY <2>1 DEF InitPublisher, IInv, CaptureStates
    <3> QED
      BY <2>1, <3>1, GetOrInitTaken DEF InitPublisher
  <2> QED
    BY <1>1, <1>2, <2>1 DEF TrackStep, TrackCall, TrackRegister, pubVars
<1>3. ASSUME NEW e \in Events, EventStep(e) PROVE ClosedIsTaken'
  <2>1. ASSUME NEW s \in Servers \cup {None}, NEW p \in Publishers, CustomEvent(e, s, p)
        PROVE  ClosedIsTaken'
    BY <2>1, GetOrInitTaken DEF CustomEvent
  <2> QED
    BY <1>1, <1>3, <2>1 DEF EventStep, ToolCall, CustomPublish, ExportAsync, Settle, pubVars
<1>4. ASSUME NEW c \in Closers, CloserStep(c) PROVE ClosedIsTaken'
  <2> USE DEF pubVars
  <2>1. CASE ShutdownCall(c) \/ (\E t \in Tracks : ShutdownFnCall(c, t))
             \/ ShutdownFnUnblocked(c) \/ TakeNothing(c)
    <3>1. UNCHANGED <<intake, taken>> /\ closePc[c] \in {"idle", "blocked", "take"}
      BY <2>1 DEF ShutdownCall, ShutdownFnCall, ShutdownFnUnblocked, TakeNothing
    <3>2. \A d \in Closers \ {c} : closePc'[d] = closePc[d]
      BY <2>1 DEF ShutdownCall, ShutdownFnCall, ShutdownFnUnblocked, TakeNothing, Return,
         IInv, TypeOK
    <3> QED
      BY <3>1, <3>2 DEF ClosedIsTaken
  <2>2. CASE TakeGlobal(c)
    BY <2>2 DEF TakeGlobal, IInv, TypeOK, ClosedIsTaken
  <2>3. CASE CloseIntake(c)
    BY <2>3 DEF CloseIntake, IInv, TypeOK, ShutdownStates, ClosedIsTaken
  <2>4. ASSUME NEW r \in {"drained", "deadline"}, Drain(c, r) PROVE ClosedIsTaken'
    BY <2>4 DEF Drain, Return, IInv, TypeOK, ClosedIsTaken
  <2> QED
    BY <1>4, <2>1, <2>2, <2>3, <2>4 DEF CloserStep
<1>5. CASE UNCHANGED vars
  BY <1>1, <1>5 DEF vars, pubVars
<1> QED
  BY <1>2, <1>3, <1>4, <1>5 DEF Next, Terminated

(* No publisher is closed yet. *)
LEMMA ClosedIsTakenInit == Init => ClosedIsTaken
  BY DEF Init, ClosedIsTaken

(* A shutdown that took a publisher and returned nil has drained it, so the   *)
(* one that holds the event's publisher is another.                           *)
LEMMA QueuedIsInHands == IInv /\ ClosedIsTaken => PublishedUnlessElsewhere
<1> SUFFICES ASSUME IInv, ClosedIsTaken, NEW c \in Closers, closePc[c] = "ok",
                    NEW e \in Events, fate[e] = "taken", intake[via[e]] = "closed"
             PROVE  \E d \in Closers \ {c} :
                      taken[d] = via[e] /\ closePc[d] \in {"drain", "failed"}
  BY DEF PublishedUnlessElsewhere, InOtherHands
<1>1. via[e] \in Publishers
  BY DEF IInv, CaptureStates
<1>2. PICK d \in Closers : taken[d] = via[e] /\ closePc[d] \in {"drain", "ok", "failed"}
  BY <1>1 DEF ClosedIsTaken
<1>3. taken[d] # None
  BY <1>1, <1>2, GlobalAssumption
<1>4. closePc[d] # "ok"
  BY <1>2, <1>3 DEF IInv, TakerDrains
<1> QED
  BY <1>2, <1>4

(* No shutdown that returned nil has left an event of its own queued, nor one *)
(* that nobody holds.                                                         *)
THEOREM ShutdownPublishesItsOwn == Spec => []PublishedUnlessElsewhere
  BY QueuedIsInHands, Inductive, ClosedIsTakenInit, ClosedIsTakenNext, PTL DEF Spec

(* The use of Shutdown the documentation has in mind: one call at a time, none *)
(* of which runs into its deadline.                                           *)
OneShutdownAtATime ==
  \A c, d \in Closers :
    closePc[c] \notin {"idle", "ok"} /\ closePc[d] \notin {"idle", "ok"} => c = d
NoDeadlinePasses == \A c \in Closers : closePc[c] # "failed"

(* Used like that, Shutdown does ensure that all queued events are published  *)
(* before it returns (mcpcat.go:97), whichever Tracks and custom events ran   *)
(* meanwhile and however often the process is shut down and started again.    *)
THEOREM SoleShutdownEnsuresPublished ==
  Spec /\ []OneShutdownAtATime /\ []NoDeadlinePasses => ShutdownEnsuresPublished
<1>1. ASSUME IInv, [Next]_vars, PublishedUnlessElsewhere', OneShutdownAtATime,
             NoDeadlinePasses', NEW c \in Closers, closePc[c] # "ok", closePc'[c] = "ok",
             NEW e \in Events, fate[e] = "taken"
      PROVE  intake[via[e]] # "closed"
  <2>1. \E d \in Closers : CloserStep(d)
    <3>1. ASSUME NEW t \in Tracks, TrackStep(t) PROVE UNCHANGED closePc
      BY <3>1 DEF TrackStep, TrackCall, TrackRegister, InitPublisher, closeVars
    <3>2. ASSUME NEW d \in Events, EventStep(d) PROVE UNCHANGED closePc
      BY <3>2 DEF EventStep, ToolCall, CustomEvent, CustomPublish, ExportAsync, Settle, closeVars
    <3> QED
      BY <1>1, <3>1, <3>2 DEF Next, Terminated, vars, closeVars
  <2>2. ShutdownFnUnblocked(c) \/ TakeNothing(c) \/ \E r \in {"drained", "deadline"} : Drain(c, r)
    <3>1. PICK d \in Closers : CloserStep(d)
      BY <2>1
    <3>2. closePc \in [Closers -> {"idle", "blocked", "take", "close", "drain", "ok", "failed"}]
      BY <1>1 DEF IInv, TypeOK
    <3>3. \E pc : closePc' = [closePc EXCEPT ![d] = pc]
      BY <3>1 DEF CloserStep, ShutdownCall, ShutdownFnCall, ShutdownFnUnblocked, TakeGlobal,
         TakeNothing, CloseIntake, Drain, Return
    <3>4. d = c
      BY <1>1, <3>2, <3>3
    <3>5. ASSUME NEW t \in Tracks, ShutdownFnCall(c, t) PROVE FALSE
      <4>1. closePc'[c] \in {"take", "blocked"}
        BY <3>2, <3>5 DEF ShutdownFnCall
      <4> QED
        BY <1>1, <4>1
    <3>6. ASSUME ShutdownCall(c) \/ TakeGlobal(c) \/ CloseIntake(c) PROVE FALSE
      <4>1. closePc'[c] \in {"take", "close", "drain"}
        BY <3>2, <3>6 DEF ShutdownCall, TakeGlobal, CloseIntake
      <4> QED
        BY <1>1, <4>1
    <3>7. CloserStep(c)
      BY <3>1, <3>4
    <3> QED
      BY <3>5, <3>6, <3>7 DEF CloserStep
  <2>3. /\ UNCHANGED <<fate, via, intake>>
        /\ closePc[c] # "idle" /\ \A d \in Closers \ {c} : closePc'[d] = closePc[d]
    <3>1. /\ UNCHANGED <<fate, via, intake>> /\ closePc[c] # "idle"
          /\ \E pc : Return(c, pc)
      BY <2>2 DEF ShutdownFnUnblocked, TakeNothing, Drain, Return, pubVars, eventVars
    <3> QED
      BY <1>1, <3>1 DEF Return, IInv, TypeOK
  <2>4. \A d \in Closers \ {c} : closePc'[d] \notin {"drain", "failed"}
    BY <1>1, <2>3 DEF OneShutdownAtATime, NoDeadlinePasses
  <2>5. InOtherHands(c, e)'
    BY <1>1, <2>3 DEF PublishedUnlessElsewhere
  <2> QED
    BY <2>3, <2>4, <2>5 DEF InOtherHands
<1>2. IInv /\ PublishedUnlessElsewhere' /\ OneShutdownAtATime /\ NoDeadlinePasses'
      /\ [Next]_vars =>
        [\A c \in Closers : closePc[c] # "ok" /\ closePc'[c] = "ok" =>
           \A e \in Events : fate[e] = "taken" => intake[via[e]] # "closed"]_vars
  BY <1>1
<1> QED
  BY <1>2, Inductive, ShutdownPublishesItsOwn, PTL DEF Spec, ShutdownEnsuresPublished

-----------------------------------------------------------------------------
(* When what is said of redaction is so: the process tracks one server, and   *)
(* its custom events name that server, none just a session ID.                *)
OnlyFor(s) ==
  /\ \A t \in Tracks : trackOf[t] \in {s, None}
  /\ \A e \in Events : fate[e] # "new" => owner[e] = s

(* Every publisher that was built runs the hooks of that server, and only     *)
(* publishers that were built are captured and chosen.                        *)
HookedFor(s) ==
  /\ \A p \in Publishers : intake[p] # "unborn" => hooks[p] = {s} \cap Redacting
  /\ \A t \in Tracks : trackPc[t] = "installed" => intake[closure[t]] # "unborn"
  /\ \A e \in Events : fate[e] # "new" => intake[via[e]] # "unborn"

(* A publisher built for the server has its hooks, one that is found keeps    *)
(* them.                                                                      *)
LEMMA GetOrInitHooks ==
  ASSUME IInv, NEW s \in Servers, HookedFor(s), NEW p \in Publishers, GetOrInit(s, p)
  PROVE  /\ \A q \in Publishers : intake'[q] # "unborn" => hooks'[q] = {s} \cap Redacting
         /\ \A q \in Publishers : intake[q] # "unborn" => intake'[q] # "unborn"
         /\ intake'[p] # "unborn"
<1>1. CASE New(s, p)
  BY <1>1 DEF New, IInv, TypeOK, HookedFor
<1>2. CASE Reuse(s, p)
  BY <1>2, GlobalAssumption DEF Reuse, IInv, TypeOK, PublisherStates, HookedFor
<1> QED
  BY <1>1, <1>2 DEF GetOrInit

(* Publishers are built by Tracks and custom events, all of the one server.   *)
LEMMA HookedForNext ==
  ASSUME IInv, IInv', NEW s \in Servers, HookedFor(s), OnlyFor(s)', [Next]_vars
  PROVE  HookedFor(s)'
<1>1. ASSUME UNCHANGED hooks,
             \A p \in Publishers : intake'[p] # "unborn" <=> intake[p] # "unborn",
             UNCHANGED <<trackPc, closure, via>>,
             \A e \in Events : fate'[e] # "new" => fate[e] # "new"
      PROVE  HookedFor(s)'
  BY <1>1 DEF HookedFor, IInv, CaptureStates
<1>2. ASSUME NEW t \in Tracks, TrackStep(t) PROVE HookedFor(s)'
  <2>1. ASSUME NEW u \in Servers, TrackCall(t, u) PROVE HookedFor(s)'
    BY <2>1 DEF TrackCall, HookedFor, IInv, TypeOK, pubVars, eventVars
  <2>2. CASE TrackRegister(t)
    BY <2>2 DEF TrackRegister, HookedFor, IInv, TypeOK, pubVars, eventVars
  <2>3. ASSUME NEW p \in Publishers, InitPublisher(t, p) PROVE HookedFor(s)'
    <3>1. trackOf[t] = s
      <4>1. trackOf[t] \in Servers /\ trackOf' = trackOf
        BY <2>3 DEF InitPublisher, IInv, CaptureStates
      <4> QED
        BY <4>1, GlobalAssumption DEF OnlyFor
    <3>2. /\ \A q \in Publishers : intake'[q] # "unborn" => hooks'[q] = {s} \cap Redacting
          /\ \A q \in Publishers : intake[q] # "unborn" => intake'[q] # "unborn"
          /\ intake'[p] # "unborn"
      BY <2>3, <3>1, GetOrInitHooks DEF InitPublisher
    <3>3. \A u \in Tracks : trackPc'[u] = "installed" => intake'[closure'[u]] # "unborn"
      <4>1. CASE trackPc'[t] = "installed" /\ closure'[t] = p
        BY <2>3, <3>2, <4>1 DEF InitPublisher, HookedFor, IInv, TypeOK, CaptureStates
      <4> QED
        BY <2>3, <4>1 DEF InitPublisher, IInv, TypeOK
    <3>4. \A e \in Events : fate'[e] # "new" => intake'[via'[e]] # "unborn"
      BY <2>3, <3>2 DEF InitPublisher, HookedFor, IInv, CaptureStates, eventVars
    <3> QED
      BY <3>2, <3>3, <3>4 DEF HookedFor
  <2> QED
    BY <1>2, <2>1, <2>2, <2>3 DEF TrackStep
<1>3. ASSUME NEW e \in Events, EventStep(e) PROVE HookedFor(s)'
  <2>1. ASSUME NEW t \in Tracks, ToolCall(t, e) PROVE HookedFor(s)'
    <3>1. /\ UNCHANGED <<hooks, intake, trackPc, closure>> /\ via' = [via EXCEPT ![e] = closure[t]]
          /\ trackPc[t] = "installed"
          /\ \A d \in Events \ {e} : fate'[d] = fate[d]
      BY <2>1 DEF ToolCall, Publish, IInv, TypeOK, pubVars, trackVars
    <3> QED
      BY <3>1 DEF HookedFor, IInv, TypeOK
  <2>2. ASSUME NEW u \in Servers \cup {None}, NEW p \in Publishers, CustomEvent(e, u, p)
        PROVE  HookedFor(s)'
    <3>1. u = s
      BY <2>2 DEF CustomEvent, OnlyFor, IInv, TypeOK
    <3>2. /\ \A q \in Publishers : intake'[q] # "unborn" => hooks'[q] = {s} \cap Redacting
          /\ \A q \in Publishers : intake[q] # "unborn" => intake'[q] # "unborn"
          /\ intake'[p] # "unborn"
      BY <2>2, <3>1, GetOrInitHooks DEF CustomEvent
    <3>3. /\ UNCHANGED <<trackPc, closure>> /\ via' = [via EXCEPT ![e] = p]
          /\ \A d \in Events \ {e} : fate'[d] = fate[d]
      BY <2>2 DEF CustomEvent, IInv, TypeOK, trackVars
    <3>4. \A d \in Events : fate'[d] # "new" => intake'[via'[d]] # "unborn"
      BY <3>2, <3>3 DEF HookedFor, IInv, TypeOK, CaptureStates
    <3>5. \A t \in Tracks : trackPc'[t] = "installed" => intake'[closure'[t]] # "unborn"
      BY <3>2, <3>3 DEF HookedFor, IInv, CaptureStates
    <3> QED
      BY <3>2, <3>4, <3>5 DEF HookedFor
  <2>3. ASSUME CustomPublish(e) \/ ExportAsync(e) \/ \E f \in {"delivered", "lost"} : Settle(e, f)
        PROVE  HookedFor(s)'
    BY <1>1, <2>3 DEF CustomPublish, Publish, ExportAsync, Settle, IInv, TypeOK, pubVars, trackVars
  <2> QED
    BY <1>3, <2>1, <2>2, <2>3 DEF EventStep
<1>4. ASSUME NEW c \in Closers, CloserStep(c) PROVE HookedFor(s)'
  <2>1. UNCHANGED <<hooks, trackPc, closure, via, fate>>
    BY <1>4 DEF CloserStep, ShutdownCall, ShutdownFnCall, ShutdownFnUnblocked, TakeGlobal,
       TakeNothing, CloseIntake, Drain, Return, pubVars, trackVars, eventVars
  <2>2. CASE UNCHANGED intake
    BY <1>1, <2>1, <2>2
  <2>3. CASE CloseIntake(c)
    <3>1. intake[taken[c]] = "open" /\ intake' = [intake EXCEPT ![taken[c]] = "closed"]
      BY <2>3 DEF CloseIntake, IInv, ShutdownStates
    <3> QED
      BY <1>1, <2>1, <3>1 DEF IInv, TypeOK
  <2> QED
    BY <1>4, <2>2, <2>3 DEF CloserStep, ShutdownCall, ShutdownFnCall, ShutdownFnUnblocked,
       TakeGlobal, TakeNothing, Drain, pubVars
<1>5. CASE UNCHANGED vars
  BY <1>1, <1>5 DEF vars, pubVars, trackVars, eventVars
<1> QED
  BY <1>2, <1>3, <1>4, <1>5 DEF Next, Terminated

(* With one server in the process, all its events meet its own redaction      *)
(* hooks, through any shutdowns and restarts of the publisher (mcpgo.go:109). *)
(* What breaks it with several is that GetOrInit hands out the publisher      *)
(* there is, and with custom events for a session ID that it builds one       *)
(* without hooks for them.                                                    *)
THEOREM OneServerIsRedacted ==
  ASSUME NEW s \in Servers
  PROVE  Spec /\ []OnlyFor(s) => []RedactionHonoured
<1>1. Init => HookedFor(s)
  BY DEF Init, HookedFor
<1>2. IInv /\ IInv' /\ HookedFor(s) /\ OnlyFor(s)' /\ [Next]_vars => HookedFor(s)'
  BY HookedForNext
<1>3. IInv /\ HookedFor(s) /\ OnlyFor(s) => RedactionHonoured
  BY DEF IInv, CaptureStates, HookedFor, OnlyFor, RedactionHonoured
<1> QED
  BY <1>1, <1>2, <1>3, Inductive, PTL DEF Spec

-----------------------------------------------------------------------------
(* The shutdown function of a Track: sync.Once around Shutdown.               *)
Calls(c, t) == closeFn[c] = t

(* One call at a time runs the function, and once it did nobody runs it any   *)
(* more.                                                                      *)
FnStates ==
  /\ \A c \in Closers : closePc[c] = "blocked" => closeFn[c] \in Tracks
  /\ \A t \in Tracks :
       /\ fnOnce[t] = "fresh" => \A c \in Closers : ~Calls(c, t)
       /\ fnOnce[t] = "running" => \E c \in Closers : Calls(c, t) /\ InFn(c)
       /\ \A c \in Closers : Calls(c, t) /\ InFn(c) => fnOnce[t] = "running"
       /\ \A c, d \in Closers : Calls(c, t) /\ Calls(d, t) /\ InFn(c) /\ InFn(d) => c = d
       /\ \A c, d \in Closers :
            Calls(c, t) /\ Calls(d, t) /\ InFn(c) /\ taken[d] # None => c = d
       /\ \A c, d \in Closers :
            Calls(c, t) /\ Calls(d, t) /\ taken[c] # None /\ taken[d] # None => c = d
  /\ \A c \in Closers : closePc[c] = "idle" => closeFn[c] = None

(* Where the calls of the function stand changes in the steps of shutdowns.   *)
LEMMA FnStatesNext == IInv /\ FnStates /\ [Next]_vars => FnStates'
<1> SUFFICES ASSUME IInv, FnStates, [Next]_vars PROVE FnStates'
  OBVIOUS
<1>1. CASE UNCHANGED closeVars
  BY <1>1 DEF FnStates, Calls, InFn, closeVars
<1>2. ASSUME NEW c \in Closers, CloserStep(c) PROVE FnStates'
  <2> USE GlobalAssumption
  <2>0. TypeOK /\ ShutdownStates
    BY DEF IInv
  <2>1. CASE ShutdownCall(c)
    BY <2>0, <2>1 DEF ShutdownCall, TypeOK, FnStates, Calls, InFn
  <2>2. ASSUME NEW t \in Tracks, ShutdownFnCall(c, t) PROVE FnStates'
    BY <2>0, <2>2 DEF ShutdownFnCall, TypeOK, ShutdownStates, FnStates, Calls, InFn
  <2>3. CASE ShutdownFnUnblocked(c)
    BY <2>0, <2>3 DEF ShutdownFnUnblocked, Return, TypeOK, FnStates, Calls, InFn
  <2>4. CASE TakeGlobal(c)
    BY <2>0, <2>4 DEF TakeGlobal, TypeOK, FnStates, Calls, InFn
  <2>5. CASE CloseIntake(c)
    BY <2>0, <2>5 DEF CloseIntake, TypeOK, FnStates, Calls, InFn
  <2>6. CASE TakeNothing(c) \/ \E r \in {"drained", "deadline"} : Drain(c, r)
    <3>1. PICK pc \in {"ok", "failed"} : Return(c, pc)
      BY <2>6 DEF TakeNothing, Drain
    <3>2. UNCHANGED taken /\ InFn(c)
      BY <2>6 DEF TakeNothing, Drain, InFn
    <3>3. /\ UNCHANGED <<taken, closeFn>> /\ InFn(c) /\ closePc' = [closePc EXCEPT ![c] = pc]
          /\ fnOnce' = [t \in Tracks |-> IF Calls(c, t) THEN "done" ELSE fnOnce[t]]
      BY <3>1, <3>2 DEF Return, Calls
    <3>4. /\ \A d \in Closers \ {c} : closePc'[d] = closePc[d]
          /\ closePc'[c] = pc /\ ~InFn(c)'
      BY <2>0, <3>3 DEF TypeOK, InFn
    <3> QED
      BY <3>3, <3>4 DEF FnStates, Calls, InFn
  <2> QED
    BY <1>2, <2>1, <2>2, <2>3, <2>4, <2>5, <2>6 DEF CloserStep
<1>3. ASSUME NEW t \in Tracks, TrackStep(t) PROVE UNCHANGED closeVars
  BY <1>3 DEF TrackStep, TrackCall, TrackRegister, InitPublisher
<1>4. ASSUME NEW e \in Events, EventStep(e) PROVE UNCHANGED closeVars
  BY <1>4 DEF EventStep, ToolCall, CustomEvent, CustomPublish, ExportAsync, Settle
<1> QED
  BY <1>1, <1>2, <1>3, <1>4 DEF Next, Terminated, vars

(* No call waits for nobody, and none of a function's calls is a second       *)
(* shutdown (mcpgo.go:256, the function Track returns).                       *)
THEOREM ShutdownFnOnce == Spec => []FnShutsDownOnce
<1>1. Init => FnStates
  BY GlobalAssumption DEF Init, FnStates, Calls, InFn
<1>2. ASSUME IInv, FnStates PROVE FnShutsDownOnce
  <2>1. /\ closeFn \in [Closers -> Tracks \cup {None}]
        /\ fnOnce \in [Tracks -> {"fresh", "running", "done"}]
    BY <1>2 DEF IInv, TypeOK
  <2>2. ASSUME NEW c \in Closers, closePc[c] = "blocked"
        PROVE  \/ fnOnce[closeFn[c]] = "done"
               \/ \E b \in Closers : closeFn[b] = closeFn[c] /\ InFn(b)
    <3>1. closeFn[c] \in Tracks
      BY <1>2, <2>2 DEF FnStates
    <3>2. fnOnce[closeFn[c]] # "fresh"
      BY <1>2, <3>1 DEF FnStates, Calls
    <3>3. fnOnce[closeFn[c]] = "running" => \E b \in Closers : closeFn[b] = closeFn[c] /\ InFn(b)
      BY <1>2, <3>1 DEF FnStates, Calls
    <3> QED
      BY <2>1, <3>1, <3>2, <3>3
  <2>3. ASSUME NEW c \in Closers, NEW d \in Closers, closeFn[c] # None, closeFn[d] = closeFn[c],
               taken[c] # None, taken[d] # None
        PROVE  c = d
    <3>1. closeFn[c] \in Tracks
      BY <2>1, <2>3
    <3> QED
      BY <1>2, <2>3, <3>1 DEF FnStates, Calls
  <2> QED
    BY <2>2, <2>3 DEF FnShutsDownOnce
<1> QED
  BY <1>1, <1>2, FnStatesNext, Inductive, PTL DEF Spec
=============================================================================
