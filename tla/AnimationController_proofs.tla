---------------------- MODULE AnimationController_proofs ----------------------
(***************************************************************************)
(* For every set of scripts and commands, every capacity of the queue and  *)
(* every number of requests: the state keeps its type, the loaded flag     *)
(* promises an event and nothing asked for before a panic is taken after   *)
(* it, whether or not waits for the mutex run out.  At the end: every step *)
(* of the controller is a step of the abstract player or none at all, so   *)
(* that Spec implements ScriptPlayer.                                      *)
(***************************************************************************)
EXTENDS AnimationController, SequenceTheorems, TLAPS

-----------------------------------------------------------------------------
(* parseAnimationScript makes a sequence of events of the script.          *)
LEMMA EventsType ==
  ASSUME NEW s \in Scripts, NEW n \in Nat
  PROVE  [i \in DOMAIN EventsOf(s) |->
            [id |-> EventsOf(s)[i].id, k |-> EventsOf(s)[i].k, at |-> n]] \in Seq(EventType)
<1> DEFINE e == [i \in DOMAIN EventsOf(s) |->
                   [id |-> EventsOf(s)[i].id, k |-> EventsOf(s)[i].k, at |-> n]]
<1>1. Length[s] \in Nat
  BY ControllerAssumption
<1>2. DOMAIN e = 1 .. Length[s]
  BY DEF EventsOf
<1>3. \A i \in 1 .. Length[s] : e[i] \in EventType
  BY <1>1 DEF EventsOf, EventType, Ids
<1>4. e \in [1 .. Length[s] -> EventType]
  BY <1>2, <1>3
<1> QED
  BY <1>1, <1>4

(* Taking the head of a queue.                                             *)
LEMMA Taken ==
  ASSUME NEW S, NEW q \in Seq(S), q # <<>>
  PROVE  Head(q) \in S /\ Tail(q) \in Seq(S) /\ Len(Tail(q)) <= Len(q)
OBVIOUS

(* Every operation of the controller keeps the type of its state.          *)
LEMMA TypeStep == TypeOK /\ [Next]_vars => TypeOK'
<1> SUFFICES ASSUME TypeOK, [Next]_vars PROVE TypeOK'
  OBVIOUS
<1> USE ControllerAssumption DEF TypeOK, Ids, EventType
<1>1. CASE PanicBegin
  <2>1. op' \in [kind : {"idle", "panic", "clearing", "script"}, id : Ids] /\ op'.kind # "script"
    BY <1>1 DEF PanicBegin, Doing
  <2> QED
    BY <1>1, <2>1, asked + 1 \in Nat DEF PanicBegin, Request, dispatcher
<1>2. CASE PanicClear
  BY <1>2 DEF PanicClear, CountPanic, Doing, dispatcher
<1>3. CASE PanicEnd
  BY <1>3 DEF PanicEnd, Unloaded, Idle, dispatcher, history
<1>4. CASE PanicTimesOut
  BY <1>4 DEF PanicTimesOut, Idle, shared, dispatcher, history
<1>5. ASSUME NEW s \in Scripts, QueueScriptBegin(s) PROVE TypeOK'
  BY <1>5 DEF QueueScriptBegin, Request, Doing, dispatcher, history
<1>6. CASE QueueScriptEnd
  <2>1. scriptQueue' \in Seq([id : Scripts, at : Nat]) /\ Len(scriptQueue') <= Capacity
    <3>1. [id |-> op.id, at |-> stops] \in [id : Scripts, at : Nat]
      BY <1>6 DEF QueueScriptEnd
    <3>2. CASE Len(scriptQueue) < Capacity
      <4>1. scriptQueue' = Append(scriptQueue, [id |-> op.id, at |-> stops])
        BY <1>6, <3>2 DEF QueueScriptEnd, Push
      <4> QED
        BY <3>1, <3>2, <4>1
    <3>3. CASE ~(Len(scriptQueue) < Capacity)
      BY <1>6, <3>3 DEF QueueScriptEnd, Push
    <3> QED
      BY <3>2, <3>3
  <2> QED
    BY <1>6, <2>1 DEF QueueScriptEnd, DoneQueueing, Idle, dispatcher, history
<1>7. CASE QueueScriptTimesOut
  BY <1>7 DEF QueueScriptTimesOut, Idle, dispatcher, history
<1>8. ASSUME NEW c \in Commands, QueueCommand(c) PROVE TypeOK'
  <2>1. <<[id |-> c, k |-> 1, at |-> stops]>> \in Seq(EventType)
    BY DEF EventType
  <2>2. scriptEvents' \in Seq(EventType)
    BY <1>8, <2>1 DEF QueueCommand
  <2> QED
    BY <1>8, <2>2 DEF QueueCommand, Request, dispatcher
<1>9. CASE CheckLoaded
  BY <1>9 DEF CheckLoaded, shared, history
<1>10. ASSUME GiveUp PROVE TypeOK'
  BY <1>10 DEF GiveUp, NotLoading, history
<1>11. CASE GiveWay
  BY <1>10, <1>11 DEF GiveWay, shared, history
<1>12. CASE TakeScript
  <2>1. CASE scriptQueue = <<>>
    BY <1>10, <1>12, <2>1 DEF TakeScript
  <2>2. CASE scriptQueue # <<>>
    <3> DEFINE Queued == [id : Scripts, at : Nat]
    <3>1. Head(scriptQueue) \in Queued /\ Tail(scriptQueue) \in Seq(Queued)
          /\ Len(Tail(scriptQueue)) <= Len(scriptQueue)
      BY <2>2, Taken
    <3>2. scriptQueue' \in Seq(Queued) /\ Len(scriptQueue') <= Capacity
      <4>1. scriptQueue' = Tail(scriptQueue)
        BY <1>12, <2>2 DEF TakeScript
      <4> QED
        BY <3>1, <4>1
    <3>3. loading' \in [id : Scripts \cup {"none"}, gen : Nat, at : Nat] /\ loading'.id \in Scripts
      <4>1. Head(scriptQueue).id \in Scripts /\ Head(scriptQueue).at \in Nat
        BY <3>1
      <4>2. loading' = [id |-> Head(scriptQueue).id, gen |-> panicGeneration,
                        at |-> Head(scriptQueue).at]
        BY <1>12, <2>2 DEF TakeScript
      <4>3. panicGeneration \in Nat
        OBVIOUS
      <4> HIDE DEF TypeOK, Ids, EventType
      <4> QED
        BY <4>1, <4>2, <4>3
    <3> QED
      BY <1>12, <2>2, <3>2, <3>3 DEF TakeScript, history
  <2> QED
    BY <2>1, <2>2
<1>13. CASE ReadFile
  BY <1>10, <1>13 DEF ReadFile, shared, history
<1>14. CASE InstallScript
  <2>1. loading.id \in Scripts /\ loading.at \in Nat
    BY <1>14 DEF InstallScript
  <2>2. scriptEvents' \in Seq(EventType) /\ scriptLoaded' \in BOOLEAN
    <3>1. CASE StillWanted
      <4> DEFINE e == EventsOf(loading.id)
      <4>1. scriptEvents' = [i \in DOMAIN e |-> [id |-> e[i].id, k |-> e[i].k, at |-> loading.at]]
        BY <1>14, <3>1 DEF InstallScript
      <4>2. scriptEvents' \in Seq(EventType)
        <5> HIDE DEF TypeOK, Ids, EventType
        <5> QED BY <2>1, <4>1, EventsType
      <4>3. scriptLoaded' = (e # <<>>)
        BY <1>14, <3>1 DEF InstallScript
      <4> QED
        BY <4>2, <4>3
    <3>2. CASE ~StillWanted
      BY <1>14, <3>2 DEF InstallScript
    <3> QED
      BY <3>1, <3>2
  <2> QED
    BY <1>14, <2>2 DEF InstallScript, NotLoading, history
<1>15. CASE NextCommand
  <2>1. CASE scriptEvents = <<>>
    <3>1. inHand' \in EventType
      BY <1>15, <2>1 DEF NextCommand, Nothing
    <3> QED
      BY <1>15, <2>1, <3>1 DEF NextCommand, history
  <2>2. CASE scriptEvents # <<>>
    <3>1. Head(scriptEvents) \in EventType /\ Tail(scriptEvents) \in Seq(EventType)
      <4> HIDE DEF EventType
      <4> QED BY <2>2, Taken
    <3>2. inHand' \in EventType /\ scriptEvents' \in Seq(EventType) /\ scriptLoaded' \in BOOLEAN
      BY <1>15, <2>2, <3>1 DEF NextCommand
    <3> QED
      BY <1>15, <3>2 DEF NextCommand, history
  <2> QED
    BY <2>1, <2>2
<1>16. CASE Perform
  BY <1>16 DEF Perform, Nothing, EventType, shared, history
<1>17. CASE MutexTimesOut
  BY <1>10, <1>17 DEF MutexTimesOut, history
<1>18. CASE UNCHANGED vars
  BY <1>18 DEF vars, shared, dispatcher, history
<1> QED
  BY <1>1, <1>2, <1>3, <1>4, <1>5, <1>6, <1>7, <1>8, <1>9, <1>11, <1>12, <1>13,
     <1>14, <1>15, <1>16, <1>17, <1>18
     DEF Next, Interface, Dispatch

(* The constructor establishes the type.                                   *)
LEMMA TypeInit == Init => TypeOK
<1> SUFFICES ASSUME Init PROVE TypeOK
  OBVIOUS
<1>1. Len(<<>>) = 0 /\ \A S : <<>> \in Seq(S)
  OBVIOUS
<1>2. Nothing \in EventType
  BY DEF Nothing, EventType, Ids
<1>3. op \in [kind : {"idle", "panic", "clearing", "script"}, id : Ids] /\ op.kind # "script"
  BY DEF Init, Idle, Ids
<1>4. loading \in [id : Scripts \cup {"none"}, gen : Nat, at : Nat]
  BY DEF Init, NotLoading
<1>5. Len(scriptQueue) <= Capacity
  BY <1>1, ControllerAssumption DEF Init
<1> QED
  BY <1>1, <1>2, <1>3, <1>4, <1>5 DEF Init, TypeOK

(* The state keeps its type, and the script queue its capacity.            *)
THEOREM TypeCorrect == Spec => []TypeOK
BY TypeInit, TypeStep, PTL DEF Spec

-----------------------------------------------------------------------------
(* No operation raises the flag over an empty list, or empties the list    *)
(* under a raised flag, but for the middle of a panic.                     *)
LEMMA LoadedStep == TypeOK /\ LoadedMeansEvents /\ [Next]_vars => LoadedMeansEvents'
<1> SUFFICES ASSUME TypeOK, LoadedMeansEvents, [Next]_vars PROVE LoadedMeansEvents'
  OBVIOUS
<1> USE DEF LoadedMeansEvents
<1>1. CASE PanicBegin
  BY <1>1 DEF PanicBegin
<1>2. CASE PanicClear
  BY <1>2 DEF PanicClear, Doing
<1>3. CASE PanicEnd
  BY <1>3 DEF PanicEnd, Unloaded
<1>4. CASE PanicTimesOut
  BY <1>4 DEF PanicTimesOut, Idle, shared
<1>5. ASSUME NEW s \in Scripts, QueueScriptBegin(s) PROVE LoadedMeansEvents'
  BY <1>5 DEF QueueScriptBegin, Request, Doing, Idle
<1>6. CASE QueueScriptEnd
  BY <1>6 DEF QueueScriptEnd, Idle
<1>7. CASE QueueScriptTimesOut
  BY <1>7 DEF QueueScriptTimesOut, Idle
<1>8. ASSUME NEW c \in Commands, QueueCommand(c) PROVE LoadedMeansEvents'
  <2>1. scriptEvents \in Seq(EventType)
    BY DEF TypeOK
  <2>2. scriptEvents' # <<>>
    BY <1>8, <2>1 DEF QueueCommand
  <2> QED
    BY <2>2
<1>9. CASE CheckLoaded
  BY <1>9 DEF CheckLoaded, shared
<1>10. ASSUME GiveUp PROVE LoadedMeansEvents'
  BY <1>10 DEF GiveUp
<1>11. CASE GiveWay
  BY <1>10, <1>11 DEF GiveWay, shared
<1>12. CASE TakeScript
  BY <1>10, <1>12 DEF TakeScript
<1>13. CASE ReadFile
  BY <1>10, <1>13 DEF ReadFile, shared
<1>14. CASE InstallScript
  <2>1. CASE StillWanted
    <3> DEFINE e == EventsOf(loading.id)
    <3>1. DOMAIN scriptEvents' = DOMAIN e /\ scriptLoaded' = (e # <<>>)
      BY <1>14, <2>1 DEF InstallScript
    <3>2. scriptEvents' = <<>> => e = <<>>
      BY <3>1 DEF EventsOf
    <3> QED
      BY <3>1, <3>2
  <2>2. CASE ~StillWanted
    BY <1>14, <2>2 DEF InstallScript
  <2> QED
    BY <2>1, <2>2
<1>15. CASE NextCommand
  BY <1>15 DEF NextCommand
<1>16. CASE Perform
  BY <1>16 DEF Perform, shared
<1>17. CASE MutexTimesOut
  BY <1>10, <1>17 DEF MutexTimesOut
<1>18. CASE UNCHANGED vars
  BY <1>18 DEF vars, shared
<1> QED
  BY <1>1, <1>2, <1>3, <1>4, <1>5, <1>6, <1>7, <1>8, <1>9, <1>11, <1>12, <1>13,
     <1>14, <1>15, <1>16, <1>17, <1>18
     DEF Next, Interface, Dispatch

(* The loaded flag promises an event, whether or not waits run out.        *)
THEOREM LoadedAlwaysMeansEvents == Spec => []LoadedMeansEvents
<1>1. Init => LoadedMeansEvents
  BY DEF Init, LoadedMeansEvents
<1> QED
  BY <1>1, LoadedStep, TypeCorrect, PTL DEF Spec

-----------------------------------------------------------------------------
(* A sequence of recent elements: what is taken from it, and what is left. *)
LEMMA RecentTail ==
  ASSUME NEW S, NEW q \in Seq(S), q # <<>>, NEW n, \A i \in DOMAIN q : q[i].at = n
  PROVE  Head(q).at = n /\ \A i \in DOMAIN Tail(q) : Tail(q)[i].at = n
OBVIOUS

(* A recent element added at its end.                                     *)
LEMMA RecentAppend ==
  ASSUME NEW S, NEW q \in Seq(S), NEW x, NEW n, x.at = n, \A i \in DOMAIN q : q[i].at = n
  PROVE  \A i \in DOMAIN Append(q, x) : Append(q, x)[i].at = n
OBVIOUS

(* A recent element put before it.                                         *)
LEMMA RecentPrepend ==
  ASSUME NEW S, NEW q \in Seq(S), NEW x, NEW n, x.at = n, \A i \in DOMAIN q : q[i].at = n
  PROVE  \A i \in DOMAIN (<<x>> \o q) : (<<x>> \o q)[i].at = n
OBVIOUS

(* No operation leaves anything older than the last panic: the panic       *)
(* empties both lists, and the generation it counts up disowns the script  *)
(* that is being read.                                                     *)
LEMMA PanicStep == TypeOK /\ PanicInvariant /\ [Next]_vars => PanicInvariant'
<1> SUFFICES ASSUME TypeOK, PanicInvariant, [Next]_vars PROVE PanicInvariant'
  OBVIOUS
<1>t. /\ scriptQueue \in Seq([id : Scripts, at : Nat]) /\ scriptEvents \in Seq(EventType)
      /\ panicGeneration \in Nat /\ loading.gen \in Nat /\ stops \in Nat
  BY DEF TypeOK
<1>i. /\ loading.gen <= panicGeneration
      /\ \A i \in DOMAIN scriptQueue : scriptQueue[i].at = stops
      /\ \A i \in DOMAIN scriptEvents : scriptEvents[i].at = stops
      /\ pc \in {"read", "install"} /\ loading.gen = panicGeneration => loading.at = stops
  BY DEF PanicInvariant, Recent, Ongoing
<1>1. CASE PanicBegin
  BY <1>1, <1>i DEF PanicInvariant, Recent, Ongoing, PanicBegin, dispatcher
<1>2. CASE PanicClear
  <2>1. loading.gen < panicGeneration' /\ loading' = loading
    BY <1>2, <1>t, <1>i DEF PanicClear, CountPanic, dispatcher
  <2>2. ~Ongoing'
    BY <1>t, <2>1 DEF Ongoing
  <2>3. Recent(scriptQueue)' /\ Recent(scriptEvents)'
    BY <1>2 DEF Recent, PanicClear
  <2>4. loading'.gen <= panicGeneration'
    BY <1>t, <1>2, <2>1 DEF PanicClear, CountPanic
  <2> QED
    BY <2>2, <2>3, <2>4 DEF PanicInvariant
<1>3. CASE PanicEnd
  BY <1>3, <1>i DEF PanicInvariant, Recent, Ongoing, PanicEnd, dispatcher, history
<1>4. CASE PanicTimesOut
  BY <1>4, <1>i DEF PanicInvariant, Recent, Ongoing, PanicTimesOut, shared, dispatcher, history
<1>5. ASSUME NEW s \in Scripts, QueueScriptBegin(s) PROVE PanicInvariant'
  BY <1>5, <1>i DEF PanicInvariant, Recent, Ongoing, QueueScriptBegin, dispatcher
<1>6. CASE QueueScriptEnd
  <2>1. Recent(scriptQueue)'
    <3>1. CASE Len(scriptQueue) < Capacity
      <4>1. scriptQueue' = Append(scriptQueue, [id |-> op.id, at |-> stops]) /\ stops' = stops
        BY <1>6, <3>1 DEF QueueScriptEnd, Push, history
      <4> QED
        BY <1>t, <1>i, <4>1, RecentAppend DEF Recent
    <3>2. CASE ~(Len(scriptQueue) < Capacity)
      BY <1>6, <1>i, <3>2 DEF QueueScriptEnd, Push, Recent, history
    <3> QED
      BY <3>1, <3>2
  <2> QED
    BY <1>6, <1>i, <2>1 DEF PanicInvariant, Recent, Ongoing, QueueScriptEnd, dispatcher, history
<1>7. CASE QueueScriptTimesOut
  BY <1>7, <1>i DEF PanicInvariant, Recent, Ongoing, QueueScriptTimesOut, dispatcher, history
<1>8. ASSUME NEW c \in Commands, QueueCommand(c) PROVE PanicInvariant'
  <2>1. Recent(scriptEvents)'
    <3> DEFINE x == [id |-> c, k |-> 1, at |-> stops]
    <3>1. scriptEvents' = <<x>> \o scriptEvents /\ stops' = stops /\ x.at = stops
      BY <1>8 DEF QueueCommand
    <3> HIDE DEF x
    <3> QED
      BY <1>t, <1>i, <3>1, RecentPrepend DEF Recent
  <2> QED
    BY <1>8, <1>i, <2>1 DEF PanicInvariant, Recent, Ongoing, QueueCommand, dispatcher
<1>9. CASE CheckLoaded
  BY <1>9, <1>i DEF PanicInvariant, Recent, Ongoing, CheckLoaded, shared, history
<1>10. ASSUME GiveUp PROVE PanicInvariant'
  BY <1>10, <1>t, <1>i DEF PanicInvariant, Recent, Ongoing, GiveUp, NotLoading, history
<1>11. CASE GiveWay
  <2>1. CASE queueing
    BY <1>10, <1>11, <2>1 DEF GiveWay
  <2>2. CASE ~queueing
    BY <1>11, <1>i, <2>2 DEF PanicInvariant, Recent, Ongoing, GiveWay, shared, history
  <2> QED
    BY <2>1, <2>2
<1>12. CASE TakeScript
  <2>1. CASE scriptQueue = <<>>
    BY <1>10, <1>12, <2>1 DEF TakeScript
  <2>2. CASE scriptQueue # <<>>
    <3>1. /\ scriptQueue' = Tail(scriptQueue) /\ loading'.at = Head(scriptQueue).at
          /\ loading'.gen = panicGeneration /\ panicGeneration' = panicGeneration
          /\ scriptEvents' = scriptEvents /\ stops' = stops
      BY <1>12, <2>2 DEF TakeScript, history
    <3>2. Recent(scriptQueue)' /\ loading'.at = stops
      BY <1>t, <1>i, <2>2, <3>1, RecentTail DEF Recent
    <3> QED
      BY <1>t, <1>i, <3>1, <3>2 DEF PanicInvariant, Recent, Ongoing
  <2> QED
    BY <2>1, <2>2
<1>13. CASE ReadFile
  <2>1. CASE pc' = "install" /\ UNCHANGED <<shared, op, loading, inHand, history>>
    BY <1>13, <1>i, <2>1 DEF PanicInvariant, Recent, Ongoing, ReadFile, shared, history
  <2> QED
    BY <1>10, <1>13, <2>1 DEF ReadFile
<1>14. CASE InstallScript
  <2>1. /\ ~Ongoing' /\ stops' = stops /\ scriptQueue' = scriptQueue
        /\ loading'.gen = 0 /\ panicGeneration' = panicGeneration
    BY <1>14 DEF InstallScript, Ongoing, NotLoading, history
  <2>2. Recent(scriptEvents)'
    <3>1. CASE StillWanted
      <4>1. loading.at = stops
        BY <1>14, <1>i, <3>1 DEF InstallScript, StillWanted
      <4>2. \A i \in DOMAIN scriptEvents' : scriptEvents'[i].at = loading.at
        BY <1>14, <3>1 DEF InstallScript
      <4> QED
        BY <2>1, <4>1, <4>2 DEF Recent
    <3>2. CASE ~StillWanted
      BY <1>14, <1>i, <2>1, <3>2 DEF InstallScript, Recent
    <3> QED
      BY <3>1, <3>2
  <2> QED
    BY <1>t, <1>i, <2>1, <2>2 DEF PanicInvariant, Recent
<1>15. CASE NextCommand
  <2>1. /\ stops' = stops /\ scriptQueue' = scriptQueue
        /\ loading' = loading /\ panicGeneration' = panicGeneration /\ ~Ongoing'
    BY <1>15 DEF NextCommand, Ongoing, history
  <2>2. Recent(scriptEvents)'
    <3>1. CASE scriptEvents = <<>>
      BY <1>15, <1>i, <2>1, <3>1 DEF NextCommand, Recent
    <3>2. CASE scriptEvents # <<>>
      <4>1. scriptEvents' = Tail(scriptEvents)
        BY <1>15, <3>2 DEF NextCommand
      <4> QED
        BY <1>t, <1>i, <2>1, <3>2, <4>1, RecentTail DEF Recent
    <3> QED
      BY <3>1, <3>2
  <2> QED
    BY <1>i, <2>1, <2>2 DEF PanicInvariant, Recent
<1>16. CASE Perform
  BY <1>16, <1>i DEF PanicInvariant, Recent, Ongoing, Perform, shared, history
<1>17. CASE MutexTimesOut
  <2>1. CASE pc = "next" /\ pc' = "check"
                /\ UNCHANGED <<scriptQueue, scriptEvents, panicGeneration, loading, history>>
    BY <1>i, <2>1 DEF PanicInvariant, Recent, Ongoing, history
  <2> QED
    BY <1>10, <1>17, <2>1 DEF MutexTimesOut
<1>18. CASE UNCHANGED vars
  BY <1>18, <1>i DEF PanicInvariant, Recent, Ongoing, vars, shared, dispatcher, history
<1> QED
  BY <1>1, <1>2, <1>3, <1>4, <1>5, <1>6, <1>7, <1>8, <1>9, <1>11, <1>12, <1>13,
     <1>14, <1>15, <1>16, <1>17, <1>18
     DEF Next, Interface, Dispatch

(* The invariant behind the panic.                                         *)
THEOREM PanicInvariantHolds == Spec => []PanicInvariant
<1>1. Init => PanicInvariant
  BY DEF Init, PanicInvariant, Recent, Ongoing, NotLoading
<1> QED
  BY <1>1, PanicStep, TypeCorrect, PTL DEF Spec

(* What getNextCommandPtr takes was asked for after the last panic.        *)
LEMMA TakenIsRecent ==
  TypeOK /\ PanicInvariant /\ [Next]_vars
    => [pc = "next" /\ pc' = "perform" /\ inHand'.id # "none" => inHand'.at = stops]_vars
<1> SUFFICES ASSUME TypeOK, PanicInvariant, Next, pc = "next", pc' = "perform",
                    inHand'.id # "none"
             PROVE  inHand'.at = stops
  OBVIOUS
<1>1. scriptEvents \in Seq(EventType)
  BY DEF TypeOK
<1>2. Recent(scriptEvents)
  BY DEF PanicInvariant
<1>3. NextCommand
  BY DEF Next, Interface, Dispatch, PanicBegin, PanicClear, PanicEnd, PanicTimesOut,
         QueueScriptBegin, QueueScriptEnd, QueueScriptTimesOut, QueueCommand, CheckLoaded,
         GiveWay, TakeScript, ReadFile, InstallScript, Perform, MutexTimesOut, GiveUp,
         dispatcher
<1>4. scriptEvents # <<>> /\ inHand' = Head(scriptEvents)
  BY <1>3 DEF NextCommand, Nothing
<1> QED
  BY <1>1, <1>2, <1>4, RecentTail DEF Recent

(* Once panicStop has had the mutex nothing asked for before is taken.     *)
THEOREM PanicAlwaysHalts == Spec => PanicHalts
BY PanicInvariantHolds, TakenIsRecent, TypeCorrect, PTL DEF Spec, PanicHalts

-----------------------------------------------------------------------------
(* The controller implements a ScriptPlayer.                                *)

(* A sequence, element by element through f.                                *)
Through(f, q) == [i \in DOMAIN q |-> f[q[i]]]

LEMMA ThroughType ==
  ASSUME NEW S, NEW T, NEW f, \A x \in S : f[x] \in T, NEW q \in Seq(S)
  PROVE  Through(f, q) \in Seq(T)
<1>1. DOMAIN q = 1 .. Len(q) /\ Len(q) \in Nat /\ \A i \in 1 .. Len(q) : f[q[i]] \in T
  OBVIOUS
<1>2. Through(f, q) = [i \in 1 .. Len(q) |-> f[q[i]]]
  BY <1>1 DEF Through
<1> QED
  BY <1>1, <1>2

LEMMA ThroughElements ==
  ASSUME NEW S, NEW q \in Seq(S), NEW f
  PROVE  /\ Len(Through(f, q)) = Len(q)
         /\ \A i \in 1 .. Len(q) : Through(f, q)[i] = f[q[i]]
<1>1. DOMAIN q = 1 .. Len(q) /\ Len(q) \in Nat
  OBVIOUS
<1>2. Through(f, q) = [i \in 1 .. Len(q) |-> f[q[i]]]
  BY <1>1 DEF Through
<1>3. Through(f, q) \in Seq({f[q[i]] : i \in 1 .. Len(q)})
  BY <1>1, <1>2
<1>4. DOMAIN Through(f, q) = 1 .. Len(q) /\ DOMAIN Through(f, q) = 1 .. Len(Through(f, q))
      /\ Len(Through(f, q)) \in Nat
  BY <1>2, <1>3
<1> QED
  BY <1>1, <1>2, <1>4

LEMMA ThroughAppend ==
  ASSUME NEW S, NEW f, NEW q \in Seq(S), NEW x \in S
  PROVE  Through(f, Append(q, x)) = Append(Through(f, q), f[x])
<1> DEFINE T == {f[y] : y \in S}
           r == Append(q, x)
           s == Append(Through(f, q), f[x])
<1>1. r \in Seq(S) /\ Len(r) = Len(q) + 1 /\ Len(q) \in Nat
      /\ r[Len(q) + 1] = x /\ \A i \in 1 .. Len(q) : r[i] = q[i]
  OBVIOUS
<1>2. Through(f, q) \in Seq(T) /\ Len(Through(f, q)) = Len(q) /\ f[x] \in T
      /\ \A i \in 1 .. Len(q) : Through(f, q)[i] = f[q[i]]
  <2>1. f[x] \in T
    OBVIOUS
  <2> QED
    BY <2>1, ThroughType, ThroughElements, Zenon
<1>3. s \in Seq(T) /\ Len(s) = Len(q) + 1
      /\ s[Len(q) + 1] = f[x] /\ \A i \in 1 .. Len(q) : s[i] = Through(f, q)[i]
  BY <1>2
<1> HIDE DEF r, s
<1>4. Through(f, r) \in Seq(T) /\ Len(Through(f, r)) = Len(r)
      /\ \A i \in 1 .. Len(r) : Through(f, r)[i] = f[r[i]]
  BY <1>1, ThroughType, ThroughElements, Zenon
<1>5. ASSUME NEW i \in 1 .. Len(q) + 1 PROVE Through(f, r)[i] = s[i]
  <2>1. i = Len(q) + 1 \/ i \in 1 .. Len(q)
    BY <1>1, <1>5
  <2> QED
    BY <1>1, <1>2, <1>3, <1>4, <2>1
<1>6. Through(f, r) = s
  BY <1>1, <1>3, <1>4, <1>5, SeqEqual
<1> QED
  BY <1>6 DEF r, s

LEMMA ThroughPrepend ==
  ASSUME NEW S, NEW f, NEW q \in Seq(S), NEW x \in S
  PROVE  Through(f, <<x>> \o q) = <<f[x]>> \o Through(f, q)
<1> DEFINE T == {f[y] : y \in S}
           r == <<x>> \o q
           s == <<f[x]>> \o Through(f, q)
<1>1. r \in Seq(S) /\ Len(r) = Len(q) + 1 /\ Len(q) \in Nat
      /\ r[1] = x /\ \A i \in 1 .. Len(q) : r[i + 1] = q[i]
  OBVIOUS
<1>2. Through(f, q) \in Seq(T) /\ Len(Through(f, q)) = Len(q) /\ f[x] \in T
      /\ \A i \in 1 .. Len(q) : Through(f, q)[i] = f[q[i]]
  <2>1. f[x] \in T
    OBVIOUS
  <2> QED
    BY <2>1, ThroughType, ThroughElements, Zenon
<1>3. s \in Seq(T) /\ Len(s) = Len(q) + 1
      /\ s[1] = f[x] /\ \A i \in 1 .. Len(q) : s[i + 1] = Through(f, q)[i]
  BY <1>2
<1> HIDE DEF r, s
<1>4. Through(f, r) \in Seq(T) /\ Len(Through(f, r)) = Len(r)
      /\ \A i \in 1 .. Len(r) : Through(f, r)[i] = f[r[i]]
  BY <1>1, ThroughType, ThroughElements, Zenon
<1>5. ASSUME NEW i \in 1 .. Len(q) + 1 PROVE Through(f, r)[i] = s[i]
  <2>1. i = 1 \/ (i - 1 \in 1 .. Len(q) /\ (i - 1) + 1 = i)
    BY <1>1, <1>5
  <2>2. CASE i = 1
    BY <1>1, <1>3, <1>4, <1>5, <2>2
  <2>3. CASE i - 1 \in 1 .. Len(q) /\ (i - 1) + 1 = i
    <3>1. r[i] = q[i - 1] /\ s[i] = f[q[i - 1]]
      BY <1>1, <1>2, <1>3, <2>3
    <3> QED
      BY <1>1, <1>4, <1>5, <3>1
  <2> QED
    BY <2>1, <2>2, <2>3
<1>6. Through(f, r) = s
  BY <1>1, <1>3, <1>4, <1>5, SeqEqual
<1> QED
  BY <1>6 DEF r, s

(* What is left of a sequence, and the sequence as its head and the rest.   *)
LEMMA ThroughTail ==
  ASSUME NEW S, NEW f, NEW q \in Seq(S), q # <<>>
  PROVE  /\ Through(f, q) = <<f[Head(q)]>> \o Through(f, Tail(q))
         /\ Through(f, Tail(q)) = Tail(Through(f, q))
         /\ Through(f, q) # <<>> /\ Head(Through(f, q)) = f[Head(q)]
<1> DEFINE T == {f[y] : y \in S}
<1>1. Head(q) \in S /\ Tail(q) \in Seq(S) /\ q = <<Head(q)>> \o Tail(q)
  OBVIOUS
<1>2. Through(f, q) = <<f[Head(q)]>> \o Through(f, Tail(q))
  BY <1>1, ThroughPrepend
<1>3. Through(f, Tail(q)) \in Seq(T) /\ f[Head(q)] \in T
  BY <1>1, ThroughType
<1> HIDE DEF Through
<1>4. ASSUME NEW t \in Seq(T), NEW h \in T
      PROVE  Tail(<<h>> \o t) = t /\ <<h>> \o t # <<>> /\ Head(<<h>> \o t) = h
  OBVIOUS
<1> QED
  BY <1>2, <1>3, <1>4

(* The controller's state as a ScriptPlayer's: playlist, playing, choosing. *)
Queued == [id : Scripts, at : Nat]
Names == [x \in Queued |-> x.id]
Places == [x \in EventType |-> <<x.id, x.k>>]

Begun == IF Ongoing THEN <<loading.id>> ELSE <<>>
Waits == Begun \o [i \in DOMAIN scriptQueue |-> scriptQueue[i].id]
Plays == [i \in DOMAIN scriptEvents |-> <<scriptEvents[i].id, scriptEvents[i].k>>]
Choosing == pc \in {"load", "take", "read", "install"}

LEMMA NamesOfQueue ==
  ASSUME NEW q \in Seq(Queued)
  PROVE  [i \in DOMAIN q |-> q[i].id] = Through(Names, q)
<1>1. \A i \in DOMAIN q : Names[q[i]] = q[i].id
  BY DEF Names
<1> QED
  BY <1>1 DEF Through

LEMMA PlacesOfEvents ==
  ASSUME NEW q \in Seq(EventType)
  PROVE  [i \in DOMAIN q |-> <<q[i].id, q[i].k>>] = Through(Places, q)
<1>1. \A i \in DOMAIN q : Places[q[i]] = <<q[i].id, q[i].k>>
  BY DEF Places
<1> QED
  BY <1>1 DEF Through

LEMMA NamesType == \A x \in Queued : Names[x] \in Scripts
BY DEF Names, Queued

LEMMA PlacesType == \A x \in EventType : Places[x] \in Ids \X Nat
BY DEF Places, EventType

(* What waits and what plays, in those terms.                              *)
LEMMA PlayerState ==
  ASSUME TypeOK
  PROVE  /\ Waits = Begun \o Through(Names, scriptQueue)
         /\ Plays = Through(Places, scriptEvents)
         /\ scriptQueue \in Seq(Queued) /\ scriptEvents \in Seq(EventType)
         /\ Begun \in Seq(Scripts) /\ Through(Names, scriptQueue) \in Seq(Scripts)
         /\ Through(Places, scriptEvents) \in Seq(Ids \X Nat)
<1>1. scriptQueue \in Seq(Queued) /\ scriptEvents \in Seq(EventType)
  BY DEF TypeOK, Queued
<1>2. Waits = Begun \o Through(Names, scriptQueue) /\ Plays = Through(Places, scriptEvents)
  BY <1>1, NamesOfQueue, PlacesOfEvents DEF Waits, Plays
<1>3. Begun \in Seq(Scripts)
  BY DEF Begun, Ongoing, TypeOK
<1>4. Through(Names, scriptQueue) \in Seq(Scripts)
  BY <1>1, NamesType, ThroughType
<1>5. Through(Places, scriptEvents) \in Seq(Ids \X Nat)
  BY <1>1, PlacesType, ThroughType
<1> QED
  BY <1>1, <1>2, <1>3, <1>4, <1>5

(* The player's operations in those terms.                                 *)
PlayerStep == [Player!Next]_(Player!vars)

LEMMA PlayerRests ==
  ASSUME UNCHANGED <<Waits, Plays, scriptLoaded, Choosing, Panicking>>
  PROVE  PlayerStep
BY DEF PlayerStep, Player!vars, Waits, Begun, Plays, Choosing

LEMMA PlayerAccepts ==
  ASSUME NEW s \in Scripts, Waits' = Append(Waits, s),
         UNCHANGED <<Plays, scriptLoaded, Choosing, Panicking>>
  PROVE  PlayerStep
<1>1. Player!Accept(s)
  BY DEF Player!Accept, Waits, Begun, Plays, Choosing
<1> QED
  BY <1>1 DEF PlayerStep, Player!Next

LEMMA PlayerInserts ==
  ASSUME NEW c \in Commands, Plays' = <<<<c, 1>>>> \o Plays, scriptLoaded' = TRUE,
         UNCHANGED <<Waits, Choosing, Panicking>>
  PROVE  PlayerStep
<1>1. Player!Insert(c)
  BY DEF Player!Insert, Waits, Begun, Plays, Choosing
<1> QED
  BY <1>1 DEF PlayerStep, Player!Next

LEMMA PlayerChooses ==
  ASSUME ~scriptLoaded, ~Choosing, Choosing',
         UNCHANGED <<Waits, Plays, scriptLoaded, Panicking>>
  PROVE  PlayerStep
<1>1. Player!Choose
  BY DEF Player!Choose, Waits, Begun, Plays, Choosing
<1> QED
  BY <1>1 DEF PlayerStep, Player!Next

LEMMA PlayerStarts ==
  ASSUME Choosing, Waits # <<>>, Plays' = Player!Events(Head(Waits)), Waits' = Tail(Waits),
         scriptLoaded' = (Plays' # <<>>), Choosing' = FALSE, UNCHANGED Panicking
  PROVE  PlayerStep
<1>1. Player!Start
  BY Zenon DEF Player!Start, Player!Events, Waits, Begun, Plays, Choosing
<1> QED
  BY <1>1 DEF PlayerStep, Player!Next

LEMMA PlayerBeginsNothing ==
  ASSUME Choosing, Choosing' = FALSE, UNCHANGED <<Plays, Panicking>>,
         scriptLoaded' \in {scriptLoaded, FALSE},
         Waits' = Waits \/ (Waits # <<>> /\ Waits' = Tail(Waits))
  PROVE  PlayerStep
<1>1. Player!BeginNothing
  BY Zenon DEF Player!BeginNothing, Waits, Begun, Plays, Choosing
<1> QED
  BY <1>1 DEF PlayerStep, Player!Next

LEMMA PlayerPlays ==
  ASSUME ~Choosing, Plays # <<>>, Plays' = Tail(Plays),
         scriptLoaded' = (scriptLoaded /\ Plays' # <<>>),
         UNCHANGED <<Waits, Choosing, Panicking>>
  PROVE  PlayerStep
<1>1. Player!Play
  BY DEF Player!Play, Waits, Begun, Plays, Choosing
<1> QED
  BY <1>1 DEF PlayerStep, Player!Next

LEMMA PlayerIsAskedToStop ==
  ASSUME ~Panicking, Panicking', ~scriptLoaded', UNCHANGED <<Waits, Plays, Choosing>>,
         scriptLoaded' \in BOOLEAN
  PROVE  PlayerStep
<1>1. Player!AskToStop
  BY DEF Player!AskToStop, Waits, Begun, Plays, Choosing, Panicking
<1> QED
  BY <1>1 DEF PlayerStep, Player!Next

LEMMA PlayerClears ==
  ASSUME Panicking, Waits' = <<>>, Plays' = <<>>,
         UNCHANGED <<scriptLoaded, Choosing, Panicking>>
  PROVE  PlayerStep
<1>1. Player!Clear
  BY DEF Player!Clear, Waits, Begun, Plays, Choosing
<1> QED
  BY <1>1 DEF PlayerStep, Player!Next

LEMMA PlayerStops ==
  ASSUME Panicking, Waits = <<>>, Plays = <<>>, ~Panicking', scriptLoaded' = FALSE,
         UNCHANGED <<Waits, Plays, Choosing>>
  PROVE  PlayerStep
<1>1. Player!Stopped
  BY DEF Player!Stopped, Waits, Begun, Plays, Choosing, Panicking
<1> QED
  BY <1>1 DEF PlayerStep, Player!Next

LEMMA PlayerRunsOut ==
  ASSUME Timeouts, UNCHANGED <<Waits, Plays, Choosing>>,
         \/ scriptLoaded' = FALSE /\ UNCHANGED Panicking
         \/ Panicking' = FALSE /\ UNCHANGED scriptLoaded
  PROVE  PlayerStep
<1>1. Player!RunOut
  BY Zenon DEF Player!RunOut, Waits, Begun, Plays, Choosing, Panicking
<1> QED
  BY <1>1 DEF PlayerStep, Player!Next

(* The actions of the controller, one by one.                              *)

\* In the middle of a panic there is nothing left.
Cleared == op.kind = "clearing" => scriptQueue = <<>> /\ scriptEvents = <<>> /\ ~Ongoing

LEMMA ClearedStep == TypeOK /\ PanicInvariant /\ Cleared /\ [Next]_vars => Cleared'
<1> SUFFICES ASSUME TypeOK, PanicInvariant, Cleared, [Next]_vars, op'.kind = "clearing"
             PROVE  scriptQueue' = <<>> /\ scriptEvents' = <<>> /\ ~Ongoing'
  BY DEF Cleared
<1>1. CASE PanicClear
  <2>1. loading' = loading /\ panicGeneration' = panicGeneration + 1
        /\ scriptQueue' = <<>> /\ scriptEvents' = <<>>
    BY <1>1 DEF PanicClear, CountPanic, dispatcher
  <2>2. loading.gen \in Nat /\ panicGeneration \in Nat /\ loading.gen <= panicGeneration
    BY DEF TypeOK, PanicInvariant
  <2> QED
    BY <2>1, <2>2 DEF Ongoing
<1>2. CASE ~PanicClear
  <2>1. op.kind = "clearing" /\ op' = op
    <3>1. CASE Interface \/ PanicBegin
      BY <1>2, <3>1 DEF Interface, PanicBegin, PanicEnd, PanicTimesOut, QueueScriptEnd,
             QueueScriptTimesOut, Idle, Doing
    <3>2. CASE \E s \in Scripts : QueueScriptBegin(s)
      BY <3>2 DEF QueueScriptBegin, Doing
    <3>3. CASE (\E c \in Commands : QueueCommand(c)) \/ UNCHANGED vars
      BY <3>3 DEF QueueCommand, vars
    <3>4. CASE Dispatch
      <4>1. op' = op
        BY <3>4 DEF Dispatch, CheckLoaded, GiveWay, TakeScript, ReadFile, InstallScript,
               NextCommand, Perform, MutexTimesOut, GiveUp
      <4> QED
        BY <4>1
    <3> QED
      BY <3>1, <3>2, <3>3, <3>4 DEF Next
  <2>2. op # Idle
    BY <2>1 DEF Idle
  <2>3. CheckLoaded \/ GiveWay \/ ReadFile \/ Perform \/ MutexTimesOut \/ UNCHANGED vars
    BY <1>2, <2>1, <2>2 DEF Next, Interface, Dispatch, PanicBegin, PanicEnd, PanicTimesOut,
           QueueScriptBegin, QueueScriptEnd, QueueScriptTimesOut, QueueCommand, Request,
           TakeScript, InstallScript, NextCommand, MutexFree
  <2>4. /\ scriptQueue' = scriptQueue /\ scriptEvents' = scriptEvents
        /\ panicGeneration' = panicGeneration
        /\ \/ loading' = loading /\ (pc' \in {"read", "install"} => pc \in {"read", "install"})
           \/ pc' = "recheck"
    BY <2>3 DEF CheckLoaded, GiveWay, ReadFile, Perform, MutexTimesOut, GiveUp, shared, vars,
           dispatcher
  <2> QED
    BY <2>1, <2>4 DEF Cleared, Ongoing
<1> QED
  BY <1>1, <1>2

\* What waits, while nothing is being read.
LEMMA WaitsWithoutLoading == TypeOK /\ ~Ongoing => Waits = Through(Names, scriptQueue)
<1> SUFFICES ASSUME TypeOK, ~Ongoing PROVE Waits = Through(Names, scriptQueue)
  OBVIOUS
<1>1. Begun = <<>>
  BY DEF Begun
<1>2. \A s \in Seq(Scripts) : <<>> \o s = s
  OBVIOUS
<1> QED
  BY <1>1, <1>2, PlayerState

LEMMA WaitsWithLoading ==
  ASSUME TypeOK, Ongoing
  PROVE  /\ Waits = <<loading.id>> \o Through(Names, scriptQueue)
         /\ Waits # <<>> /\ Head(Waits) = loading.id
         /\ Tail(Waits) = Through(Names, scriptQueue)
<1>1. Begun = <<loading.id>> /\ loading.id \in Scripts
  BY DEF Begun, Ongoing, TypeOK
<1>2. \A x \in Scripts : \A s \in Seq(Scripts) :
         <<x>> \o s # <<>> /\ Head(<<x>> \o s) = x /\ Tail(<<x>> \o s) = s
  OBVIOUS
<1> QED
  BY <1>1, <1>2, PlayerState

LEMMA ThroughNothing == \A f : Through(f, <<>>) = <<>>
BY DEF Through

LEMMA WaitsKept ==
  ASSUME UNCHANGED <<scriptQueue, loading, Ongoing>>
  PROVE  Waits' = Waits
BY DEF Waits, Begun

LEMMA PlaysKept ==
  ASSUME UNCHANGED scriptEvents
  PROVE  Plays' = Plays
BY DEF Plays

\* loadNextScript has nothing to begin, or passes over the script it has taken.
LEMMA GiveUpMaps ==
  ASSUME TypeOK, TypeOK', pc \in {"load", "take", "read", "install"},
         pc' = "recheck", scriptLoaded' \in {scriptLoaded, FALSE},
         UNCHANGED <<scriptQueue, scriptEvents, panicGeneration, op>>
  PROVE  PlayerStep
<1>1. Choosing /\ Choosing' = FALSE /\ Panicking' = Panicking /\ ~Ongoing'
  BY DEF Choosing, Panicking, Ongoing
<1>2. Waits' = Through(Names, scriptQueue)
  <2>1. (TypeOK /\ ~Ongoing => Waits = Through(Names, scriptQueue))'
    BY WaitsWithoutLoading, PTL
  <2> QED
    BY <1>1, <2>1 DEF Names
<1>3. Waits' = Waits \/ (Waits # <<>> /\ Waits' = Tail(Waits))
  BY <1>2, WaitsWithLoading, WaitsWithoutLoading
<1> QED
  BY <1>1, <1>3, PlaysKept, PlayerBeginsNothing

LEMMA TimeOutWhileLoadingMaps ==
  ASSUME TypeOK, TypeOK', pc \in {"load", "take", "read", "install"}, GiveUp
  PROVE  PlayerStep
BY GiveUpMaps DEF GiveUp

\* A panic.
LEMMA PanicMaps ==
  ASSUME TypeOK, PanicInvariant, Cleared,
         PanicBegin \/ PanicClear \/ PanicEnd \/ PanicTimesOut
  PROVE  PlayerStep
<1>1. CASE PanicBegin
  <2>1. ~Panicking /\ Panicking' /\ ~scriptLoaded' /\ scriptLoaded' \in BOOLEAN
    BY <1>1 DEF PanicBegin, Request, Idle, Doing, Panicking
  <2>2. UNCHANGED <<Waits, Plays, Choosing>>
    BY <1>1, WaitsKept, PlaysKept DEF PanicBegin, dispatcher, Ongoing, Choosing
  <2> QED
    BY <2>1, <2>2, PlayerIsAskedToStop
<1>2. CASE PanicClear
  <2>1. /\ Panicking /\ UNCHANGED <<scriptLoaded, Choosing, Panicking>>
        /\ scriptQueue' = <<>> /\ scriptEvents' = <<>>
        /\ loading' = loading /\ panicGeneration' = panicGeneration + 1
    BY <1>2 DEF PanicClear, CountPanic, dispatcher, Panicking, Choosing, Doing
  <2>2. loading.gen \in Nat /\ panicGeneration \in Nat /\ loading.gen <= panicGeneration
    BY DEF TypeOK, PanicInvariant
  <2>3. ~Ongoing'
    BY <2>1, <2>2 DEF Ongoing
  <2>4. Waits' = <<>> /\ Plays' = <<>>
    <3>1. Begun' = <<>>
      BY <2>3 DEF Begun
    <3>2. Waits' = <<>> \o <<>>
      BY <2>1, <3>1 DEF Waits
    <3> QED
      BY <2>1, <3>2 DEF Plays
  <2> QED
    BY <2>1, <2>4, PlayerClears
<1>3. CASE PanicEnd
  <2>1. Panicking /\ ~Panicking' /\ scriptLoaded' = FALSE
    BY <1>3 DEF PanicEnd, Unloaded, Idle, Panicking
  <2>2. scriptQueue = <<>> /\ scriptEvents = <<>> /\ ~Ongoing
    BY <1>3 DEF PanicEnd, Cleared
  <2>3. Waits = <<>> /\ Plays = <<>>
    BY <2>2, WaitsWithoutLoading, ThroughNothing DEF Plays
  <2>4. UNCHANGED <<Waits, Plays, Choosing>>
    BY <1>3, WaitsKept, PlaysKept DEF PanicEnd, dispatcher, Ongoing, Choosing
  <2> QED
    BY <2>1, <2>3, <2>4, PlayerStops
<1>4. CASE PanicTimesOut
  <2>1. Timeouts /\ Panicking' = FALSE /\ UNCHANGED scriptLoaded
    BY <1>4 DEF PanicTimesOut, Idle, Panicking, shared
  <2>2. UNCHANGED <<Waits, Plays, Choosing>>
    BY <1>4, WaitsKept, PlaysKept DEF PanicTimesOut, shared, dispatcher, Ongoing, Choosing
  <2> QED
    BY <2>1, <2>2, PlayerRunsOut
<1> QED
  BY <1>1, <1>2, <1>3, <1>4

\* queueScript accepts a script, or the queue is full.
LEMMA QueueScriptMaps ==
  ASSUME TypeOK, TypeOK', QueueScriptEnd
  PROVE  PlayerStep
<1>1. /\ UNCHANGED <<Plays, scriptLoaded, Choosing, Panicking, Begun>> /\ op.id \in Scripts
      /\ Ongoing' = Ongoing
  BY PlaysKept DEF QueueScriptEnd, Idle, Panicking, Choosing, Ongoing, Begun, TypeOK, dispatcher
<1>2. CASE Len(scriptQueue) < Capacity
  <2> DEFINE x == [id |-> op.id, at |-> stops]
             q == Through(Names, scriptQueue)
  <2>1. x \in Queued /\ Names[x] = op.id /\ scriptQueue' = Append(scriptQueue, x)
    BY <1>1, <1>2 DEF Queued, Names, QueueScriptEnd, Push, TypeOK
  <2>2. scriptQueue \in Seq(Queued) /\ Begun \in Seq(Scripts) /\ q \in Seq(Scripts)
        /\ Waits = Begun \o q
    BY PlayerState
  <2>3. Through(Names, scriptQueue') = Append(q, op.id)
    BY <2>1, <2>2, ThroughAppend
  <2>4. Waits' = Begun \o Append(q, op.id)
    <3>1. scriptQueue' \in Seq(Queued)
      BY DEF TypeOK, Queued
    <3>2. [i \in DOMAIN scriptQueue' |-> scriptQueue'[i].id] = Append(q, op.id)
      BY <2>3, <3>1, NamesOfQueue
    <3> QED
      BY <1>1, <3>2 DEF Waits
  <2> HIDE DEF q
  <2>5. Begun \o Append(q, op.id) = Append(Begun \o q, op.id)
    BY <1>1, <2>2
  <2> QED
    BY <1>1, <2>2, <2>4, <2>5, PlayerAccepts
<1>3. CASE ~(Len(scriptQueue) < Capacity)
  <2>1. Waits' = Waits
    BY <1>1, <1>3 DEF QueueScriptEnd, Push, Waits
  <2> QED
    BY <1>1, <2>1, PlayerRests
<1> QED
  BY <1>2, <1>3

\* queueCommand puts a command before what is left.
LEMMA QueueCommandMaps ==
  ASSUME TypeOK, TypeOK', NEW c \in Commands, QueueCommand(c)
  PROVE  PlayerStep
<1> DEFINE x == [id |-> c, k |-> 1, at |-> stops]
<1>1. x \in EventType /\ Places[x] = <<c, 1>> /\ scriptEvents' = <<x>> \o scriptEvents
  BY DEF EventType, Ids, Places, QueueCommand, TypeOK
<1>2. scriptEvents \in Seq(EventType) /\ scriptEvents' \in Seq(EventType)
      /\ Plays = Through(Places, scriptEvents)
  BY PlayerState DEF TypeOK
<1>3. Plays' = Through(Places, scriptEvents')
  BY <1>2, PlacesOfEvents DEF Plays
<1> HIDE DEF x
<1>4. Plays' = <<<<c, 1>>>> \o Plays
  <2>1. Through(Places, <<x>> \o scriptEvents) = <<Places[x]>> \o Through(Places, scriptEvents)
    BY <1>1, <1>2, ThroughPrepend
  <2> QED
    BY <1>1, <1>2, <1>3, <2>1
<1>5. UNCHANGED <<Waits, Choosing, Panicking>> /\ scriptLoaded' = TRUE
  BY WaitsKept DEF QueueCommand, dispatcher, Ongoing, Choosing, Panicking
<1> QED
  BY <1>4, <1>5, PlayerInserts

\* What loadNextScript takes waits until its events are installed.
LEMMA TakeScriptMaps ==
  ASSUME TypeOK, TypeOK', TakeScript
  PROVE  PlayerStep
<1>1. CASE scriptQueue = <<>>
  BY <1>1, TimeOutWhileLoadingMaps DEF TakeScript
<1>2. CASE scriptQueue # <<>>
  <2>1. /\ UNCHANGED <<Plays, scriptLoaded, Choosing, Panicking>> /\ ~Ongoing /\ Ongoing'
        /\ scriptQueue' = Tail(scriptQueue) /\ loading'.id = Head(scriptQueue).id
    BY <1>2, PlaysKept DEF TakeScript, Choosing, Panicking, Ongoing
  <2>2. scriptQueue \in Seq(Queued) /\ scriptQueue' \in Seq(Queued)
    BY DEF TypeOK, Queued
  <2>3. Waits = Through(Names, scriptQueue)
    BY <2>1, WaitsWithoutLoading
  <2>4. Waits' = <<Head(scriptQueue).id>> \o Through(Names, Tail(scriptQueue))
    BY <2>1, <2>2, NamesOfQueue DEF Waits, Begun
  <2>5. Names[Head(scriptQueue)] = Head(scriptQueue).id
    BY <1>2, <2>2 DEF Names
  <2>6. Waits = Waits'
    <3>1. Through(Names, scriptQueue)
            = <<Names[Head(scriptQueue)]>> \o Through(Names, Tail(scriptQueue))
      BY <1>2, <2>2, ThroughTail
    <3> QED
      BY <2>3, <2>4, <2>5, <3>1
  <2> QED
    BY <2>1, <2>6, PlayerRests
<1> QED
  BY <1>1, <1>2

LEMMA ListOf ==
  ASSUME NEW n \in Nat, NEW e, DOMAIN e = 1 .. n, e = [i \in DOMAIN e |-> e[i]]
  PROVE  e # <<>> <=> n # 0
<1>1. e \in Seq({e[i] : i \in 1 .. n}) /\ Len(e) = n
  OBVIOUS
<1> QED
  BY <1>1

\* A script is begun whole, or passed over if a panic came between.
LEMMA InstallScriptMaps ==
  ASSUME TypeOK, TypeOK', InstallScript
  PROVE  PlayerStep
<1>1. CASE StillWanted
  <2>1. Ongoing /\ ~Ongoing' /\ Choosing /\ Choosing' = FALSE /\ UNCHANGED Panicking
        /\ scriptQueue' = scriptQueue /\ loading.id \in Scripts
    BY <1>1 DEF InstallScript, StillWanted, Ongoing, Choosing, Panicking, TypeOK
  <2> DEFINE s == loading.id
             e == [k \in 1 .. Length[s] |-> [id |-> s, k |-> k]]
  <2>2. /\ scriptEvents' = [i \in DOMAIN e |-> [id |-> e[i].id, k |-> e[i].k, at |-> loading.at]]
        /\ scriptLoaded' = (e # <<>>)
    BY <1>1 DEF InstallScript, EventsOf
  <2>3. DOMAIN scriptEvents' = 1 .. Length[s]
        /\ \A i \in 1 .. Length[s] : scriptEvents'[i].id = s /\ scriptEvents'[i].k = i
    BY <2>2
  <2>4. Plays' = Player!Events(s)
    BY <2>3 DEF Plays, Player!Events
  <2>5. (e # <<>>) = (Player!Events(s) # <<>>)
    <3>1. Length[s] \in Nat
      BY <2>1, ControllerAssumption
    <3>2. e # <<>> <=> Length[s] # 0
      BY <3>1, ListOf
    <3>3. Player!Events(s) # <<>> <=> Length[s] # 0
      BY <3>1, ListOf DEF Player!Events
    <3> QED
      BY <3>2, <3>3
  <2>6. Waits # <<>> /\ Head(Waits) = s /\ Tail(Waits) = Through(Names, scriptQueue)
    BY <2>1, WaitsWithLoading
  <2>7. Waits' = Tail(Waits)
    <3>1. (TypeOK /\ ~Ongoing => Waits = Through(Names, scriptQueue))'
      BY WaitsWithoutLoading, PTL
    <3> QED
      BY <2>1, <2>6, <3>1 DEF Names
  <2> HIDE DEF e
  <2>8. Plays' = Player!Events(Head(Waits)) /\ scriptLoaded' = (Plays' # <<>>)
    BY <2>2, <2>4, <2>5, <2>6
  <2> QED
    BY <2>1, <2>6, <2>7, <2>8, PlayerStarts
<1>2. CASE ~StillWanted
  BY <1>2, GiveUpMaps DEF InstallScript
<1> QED
  BY <1>1, <1>2

\* The events of what is begun are taken one by one; a NONE command is no event.
LEMMA NextCommandMaps ==
  ASSUME TypeOK, TypeOK', LoadedMeansEvents, NextCommand
  PROVE  PlayerStep
<1>1. UNCHANGED <<Waits, Choosing, Panicking>> /\ ~Choosing
  BY WaitsKept DEF NextCommand, Choosing, Panicking, Ongoing
<1>2. CASE scriptEvents = <<>>
  <2>1. scriptLoaded' = scriptLoaded /\ scriptEvents' = scriptEvents
    BY <1>2 DEF NextCommand, LoadedMeansEvents, MutexFree, TypeOK
  <2> QED
    BY <1>1, <2>1, PlaysKept, PlayerRests
<1>3. CASE scriptEvents # <<>>
  <2>1. scriptEvents' = Tail(scriptEvents) /\ scriptEvents \in Seq(EventType)
        /\ scriptLoaded' = (scriptLoaded /\ scriptEvents' # <<>>)
        /\ scriptEvents' \in Seq(EventType)
    BY <1>3 DEF NextCommand, TypeOK
  <2>2. Plays = Through(Places, scriptEvents) /\ Plays' = Through(Places, scriptEvents')
    BY <2>1, PlacesOfEvents DEF Plays
  <2>3. Plays # <<>> /\ Plays' = Tail(Plays)
    BY <1>3, <2>1, <2>2, ThroughTail
  <2>4. Plays' # <<>> <=> scriptEvents' # <<>>
    <3>1. Len(Through(Places, scriptEvents')) = Len(scriptEvents')
          /\ Through(Places, scriptEvents') \in Seq(Ids \X Nat)
      BY <2>1, PlacesType, ThroughType, ThroughElements
    <3>2. \A S : \A q \in Seq(S) : q # <<>> <=> Len(q) # 0
      OBVIOUS
    <3>3. scriptEvents' # <<>> <=> Len(scriptEvents') # 0
      BY <2>1, <3>2
    <3> QED
      BY <2>2, <3>1, <3>2, <3>3
  <2> QED
    BY <1>1, <2>1, <2>3, <2>4, PlayerPlays
<1> QED
  BY <1>2, <1>3

\* The steps that only the controller sees.
LEMMA OtherStepsMap ==
  ASSUME TypeOK, TypeOK',
         \/ \E s \in Scripts : QueueScriptBegin(s)
         \/ QueueScriptTimesOut \/ CheckLoaded \/ GiveWay \/ ReadFile
         \/ Perform \/ MutexTimesOut \/ UNCHANGED vars
  PROVE  PlayerStep
<1>1. ASSUME NEW s \in Scripts, QueueScriptBegin(s) PROVE PlayerStep
  <2>1. UNCHANGED <<Choosing, Panicking, scriptLoaded, Waits, Plays>>
    BY <1>1, WaitsKept, PlaysKept DEF QueueScriptBegin, Request, Idle, Doing, dispatcher,
           Choosing, Panicking, Ongoing
  <2> QED
    BY <2>1, PlayerRests
<1>2. CASE QueueScriptTimesOut
  <2>1. UNCHANGED <<Choosing, Panicking, scriptLoaded, Waits, Plays>>
    BY <1>2, WaitsKept, PlaysKept DEF QueueScriptTimesOut, Idle, dispatcher, Choosing,
           Panicking, Ongoing
  <2> QED
    BY <2>1, PlayerRests
<1>3. CASE CheckLoaded
  <2>1. UNCHANGED <<Panicking, scriptLoaded, Waits, Plays>> /\ ~Choosing
    BY <1>3, WaitsKept, PlaysKept DEF CheckLoaded, shared, Choosing, Panicking, Ongoing
  <2>2. CASE pc = "check" /\ ~scriptLoaded
    <3>1. Choosing'
      BY <1>3, <2>2 DEF CheckLoaded, Choosing
    <3> QED
      BY <2>1, <2>2, <3>1, PlayerChooses
  <2>3. CASE ~(pc = "check" /\ ~scriptLoaded)
    <3>1. ~Choosing'
      BY <1>3, <2>3 DEF CheckLoaded, Choosing
    <3> QED
      BY <2>1, <3>1, PlayerRests DEF Choosing
  <2> QED
    BY <2>2, <2>3
<1>4. CASE (GiveWay /\ ~queueing) \/ (ReadFile /\ ~GiveUp)
  <2>1. UNCHANGED <<Choosing, Panicking, scriptLoaded, Waits, Plays>>
    BY <1>4, WaitsKept, PlaysKept DEF GiveWay, ReadFile, shared, Choosing, Panicking, Ongoing
  <2> QED
    BY <2>1, PlayerRests
<1>5. CASE (GiveWay /\ queueing) \/ (ReadFile /\ GiveUp) \/ (MutexTimesOut /\ pc # "next")
  BY <1>5, TimeOutWhileLoadingMaps DEF GiveWay, ReadFile, MutexTimesOut
<1>6. CASE Perform
  <2>1. UNCHANGED <<Choosing, Panicking, scriptLoaded, Waits, Plays>>
    BY <1>6, WaitsKept, PlaysKept DEF Perform, shared, Choosing, Panicking, Ongoing
  <2> QED
    BY <2>1, PlayerRests
<1>7. CASE MutexTimesOut /\ pc = "next"
  <2>1. UNCHANGED <<Choosing, Panicking, Waits, Plays>> /\ Timeouts /\ scriptLoaded' = FALSE
    BY <1>7, WaitsKept, PlaysKept DEF MutexTimesOut, Choosing, Panicking, Ongoing
  <2> QED
    BY <2>1, PlayerRunsOut
<1>8. CASE UNCHANGED vars
  <2>1. UNCHANGED <<Choosing, Panicking, scriptLoaded, Waits, Plays>>
    BY <1>8, WaitsKept, PlaysKept DEF vars, shared, dispatcher, Choosing, Panicking, Ongoing
  <2> QED
    BY <2>1, PlayerRests
<1> QED
  BY <1>1, <1>2, <1>3, <1>4, <1>5, <1>6, <1>7, <1>8

\* Every step of the controller is a step of the player, or none.
LEMMA PlayerSimulated ==
  TypeOK /\ TypeOK' /\ PanicInvariant /\ LoadedMeansEvents /\ Cleared /\ [Next]_vars
    => [Player!Next]_(Player!vars)
<1> SUFFICES ASSUME TypeOK, TypeOK', PanicInvariant, LoadedMeansEvents, Cleared, [Next]_vars
             PROVE  PlayerStep
  BY DEF PlayerStep
<1>1. ASSUME NEW c \in Commands, QueueCommand(c) PROVE PlayerStep
  BY <1>1, QueueCommandMaps
<1> QED
  BY <1>1, PanicMaps, QueueScriptMaps, TakeScriptMaps, InstallScriptMaps, NextCommandMaps,
     OtherStepsMap DEF Next, Interface, Dispatch

LEMMA PlayerInit == Init => Player!Init
<1> SUFFICES ASSUME Init PROVE Player!Init
  OBVIOUS
<1>1. /\ scriptQueue = <<>> /\ scriptEvents = <<>> /\ ~scriptLoaded /\ scriptLoaded = FALSE
      /\ pc = "check" /\ op.kind = "idle"
  BY DEF Init, Idle
<1>2. ~Ongoing /\ ~Panicking
  BY <1>1 DEF Ongoing, Panicking
<1>3. [i \in DOMAIN scriptQueue |-> scriptQueue[i].id] = <<>>
      /\ [i \in DOMAIN scriptEvents |-> <<scriptEvents[i].id, scriptEvents[i].k>>] = <<>>
  BY <1>1
<1> QED
  BY <1>1, <1>2, <1>3 DEF Player!Init

(* The controller plays its scripts whole, in order and once, whatever the *)
(* commands, panics, unreadable files and waits that run out in between.   *)
THEOREM ControllerImplementsPlayer == Spec => ImplementsPlayer
<1>1. Init => Cleared
  BY DEF Init, Cleared, Idle
<1>2. Spec => []Cleared
  BY <1>1, ClearedStep, TypeCorrect, PanicInvariantHolds, PTL DEF Spec
<1> QED
  BY <1>2, PlayerInit, PlayerSimulated, TypeCorrect, PanicInvariantHolds, LoadedAlwaysMeansEvents, PTL
     DEF Spec, ImplementsPlayer, Player!Spec

=============================================================================
