------------------------- MODULE AnimationController -------------------------
(***************************************************************************)
(* lib/AnimationController with the two tasks that use it: the interface   *)
(* task, which queues scripts and commands and stops everything in a       *)
(* panic, and animationDispatchTask, which takes the next event and hands  *)
(* it to the servo, serial, I2C or GPIO queue.                             *)
(*                                                                         *)
(* animationMutex guards the script queue and the event list; the flags    *)
(* scriptLoaded and queueing and panicGeneration are atomics that are also *)
(* read and written outside it.  A critical section is one action, except  *)
(* panicStop's, whose generation and whose flag a dispatcher without the   *)
(* mutex can see apart.                                                    *)
(*                                                                         *)
(* scriptEvents is kept in the order of dispatch: its head is the back of  *)
(* the code's reversed vector.  The delays between events are left out.    *)
(*                                                                         *)
(* at, in the queue and in the events, is history: how many panics had     *)
(* been carried out when the script or command was accepted.               *)
(***************************************************************************)
EXTENDS Integers, Sequences

CONSTANTS
  Scripts,
  Length,       \* the number of events of each script
  Commands,     \* ids of single commands
  Capacity,     \* QUEUE_CAPACITY
  Timeouts,     \* whether a wait for the mutex may time out
  MaxRequests   \* bound: panics, scripts and commands asked for

ASSUME ControllerAssumption ==
  /\ Length \in [Scripts -> Nat]
  /\ Scripts \cap Commands = {}
  /\ Capacity \in Nat \ {0}
  /\ Timeouts \in BOOLEAN
  /\ MaxRequests \in Nat

VARIABLES
  scriptQueue, scriptEvents, scriptLoaded, queueing, panicGeneration,
  op,        \* what the interface task is in the middle of
  pc,        \* where animationDispatchTask is
  loading,   \* the script it has taken from the queue, with genBeforeIO
  inHand,    \* the event it has taken and not yet handed over
  asked, stops

shared == <<scriptQueue, scriptEvents, scriptLoaded, queueing, panicGeneration>>
dispatcher == <<pc, loading, inHand>>
history == <<asked, stops>>
vars == <<shared, op, dispatcher, history>>

Nothing == [id |-> "none", k |-> 0, at |-> 0]
NotLoading == [id |-> "none", gen |-> 0, at |-> 0]
Idle == [kind |-> "idle", id |-> "none"]
Doing(kind, id) == [kind |-> kind, id |-> id]

Init ==
  /\ scriptQueue = <<>> /\ scriptEvents = <<>>
  /\ scriptLoaded = FALSE /\ queueing = FALSE /\ panicGeneration = 0
  /\ op = Idle
  /\ pc = "check" /\ loading = NotLoading /\ inHand = Nothing
  /\ asked = 0 /\ stops = 0

-----------------------------------------------------------------------------
(* The interface task.                                                      *)

Request ==
  /\ op = Idle
  /\ asked < MaxRequests
  /\ asked' = asked + 1

\* panicStop lowers the flag before it has the mutex.
PanicBegin ==
  /\ Request
  /\ op' = Doing("panic", "none")
  /\ scriptLoaded' = FALSE
  /\ UNCHANGED <<scriptQueue, scriptEvents, queueing, panicGeneration, dispatcher, stops>>

\* Mutant: the generation is not counted up.
CountPanicNot == UNCHANGED panicGeneration

CountPanic == panicGeneration' = panicGeneration + 1

PanicClear ==
  /\ op.kind = "panic"
  /\ op' = Doing("clearing", "none")
  /\ CountPanic
  /\ scriptQueue' = <<>> /\ scriptEvents' = <<>>
  /\ stops' = stops + 1
  /\ UNCHANGED <<scriptLoaded, queueing, dispatcher, asked>>

\* Mutant: the flag lowered before the wait for the mutex is thought to be enough.
UnloadedBefore == UNCHANGED scriptLoaded

Unloaded == scriptLoaded' = FALSE

PanicEnd ==
  /\ op.kind = "clearing"
  /\ op' = Idle
  /\ Unloaded
  /\ UNCHANGED <<scriptQueue, scriptEvents, queueing, panicGeneration, dispatcher, history>>

PanicTimesOut ==
  /\ Timeouts
  /\ op.kind = "panic"
  /\ op' = Idle
  /\ UNCHANGED <<shared, dispatcher, history>>

QueueScriptBegin(s) ==
  /\ Request
  /\ op' = Doing("script", s)
  /\ queueing' = TRUE
  /\ UNCHANGED <<scriptQueue, scriptEvents, scriptLoaded, panicGeneration, dispatcher, stops>>

\* Mutant: a full queue is not noticed.
PushUnbounded(q, s) == Append(q, [id |-> s, at |-> stops])

\* ScriptQueue::push refuses when the ring is full.
Push(q, s) == IF Len(q) < Capacity THEN Append(q, [id |-> s, at |-> stops]) ELSE q

\* Mutant: the flag stays up when the queue is full.
DoneQueueingIfPushed == queueing' = (Len(scriptQueue) = Capacity)

DoneQueueing == queueing' = FALSE

QueueScriptEnd ==
  /\ op.kind = "script"
  /\ op' = Idle
  /\ scriptQueue' = Push(scriptQueue, op.id)
  /\ DoneQueueing
  /\ UNCHANGED <<scriptEvents, scriptLoaded, panicGeneration, dispatcher, history>>

QueueScriptTimesOut ==
  /\ Timeouts
  /\ op.kind = "script"
  /\ op' = Idle
  /\ queueing' = FALSE
  /\ UNCHANGED <<scriptQueue, scriptEvents, scriptLoaded, panicGeneration, dispatcher, history>>

\* queueCommand: the command goes before whatever is left of a script.
QueueCommand(c) ==
  /\ Request
  /\ scriptEvents' = <<[id |-> c, k |-> 1, at |-> stops]>> \o scriptEvents
  /\ scriptLoaded' = TRUE
  /\ UNCHANGED <<op, scriptQueue, queueing, panicGeneration, dispatcher, stops>>

-----------------------------------------------------------------------------
(* animationDispatchTask.                                                   *)

MutexFree == op.kind # "clearing"

\* scriptIsLoaded, before and after loadNextScript.
CheckLoaded ==
  /\ pc \in {"check", "recheck"}
  /\ pc' = IF scriptLoaded THEN "next" ELSE IF pc = "check" THEN "load" ELSE "check"
  /\ UNCHANGED <<shared, op, loading, inHand, history>>

\* loadNextScript gives up, and leaves the flag down.
GiveUp ==
  /\ scriptLoaded' = FALSE
  /\ pc' = "recheck"
  /\ loading' = NotLoading
  /\ UNCHANGED <<scriptQueue, scriptEvents, queueing, panicGeneration, op, inHand, history>>

GiveWay ==
  /\ pc = "load"
  /\ IF queueing THEN GiveUp
     ELSE pc' = "take" /\ UNCHANGED <<shared, op, loading, inHand, history>>

TakeScript ==
  /\ pc = "take" /\ MutexFree
  /\ IF scriptQueue = <<>> THEN GiveUp
     ELSE /\ loading' = [id |-> Head(scriptQueue).id, gen |-> panicGeneration,
                         at |-> Head(scriptQueue).at]
          /\ scriptQueue' = Tail(scriptQueue)
          /\ pc' = "read"
          /\ UNCHANGED <<scriptEvents, scriptLoaded, queueing, panicGeneration, op, inHand, history>>

\* The file is read without the mutex.
ReadFile ==
  /\ pc = "read"
  /\ \/ GiveUp
     \/ pc' = "install" /\ UNCHANGED <<shared, op, loading, inHand, history>>

\* Mutant: the generation is not compared after the file has been read.
StillWantedAlways == TRUE

StillWanted == loading.gen = panicGeneration

\* Mutant: the events are not turned round for dispatch from the back.
EventsBackwards(s) == [k \in 1 .. Length[s] |-> [id |-> s, k |-> Length[s] + 1 - k]]

\* parseAnimationScript.
EventsOf(s) == [k \in 1 .. Length[s] |-> [id |-> s, k |-> k]]

InstallScript ==
  /\ pc = "install" /\ MutexFree
  /\ pc' = "recheck"
  /\ loading' = NotLoading
  /\ IF StillWanted
     THEN LET events == EventsOf(loading.id) IN
          /\ scriptEvents' = [i \in DOMAIN events |->
                [id |-> events[i].id, k |-> events[i].k, at |-> loading.at]]
          /\ scriptLoaded' = (events # <<>>)
     ELSE UNCHANGED <<scriptEvents, scriptLoaded>>
  /\ UNCHANGED <<scriptQueue, queueing, panicGeneration, op, inHand, history>>

\* getNextCommandPtr: from an empty list it makes up a NONE command.
NextCommand ==
  /\ pc = "next" /\ MutexFree
  /\ pc' = "perform"
  /\ IF scriptEvents = <<>>
     THEN inHand' = Nothing /\ scriptLoaded' = FALSE /\ UNCHANGED scriptEvents
     ELSE /\ inHand' = Head(scriptEvents)
          /\ scriptEvents' = Tail(scriptEvents)
          /\ scriptLoaded' = (scriptLoaded /\ Tail(scriptEvents) # <<>>)
  /\ UNCHANGED <<scriptQueue, queueing, panicGeneration, op, loading, history>>

Perform ==
  /\ pc = "perform"
  /\ pc' = "check"
  /\ inHand' = Nothing
  /\ UNCHANGED <<shared, op, loading, history>>

\* A wait of five seconds for the mutex: no load, and no next command.
MutexTimesOut ==
  /\ Timeouts
  /\ \/ pc \in {"take", "install"} /\ GiveUp
     \/ /\ pc = "next"
        /\ pc' = "check"
        /\ scriptLoaded' = FALSE
        /\ UNCHANGED <<scriptQueue, scriptEvents, queueing, panicGeneration, op, loading, inHand, history>>

Interface ==
  \/ PanicClear \/ PanicEnd \/ PanicTimesOut
  \/ QueueScriptEnd \/ QueueScriptTimesOut

Dispatch ==
  \/ CheckLoaded \/ GiveWay \/ TakeScript \/ ReadFile
  \/ InstallScript \/ NextCommand \/ Perform \/ MutexTimesOut

Next ==
  \/ PanicBegin
  \/ \E s \in Scripts : QueueScriptBegin(s)
  \/ \E c \in Commands : QueueCommand(c)
  \/ Interface \/ Dispatch

Spec == Init /\ [][Next]_vars

\* Both tasks run, and the dispatcher's wait for a mutex that is held for
\* milliseconds does not run out every time; nothing obliges anyone to ask.
FairSpec == Spec /\ WF_vars(Interface) /\ WF_vars(Dispatch) /\ SF_vars(TakeScript)

-----------------------------------------------------------------------------
Ids == Scripts \cup Commands \cup {"none"}
EventType == [id : Ids, k : Nat, at : Nat]

\* Type invariant.
TypeOK ==
  /\ scriptQueue \in Seq([id : Scripts, at : Nat]) /\ Len(scriptQueue) <= Capacity
  /\ scriptEvents \in Seq(EventType)
  /\ scriptLoaded \in BOOLEAN /\ queueing \in BOOLEAN
  /\ panicGeneration \in Nat
  /\ op \in [kind : {"idle", "panic", "clearing", "script"}, id : Ids]
  /\ pc \in {"check", "load", "take", "read", "install", "recheck", "next", "perform"}
  /\ loading \in [id : Scripts \cup {"none"}, gen : Nat, at : Nat]
  /\ pc \in {"read", "install"} => loading.id \in Scripts
  /\ op.kind = "script" => op.id \in Scripts
  /\ inHand \in EventType
  /\ asked \in Nat /\ stops \in Nat

Panicking == op.kind \in {"panic", "clearing"}

Ongoing == pc \in {"read", "install"} /\ loading.gen = panicGeneration

Recent(s) == \A i \in DOMAIN s : s[i].at = stops

\* Inductive invariant behind PanicHalts: all that is queued, listed, or being
\* read under the current generation was asked for after the last panic.
PanicInvariant ==
  /\ loading.gen <= panicGeneration
  /\ Recent(scriptQueue) /\ Recent(scriptEvents)
  /\ Ongoing => loading.at = stops

\* Once panicStop has had the mutex no event is taken that was asked for before,
\* whether it was waiting in the queue, in the event list, or was being read
\* from its file while the panic was carried out.
PanicHalts ==
  [][pc = "next" /\ pc' = "perform" /\ inHand'.id # "none" => inHand'.at = stops]_vars

\* The flag promises an event, except to a dispatcher that looks at it in the
\* middle of a panic.
LoadedMeansEvents == scriptLoaded /\ op.kind # "clearing" => scriptEvents # <<>>

\* Every script accepted is begun or passed over, unless a panic clears it, and
\* the controller falls idle, whatever waits for the mutex run out.
PlaylistDrains == <>[](scriptQueue = <<>> /\ ~scriptLoaded)

Player == INSTANCE ScriptPlayer WITH
  playlist <- (IF Ongoing THEN <<loading.id>> ELSE <<>>)
              \o [i \in DOMAIN scriptQueue |-> scriptQueue[i].id],
  playing <- [i \in DOMAIN scriptEvents |-> <<scriptEvents[i].id, scriptEvents[i].k>>],
  on <- scriptLoaded,
  choosing <- pc \in {"load", "take", "read", "install"},
  stopping <- Panicking

\* The controller plays its scripts whole, in order and once, and only looks for
\* the next one while its flag is down: with commands that come at any moment,
\* panics, unreadable files and waits that run out.
ImplementsPlayer == Player!Spec

-----------------------------------------------------------------------------
(* What the acceptance tests of the source expect, and the code does not    *)
(* always keep.                                                             *)

\* "Padawan executes it": an accepted command leaves the event list by being
\* taken or in a panic, never in favour of a script.
CommandIsNotDropped ==
  [][\A i \in DOMAIN scriptEvents :
       scriptEvents[i].id \in Commands /\ pc # "next" /\ ~Panicking
         => \E j \in DOMAIN scriptEvents' : scriptEvents'[j] = scriptEvents[i]]_vars
=============================================================================
