---------------------------- MODULE PeerRegistry ----------------------------
(***************************************************************************)
(* How a padawan becomes a peer of the master, how both remember it in     *)
(* flash, and how the master's polls tell the server who is there.         *)
(*                                                                         *)
(* In discovery mode a padawan broadcasts REGISTRATION_REQ, the master     *)
(* answers REGISTRATION with a name, the padawan stores its master and     *)
(* answers REGISTRATION_ACK, and the master lists it.  Out of discovery    *)
(* the master's timer alternates POLL_PADAWANS and EXPIRE_POLLS.  Nodes    *)
(* lose power at any moment, between two writes to flash too, frames are   *)
(* lost, and a long press of the button erases a node's registration.      *)
(*                                                                         *)
(* A broadcast is put in the queue of the only node that acts on it: the   *)
(* others drop it for its role or its MAC.  Pauses of the polls during a   *)
(* firmware transfer are the business of OtaDeploy.                        *)
(***************************************************************************)
EXTENDS Naturals, Sequences

CONSTANTS
  Master, Padawans,
  Away,          \* padawans registered before, in that order, and out of reach since
  NoMac,         \* the address 00:00:00:00:00:00 a missing key is loaded as
  PeerLimit,     \* ESPNOW_PEER_LIMIT
  NameCount,     \* the names the master has to give
  QueueLength,   \* espnowQueue
  MaxTroubles    \* bound: frames lost, power cuts and long presses, in all

Listed(s) == {s[i] : i \in DOMAIN s}

Nodes == Padawans \cup {Master}
Macs == Nodes \cup {NoMac}

ASSUME RegistryAssumption ==
  /\ Master \notin Padawans /\ NoMac \notin Nodes
  /\ Away \in Seq(Padawans) /\ Len(Away) <= PeerLimit
  /\ \A i, j \in DOMAIN Away : Away[i] = Away[j] => i = j
  /\ PeerLimit \in Nat \ {0} /\ NameCount \in Nat /\ QueueLength \in Nat \ {0}
  /\ MaxTroubles \in Nat

VARIABLES
  on,         \* the nodes that have power
  discovery,  \* the nodes in discovery mode
  knows,      \* the padawans whose masterMac is the master's
  list,       \* PeerList of each node, as a sequence of addresses
  driver,     \* the peers each node's ESP-NOW driver has
  acked,      \* the listed peers whose pollAckThisCycle is set
  polling,    \* main.cpp's flag: a POLL was sent and is to be expired
  queue,      \* espnowQueue of each node
  todo,       \* what is left of the handler each node is in
  flash,      \* the "config" namespace of each node's NVS
  wiping,     \* the nodes whose button task is inside clearServiceConfig
  view,       \* what the server was last told of each padawan
  troubles,   \* what went wrong so far
  erased      \* history: padawans that erased their registration and have stored none since

radio == <<discovery, knows, list, driver, acked, polling>>
bounds == <<troubles, erased>>
vars == <<on, radio, queue, todo, flash, wiping, view, bounds>>

-----------------------------------------------------------------------------
(* Flash.                                                                   *)

\* The keys that hold s, and nothing in the others.
Keys(s) == [i \in 1 .. PeerLimit |-> IF i \in DOMAIN s THEN s[i] ELSE NoMac]

\* nvsLoadEspNowPeerConfigs: a key that is not there is loaded as zeros.
Stored(f) == [i \in 1 .. f.count |-> IF i \in 1 .. PeerLimit THEN f.key[i] ELSE NoMac]

\* init hands the stored peers to the driver one by one and gives up at the first
\* one the driver already has or the list has no room for.  Loadable are the numbers
\* of peers it can take one after the other.
Loadable(s) ==
  {n \in 0 .. Len(s) : n <= PeerLimit /\ \A i, j \in 1 .. n : s[i] = s[j] => i = j}

\* nvsSaveEspNowPeer: the count first, then the key of the peer's id.
SaveCount(f) == [f EXCEPT !.count = f.count + 1]
SaveKey(f, s) == [f EXCEPT !.key = [f.key EXCEPT ![Len(s)] = s[Len(s)]]]

SaveMaster(f) == [f EXCEPT !.master = TRUE]

\* nvsClearServiceConfig: the master first, then the peers and their count.
EraseMaster(f) == [f EXCEPT !.master = FALSE]
ErasePeers(f) ==
  [f EXCEPT !.count = 0, !.key = [i \in 1 .. PeerLimit |-> IF i <= f.count THEN NoMac ELSE f.key[i]]]

-----------------------------------------------------------------------------
(* Frames and the queue they arrive in.                                     *)

Post(q, n, m) == IF n \in on /\ Len(q[n]) < QueueLength THEN [q EXCEPT ![n] = Append(@, m)] ELSE q

Frame(kind, from) == [kind |-> kind, from |-> from, named |-> TRUE]

Broadcasts == {"REGISTRATION_REQ", "REGISTRATION"}
Events == {"SEND_REGISTRATION_REQ", "POLL_PADAWANS", "EXPIRE_POLLS"}

\* The polling timer waits 250 ms for room in a queue the task empties every 10 ms,
\* and what it posted 2 s before has been taken.
TimerPosts(n) ==
  /\ Len(queue[n]) < QueueLength
  /\ \A m \in Listed(queue[n]) : m.kind \notin Events

\* The node's espnowQueueTask is between two messages and this one is next.
TakesNext(n, kind) ==
  /\ n \in on /\ todo[n] = <<>> /\ queue[n] # <<>>
  /\ Head(queue[n]).kind = kind

Rest(n) == [queue EXCEPT ![n] = Tail(@)]

\* Broadcasts count in discovery mode only, unicasts from the driver's peers only.
Accepts(n) ==
  IF Head(queue[n]).kind \in Broadcasts THEN n \in discovery
  ELSE Head(queue[n]).from \in driver[n]

Ignore(n) ==
  /\ n \in on /\ todo[n] = <<>> /\ queue[n] # <<>>
  /\ Head(queue[n]).kind \notin Events /\ ~Accepts(n)
  /\ queue' = Rest(n)
  /\ UNCHANGED <<on, radio, todo, flash, wiping, view, bounds>>

\* Mutant: a peer already listed is listed again.
CachedAgain(s, p) == IF Len(s) >= PeerLimit THEN s ELSE Append(s, p)

\* cachePeer: a peer already listed, or one too many, changes nothing; a new one is
\* listed and what is left is to save it.
Cached(s, p) == IF p \in Listed(s) \/ Len(s) >= PeerLimit THEN s ELSE Append(s, p)
Saving(s, p) == IF Cached(s, p) = s THEN <<>> ELSE <<"count", "key">>

-----------------------------------------------------------------------------
(* Registration.                                                            *)

\* The polling timer of a padawan in discovery mode, every 2 s: its last request has
\* been taken by the master, or lost.
AskTick(p) ==
  /\ p \in on /\ p \in discovery /\ TimerPosts(p)
  /\ Frame("REGISTRATION_REQ", p) \notin Listed(queue[Master])
  /\ queue' = Post(queue, p, Frame("SEND_REGISTRATION_REQ", p))
  /\ UNCHANGED <<on, radio, todo, flash, wiping, view, bounds>>

\* Leaving discovery mode is a command to the service queue, which may be full.
MayLeaveDiscovery(p) == discovery' \in {discovery, discovery \ {p}}

SendRegistrationRequest(p) ==
  /\ TakesNext(p, "SEND_REGISTRATION_REQ")
  /\ IF p \in knows
     THEN queue' = Rest(p) /\ MayLeaveDiscovery(p)
     ELSE /\ queue' = Post(Rest(p), Master, Frame("REGISTRATION_REQ", p))
          /\ UNCHANGED discovery
  /\ UNCHANGED <<on, knows, list, driver, acked, polling, todo, flash, wiping, view, bounds>>

HandleRegistrationReq ==
  /\ TakesNext(Master, "REGISTRATION_REQ") /\ Accepts(Master)
  /\ LET p == Head(queue[Master]).from
         named == p \in Listed(list[Master]) \/ Len(list[Master]) < NameCount IN
     /\ driver' = [driver EXCEPT ![Master] = @ \cup {p}]
     /\ queue' = Post(Rest(Master), p, [Frame("REGISTRATION", Master) EXCEPT !.named = named])
  /\ UNCHANGED <<on, discovery, knows, list, acked, polling, todo, flash, wiping, view, bounds>>

\* A REGISTRATION without a name is refused.
RefuseRegistration(p) ==
  /\ TakesNext(p, "REGISTRATION") /\ Accepts(p) /\ ~Head(queue[p]).named
  /\ queue' = Rest(p)
  /\ UNCHANGED <<on, radio, todo, flash, wiping, view, bounds>>

\* Mutant: the acknowledgement is sent before the master is in flash.
AfterRegistrationAckFirst(s) ==
  IF Cached(s, Master) = s THEN <<"ack", "master">> ELSE <<"ack", "count", "key", "master">>

\* What handleRegistration does after it has taken the name and the master.
AfterRegistration(s) ==
  IF Cached(s, Master) = s THEN <<"master", "ack">> ELSE <<"count", "key", "master", "ack">>

HandleRegistration(p) ==
  /\ TakesNext(p, "REGISTRATION") /\ Accepts(p) /\ Head(queue[p]).named
  /\ knows' = knows \cup {p}
  /\ driver' = [driver EXCEPT ![p] = @ \cup {Master}]
  /\ list' = [list EXCEPT ![p] = Cached(@, Master)]
  /\ todo' = [todo EXCEPT ![p] = AfterRegistration(list[p])]
  /\ queue' = Rest(p)
  /\ UNCHANGED <<on, discovery, acked, polling, flash, wiping, view, bounds>>

HandleRegistrationAck ==
  /\ TakesNext(Master, "REGISTRATION_ACK") /\ Accepts(Master)
  /\ LET p == Head(queue[Master]).from IN
     /\ list' = [list EXCEPT ![Master] = Cached(@, p)]
     /\ todo' = [todo EXCEPT ![Master] = Saving(list[Master], p)]
  /\ queue' = Rest(Master)
  /\ UNCHANGED <<on, discovery, knows, driver, acked, polling, flash, wiping, view, bounds>>

\* One write to flash, or the acknowledgement, of the handler a node is in.
Write(n) ==
  /\ n \in on /\ todo[n] # <<>> /\ Head(todo[n]) # "ack"
  /\ flash' = [flash EXCEPT ![n] =
                 CASE Head(todo[n]) = "count" -> SaveCount(@)
                   [] Head(todo[n]) = "key" -> SaveKey(@, list[n])
                   [] Head(todo[n]) = "master" -> SaveMaster(@)]
  /\ todo' = [todo EXCEPT ![n] = Tail(@)]
  /\ erased' = IF Head(todo[n]) = "master" THEN erased \ {n} ELSE erased
  /\ UNCHANGED <<on, radio, queue, wiping, view, troubles>>

SendRegistrationAck(p) ==
  /\ p \in on /\ todo[p] # <<>> /\ Head(todo[p]) = "ack"
  /\ queue' = Post(queue, Master, Frame("REGISTRATION_ACK", p))
  /\ MayLeaveDiscovery(p)
  /\ todo' = [todo EXCEPT ![p] = Tail(@)]
  /\ UNCHANGED <<on, knows, list, driver, acked, polling, flash, wiping, view, bounds>>

-----------------------------------------------------------------------------
(* Polls.                                                                   *)

\* Mutant: the flag is never turned, so nothing expires.
PollTickStuck ==
  /\ Master \in on /\ Master \notin discovery /\ TimerPosts(Master)
  /\ queue' = Post(queue, Master, Frame("POLL_PADAWANS", Master))
  /\ UNCHANGED <<on, radio, todo, flash, wiping, view, bounds>>

\* The polling timer of the master, every 2 s out of discovery mode.
PollTick ==
  /\ Master \in on /\ Master \notin discovery /\ TimerPosts(Master)
  /\ queue' = Post(queue, Master,
                   Frame(IF polling THEN "EXPIRE_POLLS" ELSE "POLL_PADAWANS", Master))
  /\ polling' = ~polling
  /\ UNCHANGED <<on, discovery, knows, list, driver, acked, todo, flash, wiping, view, bounds>>

\* Mutant: only the peers that answered last time are asked again.
PollPadawansOfLate ==
  /\ TakesNext(Master, "POLL_PADAWANS")
  /\ acked' = {}
  /\ queue' = [n \in Nodes |->
                 IF n = Master THEN Tail(queue[n])
                 ELSE IF n \in acked THEN Post(queue, n, Frame("POLL", Master))[n]
                 ELSE queue[n]]
  /\ UNCHANGED <<on, discovery, knows, list, driver, polling, todo, flash, wiping, view, bounds>>

PollPadawans ==
  /\ TakesNext(Master, "POLL_PADAWANS")
  /\ acked' = {}
  /\ queue' = [n \in Nodes |->
                 IF n = Master THEN Tail(queue[n])
                 ELSE IF n \in Listed(list[Master]) THEN Post(queue, n, Frame("POLL", Master))[n]
                 ELSE queue[n]]
  /\ UNCHANGED <<on, discovery, knows, list, driver, polling, todo, flash, wiping, view, bounds>>

HandlePoll(p) ==
  /\ TakesNext(p, "POLL") /\ Accepts(p)
  /\ queue' = IF p \in knows THEN Post(Rest(p), Master, Frame("POLL_ACK", p)) ELSE Rest(p)
  /\ UNCHANGED <<on, radio, todo, flash, wiping, view, bounds>>

HandlePollAck ==
  /\ TakesNext(Master, "POLL_ACK") /\ Accepts(Master)
  /\ LET p == Head(queue[Master]).from IN
     IF p \in Listed(list[Master])
     THEN acked' = acked \cup {p} /\ view' = [view EXCEPT ![p] = "ack"]
     ELSE UNCHANGED <<acked, view>>
  /\ queue' = Rest(Master)
  /\ UNCHANGED <<on, discovery, knows, list, driver, polling, todo, flash, wiping, bounds>>

PollResponseTimeExpired ==
  /\ TakesNext(Master, "EXPIRE_POLLS")
  /\ view' = [p \in Padawans |-> IF p \in Listed(list[Master]) \ acked THEN "nak" ELSE view[p]]
  /\ acked' = {}
  /\ queue' = Rest(Master)
  /\ UNCHANGED <<on, discovery, knows, list, driver, polling, todo, flash, wiping, bounds>>

-----------------------------------------------------------------------------
(* Power, buttons and the air.                                              *)

\* What a node is after its power is gone: its flash and nothing else.
Down(n) ==
  /\ discovery' = discovery \ {n}
  /\ knows' = knows \ {n}
  /\ list' = [list EXCEPT ![n] = <<>>]
  /\ driver' = [driver EXCEPT ![n] = {}]
  /\ queue' = [queue EXCEPT ![n] = <<>>]
  /\ todo' = [todo EXCEPT ![n] = <<>>]
  /\ wiping' = wiping \ {n}
  /\ IF n = Master THEN acked' = {} /\ polling' = FALSE ELSE UNCHANGED <<acked, polling>>

PowerOff(n) ==
  /\ n \in on /\ troubles < MaxTroubles
  /\ troubles' = troubles + 1
  /\ on' = on \ {n}
  /\ Down(n)
  /\ UNCHANGED <<flash, view, erased>>

\* nvsLoadEspNowPeerConfigs leaves pollAckThisCycle of the peers it loads unset.
Boot(n) ==
  /\ n \notin on \cup Listed(Away)
  /\ on' = on \cup {n}
  /\ LET s == Stored(flash[n]) IN
     \E k \in Loadable(s) :
       /\ k + 1 \notin Loadable(s)
       /\ list' = [list EXCEPT ![n] = SubSeq(s, 1, k)]
       /\ driver' = [driver EXCEPT ![n] = Listed(SubSeq(s, 1, k))]
  /\ knows' = IF flash[n].master THEN knows \cup {n} ELSE knows
  /\ IF n = Master THEN acked' \in SUBSET (Listed(list'[n]) \cap Padawans) ELSE UNCHANGED acked
  /\ UNCHANGED <<discovery, polling, queue, todo, flash, wiping, view, bounds>>

\* A press of medium length.
Press(n) ==
  /\ n \in on /\ n \notin wiping
  /\ discovery' = IF n \in discovery THEN discovery \ {n} ELSE discovery \cup {n}
  /\ UNCHANGED <<on, knows, list, driver, acked, polling, queue, todo, flash, wiping, view, bounds>>

\* A long press: the button task erases the registration, whatever the ESP-NOW task
\* is doing, and restarts the node.  Erasing the peers and restarting are one step: a
\* save that falls between the two is left out.
WipeMaster(n) ==
  /\ n \in on /\ n \notin wiping /\ troubles < MaxTroubles
  /\ troubles' = troubles + 1
  /\ wiping' = wiping \cup {n}
  /\ flash' = [flash EXCEPT ![n] = EraseMaster(@)]
  /\ erased' = erased \cup ({n} \cap Padawans)
  /\ UNCHANGED <<on, radio, queue, todo, view>>

WipePeers(n) ==
  /\ n \in wiping
  /\ flash' = [flash EXCEPT ![n] = ErasePeers(@)]
  /\ on' = on \ {n}
  /\ Down(n)
  /\ UNCHANGED <<view, bounds>>

Lose(n) ==
  /\ troubles < MaxTroubles
  /\ queue[n] # <<>> /\ Head(queue[n]).kind \notin Events
  /\ queue' = Rest(n)
  /\ troubles' = troubles + 1
  /\ UNCHANGED <<on, radio, todo, flash, wiping, view, erased>>

-----------------------------------------------------------------------------
Init ==
  /\ on = Nodes \ Listed(Away) /\ discovery = {} /\ knows = {}
  /\ list = [n \in Nodes |-> IF n = Master THEN Away ELSE <<>>]
  /\ driver = [n \in Nodes |-> IF n = Master THEN Listed(Away) ELSE {}]
  /\ acked = {} /\ polling = FALSE
  /\ queue = [n \in Nodes |-> <<>>] /\ todo = [n \in Nodes |-> <<>>]
  /\ flash = [n \in Nodes |-> LET known == IF n = Master THEN Away
                                           ELSE IF n \in Listed(Away) THEN <<Master>> ELSE <<>> IN
                              [master |-> n \in Listed(Away), count |-> Len(known), key |-> Keys(known)]]
  /\ wiping = {}
  /\ view = [p \in Padawans |-> "unknown"]
  /\ troubles = 0 /\ erased = {}

\* espnowQueueTask takes a message of the master, of a padawan.
MasterTask ==
  \/ HandleRegistrationReq \/ HandleRegistrationAck
  \/ PollPadawans \/ HandlePollAck \/ PollResponseTimeExpired

PadawanTask(p) ==
  \/ SendRegistrationRequest(p) \/ RefuseRegistration(p) \/ HandleRegistration(p)
  \/ SendRegistrationAck(p) \/ HandlePoll(p)

Task(n) ==
  \/ Ignore(n) \/ Write(n)
  \/ n = Master /\ MasterTask
  \/ n \in Padawans /\ PadawanTask(n)

World == \E n \in Nodes : PowerOff(n) \/ Boot(n) \/ Press(n) \/ WipeMaster(n) \/ WipePeers(n) \/ Lose(n)

Next ==
  \/ \E n \in Nodes : Task(n)
  \/ PollTick
  \/ \E p \in Padawans : AskTick(p)
  \/ World

Spec == Init /\ [][Next]_vars

\* Every ESP-NOW task is scheduled, a long press is carried out, and the master's
\* timer, which waits for room in the queue, gets it (hence SF); nothing obliges
\* anyone to switch a node on, to press its button or to lose a frame.
FairSpec ==
  /\ Spec
  /\ SF_vars(PollTick)
  /\ \A n \in Nodes : WF_vars(Task(n)) /\ WF_vars(WipePeers(n))

-----------------------------------------------------------------------------
FrameType ==
  [kind : {"REGISTRATION_REQ", "REGISTRATION_ACK", "POLL_ACK"}, from : Padawans, named : BOOLEAN]
    \cup [kind : {"REGISTRATION", "POLL"} \cup Events, from : Nodes, named : BOOLEAN]
FlashType == [master : BOOLEAN, count : Nat, key : [1 .. PeerLimit -> Macs]]

\* Type invariant.
TypeOK ==
  /\ on \subseteq Nodes /\ discovery \subseteq on /\ wiping \subseteq on
  /\ knows \subseteq Padawans \cap on /\ acked \subseteq Padawans
  /\ list \in [Nodes -> Seq(Macs)]
  /\ driver \in [Nodes -> SUBSET Macs]
  /\ polling \in BOOLEAN
  /\ queue \in [Nodes -> Seq(FrameType)]
  /\ todo \in [Nodes -> Seq({"count", "key", "master", "ack"})]
  /\ flash \in [Nodes -> FlashType]
  /\ view \in [Padawans -> {"unknown", "ack", "nak"}]
  /\ troubles \in 0 .. MaxTroubles /\ erased \subseteq Padawans

\* The master counts on nobody who has forgotten it: a padawan it lists, in its
\* memory or in its flash, or whose acknowledgement is on its way, has the master in
\* its flash, unless its own registration was erased and not renewed since.
RegistrationIsKept ==
  \A p \in Padawans :
    \/ p \in Listed(list[Master])
    \/ p \in Listed(Stored(flash[Master]))
    \/ \E m \in Listed(queue[Master]) : m.kind = "REGISTRATION_ACK" /\ m.from = p
    => flash[p].master \/ p \in erased

Gaps(f) == {i \in 1 .. f.count : Stored(f)[i] = NoMac}
AtMostOne(S) == \A x, y \in S : x = y

\* What a node lists is what it will list after its next restart, place by place,
\* whatever moment its power was cut at before; only a second save cut short makes
\* init give up.  And the driver can reach every peer listed.
StoredAsListed ==
  \A n \in on :
    /\ todo[n] = <<>> /\ AtMostOne(Gaps(flash[n])) => list[n] = Stored(flash[n])
    /\ Listed(list[n]) \subseteq driver[n]

\* The master polls, and lists p.
Polls(p) == Master \in on /\ Master \notin discovery /\ p \in Listed(list[Master])

\* A listed padawan that stays away is reported to the server in the end, in spite
\* of late answers, of lost frames and of flags no one set.
AbsenceIsReported ==
  \A p \in Padawans : <>[](Polls(p) /\ p \notin on) => <>[](view[p] = "nak")

\* A listed padawan that came back is not reported absent for ever: as long as it
\* knows the master, its answers reach the server again and again.
ReturnIsReported ==
  \A p \in Padawans :
    <>[](Polls(p) /\ p \in on /\ p \in knows /\ Master \in driver[p]) => []<>(view[p] = "ack")
=============================================================================
