---------------------------- MODULE PacketTracker ----------------------------
(***************************************************************************)
(* How a command of the master that is too long for one ESP-NOW frame      *)
(* reaches a padawan: generatePackets cuts it up, the link carries the     *)
(* packets, and PacketTracker puts them together again under the random id *)
(* they share.  Nothing is acknowledged or sent again at this level, and a *)
(* partial message is dropped a second after its last new packet, at the   *)
(* next packet of any message.                                             *)
(*                                                                         *)
(* The ids come from rand(), which nothing seeds: within one life of the   *)
(* master no two messages share one, but a later life may draw an id that  *)
(* an earlier one used.  All the messages are sent by one task, so that    *)
(* the packets of two messages do not alternate on the link, which keeps   *)
(* their order but loses some and, when the acknowledgement of the radio   *)
(* is lost, carries one twice in a row.                                    *)
(***************************************************************************)
EXTENDS Integers, Sequences

CONSTANTS
  Ids,                     \* the ids of messages
  NoId,                    \* no id: the message of the initial state
  PACKET_EXPIRATION_TIME,  \* 1000 ms
  ClockMax,                \* the largest int, 2^31 - 1 ms
  MaxLives,                \* bound: lives of the master
  MaxPackets,              \* bound: packets of a message
  LinkLength,              \* bound: packets on their way
  MaxTicks,                \* bound: how long the padawan runs
  MaxTroubles              \* bound: packets lost or carried twice, padawan restarts

ASSUME TrackerAssumption ==
  /\ NoId \notin Ids
  /\ PACKET_EXPIRATION_TIME \in Nat /\ ClockMax \in Nat
  /\ PACKET_EXPIRATION_TIME <= ClockMax
  /\ MaxLives \in Nat \ {0} /\ MaxPackets \in Nat \ {0}
  /\ LinkLength \in Nat /\ MaxTicks \in Nat /\ MaxTroubles \in Nat

VARIABLES
  life,                 \* which life the master is in
  sent,                 \* the messages sent so far
  link,                 \* packets on their way, in the padawan's espnowQueue included
  packetMap,            \* the packets stored for each id, as they came; <<>> for none
  packetExpirationMap,  \* nowMs when the last of them was stored; 0 for none
  ticks,                \* time since the padawan started, which nowMs shows a window of
  handed,               \* history: what extractPayload returned, in order
  arriving,             \* history: the message arriving in time, how much of it and when
  troubles              \* what went wrong so far

tracker == <<packetMap, packetExpirationMap>>
vars == <<life, sent, link, tracker, ticks, handed, arriving, troubles>>

-----------------------------------------------------------------------------
(* Messages, packets and the clock.                                         *)

Messages == [life : 1 .. MaxLives, id : Ids, total : 1 .. MaxPackets]
NoMessage == [life |-> 0, id |-> NoId, total |-> 0]
PacketsOf(m) == [k \in 1 .. m.total |-> [msg |-> m, number |-> k]]
AllPackets == [msg : Messages, number : 1 .. MaxPackets]
Handed == {handed[i] : i \in DOMAIN handed}

\* More than one life of the master has used this id.
Reused(id) == \E m, n \in sent : m.id = id /\ n.id = id /\ m.life # n.life

\* nowMs: esp_timer_get_time() / 1000 as an int.
AsInt(t) == ((t + ClockMax + 1) % (2 * ClockMax + 2)) - (ClockMax + 1)
nowMs == AsInt(ticks)

\* A packet stored at this time has an expiration beyond the largest int.
Overflows(second) == second + PACKET_EXPIRATION_TIME > ClockMax

\* expireMessages.  The overflowing sum is undefined: it wraps, and is in the past, or
\* the comparison is made without it.
Expired(second, wraps) ==
  \/ second > nowMs
  \/ IF Overflows(second) THEN wraps ELSE second + PACKET_EXPIRATION_TIME < nowMs

\* What expireMessages leaves of the maps m and e.
Kept(m, e, wraps) == [id \in Ids |-> IF Expired(e[id], wraps) THEN <<>> ELSE m[id]]
KeptTimes(m, e, wraps) ==
  [id \in Ids |-> IF m[id] = <<>> \/ Expired(e[id], wraps) THEN 0 ELSE e[id]]

-----------------------------------------------------------------------------
(* The master.                                                              *)

\* sendBasicCommand: every packet of the message, one after the other.
Send(id, total) ==
  /\ \A m \in sent : m.life = life => m.id # id
  /\ Len(link) + total <= LinkLength
  /\ LET m == [life |-> life, id |-> id, total |-> total]
     IN  /\ sent' = sent \cup {m}
         /\ link' = link \o PacketsOf(m)
  /\ UNCHANGED <<life, tracker, ticks, handed, arriving, troubles>>

\* The master restarts, and rand() with it; what it sent is on its way.
RestartMaster ==
  /\ life < MaxLives
  /\ life' = life + 1
  /\ UNCHANGED <<sent, link, tracker, ticks, handed, arriving, troubles>>

-----------------------------------------------------------------------------
(* The link.                                                                *)

Trouble == troubles < MaxTroubles /\ troubles' = troubles + 1

\* esp_now_send fails, the air or a full queue loses the packet.
Lose ==
  /\ link # <<>> /\ Trouble
  /\ link' = Tail(link)
  /\ UNCHANGED <<life, sent, tracker, ticks, handed, arriving>>

\* The next packet arrives, for good or with a second copy behind it.
Arrives(again) ==
  /\ link # <<>>
  /\ IF again THEN Trouble /\ UNCHANGED link
     ELSE link' = Tail(link) /\ UNCHANGED troubles

\* History: packet p arrived.  The message counts as arriving in time for as long as its
\* packets come one by one, each of them and its copy a second after the last new one at
\* most, and neither the clock nor an expiration runs over.
Noted(p) ==
  LET known == arriving.msg = p.msg
      copy == known /\ p.number <= arriving.upTo
      inTime == arriving.at <= nowMs /\ nowMs <= arriving.at + PACKET_EXPIRATION_TIME
      next == \/ ~known /\ p.number = 1
              \/ known /\ arriving.upTo > 0 /\ p.number = arriving.upTo + 1 /\ inTime
  IN  IF copy /\ inTime THEN arriving
      ELSE IF ~copy /\ next /\ ~Overflows(nowMs)
      THEN [msg |-> p.msg, upTo |-> p.number, at |-> nowMs]
      ELSE [msg |-> p.msg, upTo |-> 0, at |-> 0]

-----------------------------------------------------------------------------
(* The padawan.                                                             *)

\* extractPayload of a message of one packet: the tracker is not asked.
ReceiveSingle(again) ==
  /\ Arrives(again)
  /\ Head(link).msg.total = 1
  /\ handed' = Append(handed, <<Head(link)>>)
  /\ UNCHANGED <<life, sent, tracker, ticks, arriving>>

\* Mutant: a packet is stored whether or not its number is there.
NeverExists(p) == FALSE

\* PACKET_EXISTS: the number is stored under this id, for whichever message.
PacketExists(p) == \E i \in DOMAIN packetMap[p.msg.id] : packetMap[p.msg.id][i].number = p.number

ReceiveDuplicate(again, wraps) ==
  /\ Arrives(again)
  /\ LET p == Head(link)
     IN  /\ p.msg.total > 1 /\ PacketExists(p)
         /\ arriving' = Noted(p)
  /\ packetMap' = Kept(packetMap, packetExpirationMap, wraps)
  /\ packetExpirationMap' = KeptTimes(packetMap, packetExpirationMap, wraps)
  /\ UNCHANGED <<life, sent, ticks, handed>>

\* Mutant: a message lives for a second from its first packet.
StampedOnce(id) == [packetExpirationMap EXCEPT ![id] = IF packetMap[id] = <<>> THEN nowMs ELSE @]

\* A new packet gives its message another second.
Stamped(id) == [packetExpirationMap EXCEPT ![id] = nowMs]

\* A new packet is stored at the end and everything late is expired, itself included
\* when its own expiration overflows; the message is complete when as many packets are
\* stored as this packet says, and getMessage hands them on in the order they came.
ReceivePacket(again, wraps) ==
  /\ Arrives(again)
  /\ LET p == Head(link)
         id == p.msg.id
         stored == [packetMap EXCEPT ![id] = Append(@, p)]
         times == Stamped(id)
         kept == Kept(stored, times, wraps)
         keptTimes == KeptTimes(stored, times, wraps)
         complete == Len(kept[id]) = p.msg.total
     IN  /\ p.msg.total > 1 /\ ~PacketExists(p)
         /\ arriving' = Noted(p)
         /\ handed' = IF complete THEN Append(handed, kept[id]) ELSE handed
         /\ packetMap' = IF complete THEN [kept EXCEPT ![id] = <<>>] ELSE kept
         /\ packetExpirationMap' = IF complete THEN [keptTimes EXCEPT ![id] = 0] ELSE keptTimes
  /\ UNCHANGED <<life, sent, ticks>>

RestartPadawan ==
  /\ Trouble
  /\ packetMap' = [id \in Ids |-> <<>>]
  /\ packetExpirationMap' = [id \in Ids |-> 0]
  /\ ticks' = 0
  /\ arriving' = [arriving EXCEPT !.upTo = 0, !.at = 0]
  /\ UNCHANGED <<life, sent, link, handed>>

Tick ==
  /\ ticks < MaxTicks
  /\ ticks' = ticks + 1
  /\ UNCHANGED <<life, sent, link, tracker, handed, arriving, troubles>>

-----------------------------------------------------------------------------
Init ==
  /\ life = 1 /\ sent = {} /\ link = <<>>
  /\ packetMap = [id \in Ids |-> <<>>]
  /\ packetExpirationMap = [id \in Ids |-> 0]
  /\ ticks = 0 /\ handed = <<>>
  /\ arriving = [msg |-> NoMessage, upTo |-> 0, at |-> 0]
  /\ troubles = 0

Receive ==
  \E again \in BOOLEAN :
    \/ ReceiveSingle(again)
    \/ \E wraps \in BOOLEAN : ReceiveDuplicate(again, wraps) \/ ReceivePacket(again, wraps)

Next ==
  \/ \E id \in Ids, total \in 1 .. MaxPackets : Send(id, total)
  \/ RestartMaster \/ Lose \/ Receive \/ RestartPadawan \/ Tick

Spec == Init /\ [][Next]_vars

-----------------------------------------------------------------------------
TypeOK ==
  /\ life \in 1 .. MaxLives /\ sent \subseteq Messages
  /\ link \in Seq(AllPackets)
  /\ packetMap \in [Ids -> Seq(AllPackets)] /\ packetExpirationMap \in [Ids -> Int]
  /\ ticks \in 0 .. MaxTicks /\ troubles \in 0 .. MaxTroubles
  /\ handed \in Seq(Seq(AllPackets))
  /\ arriving \in [msg : Messages \cup {NoMessage}, upTo : 0 .. MaxPackets, at : Int]

\* What is handed on is a whole message in its order, and a message of several packets
\* is handed on once, however packets are lost, carried twice or expire in between:
\* getMessage joins the packets as they came and extractPayload counts them only.
\* Packets of two messages are joined only when two lives of the master used one id.
OfOneMessage(h) == \A i, j \in DOMAIN h : h[i].msg = h[j].msg

DeliveredWhole ==
  \A n \in DOMAIN handed :
    LET h == handed[n]
        m == h[1].msg
    IN  IF OfOneMessage(h)
        THEN /\ h = PacketsOf(m)
             /\ m.total > 1 => \A k \in DOMAIN handed : handed[k] = h => k = n
        ELSE Reused(m.id)

\* A message whose packets all arrive, each within a second of the one before, is
\* handed on, whatever of other messages is stored or expired meanwhile: expireMessages
\* drops what is late and nothing else.  Not promised for an id used before, nor in
\* the last second before nowMs runs over, when packets may be dropped as they come.
PunctualIsDelivered ==
  LET m == arriving.msg
  IN  arriving.upTo > 0 /\ arriving.upTo = m.total /\ ~Reused(m.id) => PacketsOf(m) \in Handed
=============================================================================
