------------------------ MODULE PacketTracker_proofs ------------------------
(***************************************************************************)
(* Proofs about PacketTracker: its types, that what is handed on is a      *)
(* whole message, and that a message that arrives in time is handed on,    *)
(* for any number of ids, packets, lives of the master, losses and ticks,  *)
(* and any clock.                                                          *)
(*                                                                         *)
(* That a message is whole when as many packets are stored as it has rests *)
(* on the order of the link: the numbers stored of one message climb by    *)
(* one at least (Climbing), so that as many as there are must be all.      *)
(* That it is handed on once rests on what is left of it: no more than     *)
(* copies of its last packet (LastOnly), of which no whole can be made.    *)
(*                                                                         *)
(* That it is handed on when it arrives in time rests on what the tracker  *)
(* holds of it at each step: all that has arrived and nothing else         *)
(* (ArrivingTracked), since what the link repeats it repeats at once       *)
(* (CopyIsHead).                                                           *)
(***************************************************************************)
EXTENDS PacketTracker, TLAPS

Genuine(p) == p.msg \in sent /\ p.number <= p.msg.total

Drawn ==
  /\ \A m \in sent : m.life <= life
  /\ \A m, n \in sent : m.life = n.life /\ m.id = n.id => m = n

LinkOrdered ==
  \A i \in DOMAIN link :
    /\ Genuine(link[i])
    /\ \A j \in DOMAIN link :
         i < j /\ link[i].msg = link[j].msg => link[i].number < link[j].number

StoredKeyed ==
  \A id \in Ids : \A i \in DOMAIN packetMap[id] :
    /\ Genuine(packetMap[id][i])
    /\ packetMap[id][i].msg.id = id /\ packetMap[id][i].msg.total > 1

StoredBehind ==
  \A id \in Ids : \A i \in DOMAIN packetMap[id], j \in DOMAIN link :
    packetMap[id][i].msg = link[j].msg => packetMap[id][i].number <= link[j].number

Climbs(s) ==
  OfOneMessage(s) => \A i, j \in DOMAIN s : i <= j => s[j].number - s[i].number >= j - i

Climbing == \A id \in Ids : Climbs(packetMap[id])

LastOnly(m) ==
  /\ \A j \in DOMAIN link : link[j].msg = m => link[j].number = m.total
  /\ \A id \in Ids : \A i \in DOMAIN packetMap[id] :
       packetMap[id][i].msg = m => packetMap[id][i].number = m.total

Sound(h) ==
  IF OfOneMessage(h)
  THEN /\ h[1].msg \in sent /\ h = PacketsOf(h[1].msg)
       /\ h[1].msg.total > 1 => LastOnly(h[1].msg)
  ELSE Reused(h[1].msg.id)

HandedSound == \A n \in DOMAIN handed : Sound(handed[n])

HandedOnce ==
  \A n, k \in DOMAIN handed :
    OfOneMessage(handed[n]) /\ handed[n][1].msg.total > 1 /\ handed[k] = handed[n] => k = n

TrackerInvariant ==
  /\ TypeOK /\ Drawn /\ LinkOrdered /\ StoredKeyed /\ StoredBehind /\ Climbing
  /\ HandedSound /\ HandedOnce

-----------------------------------------------------------------------------
(* The shapes of a step.                                                   *)

\* A packet is taken from the link, or a copy of it stays there.
LinkMoves == link' = link \/ (link # <<>> /\ link' = Tail(link))

Forgets(id) == packetMap'[id] = <<>> \/ packetMap'[id] = packetMap[id]

Taken(id) ==
  LET p == Head(link)
  IN  /\ link # <<>> /\ p.msg.total > 1 /\ ~PacketExists(p) /\ id = p.msg.id
      /\ packetMap'[id] = Append(packetMap[id], p)

Moves ==
  /\ LinkMoves /\ sent' = sent /\ life' \in Nat /\ life <= life'
  /\ \A id \in Ids : Forgets(id) \/ Taken(id)

\* Head(link) makes the message of its id whole.
Completes ==
  LET p == Head(link)
      s == packetMap[p.msg.id]
  IN  /\ link # <<>> /\ p.msg.total > 1 /\ ~PacketExists(p)
      /\ LinkMoves /\ sent' = sent
      /\ packetMap'[p.msg.id] = <<>>
      /\ \A id \in Ids : Forgets(id)
      /\ Len(Append(s, p)) = p.msg.total
      /\ handed' = Append(handed, Append(s, p))

LEMMA AppendFacts ==
  ASSUME NEW S, NEW s \in Seq(S), NEW x \in S
  PROVE  /\ Append(s, x) \in Seq(S)
         /\ Len(s) \in Nat /\ DOMAIN s = 1 .. Len(s)
         /\ Len(Append(s, x)) = Len(s) + 1
         /\ DOMAIN Append(s, x) = 1 .. Len(s) + 1
         /\ Append(s, x)[Len(s) + 1] = x
         /\ \A i \in 1 .. Len(s) : Append(s, x)[i] = s[i]
OBVIOUS

(* Where the packets on the link were before the step, and its head.       *)
LEMMA LinkShift ==
  ASSUME TypeOK, LinkMoves
  PROVE  \E d \in {0, 1} :
           \A j \in DOMAIN link' : j \in Nat \ {0} /\ j + d \in DOMAIN link /\ link'[j] = link[j + d]
<1>1. CASE link' = link
  <2>1. \A j \in DOMAIN link' : j \in Nat \ {0} /\ j + 0 \in DOMAIN link /\ link'[j] = link[j + 0]
    BY <1>1 DEF TypeOK
  <2> QED
    BY <2>1
<1>2. CASE link # <<>> /\ link' = Tail(link)
  <2>1. \A j \in DOMAIN link' : j \in Nat \ {0} /\ j + 1 \in DOMAIN link /\ link'[j] = link[j + 1]
    BY <1>2 DEF TypeOK
  <2> QED
    BY <2>1
<1> QED
  BY <1>1, <1>2 DEF LinkMoves

LEMMA HeadFacts ==
  ASSUME TypeOK, link # <<>>
  PROVE  /\ 1 \in DOMAIN link /\ Head(link) = link[1] /\ Head(link) \in AllPackets
         /\ Head(link).msg \in Messages /\ Head(link).msg.id \in Ids
         /\ Head(link).number \in Nat \ {0} /\ Head(link).msg.total \in Nat \ {0}
<1>1. 1 \in DOMAIN link /\ Head(link) = link[1] /\ Head(link) \in AllPackets
  BY DEF TypeOK
<1> QED
  BY <1>1, TrackerAssumption DEF AllPackets, Messages

(* Packets and their fields.                                               *)
LEMMA PacketFacts ==
  ASSUME NEW p \in AllPackets
  PROVE  /\ p.msg \in Messages /\ p.number \in Nat \ {0}
         /\ p.msg.total \in Nat \ {0} /\ p.msg.id \in Ids /\ p.msg.life \in Nat
         /\ p = [msg |-> p.msg, number |-> p.number]
BY TrackerAssumption DEF AllPackets, Messages

LEMMA StoredFacts ==
  ASSUME TypeOK
  PROVE  /\ \A id \in Ids : packetMap[id] \in Seq(AllPackets)
         /\ \A id \in Ids : \A i \in DOMAIN packetMap[id] : i \in Nat \ {0} /\ packetMap[id][i] \in AllPackets
         /\ \A j \in DOMAIN link : j \in Nat \ {0} /\ link[j] \in AllPackets
BY DEF TypeOK

-----------------------------------------------------------------------------
(* What a step does to the link and to the packets stored.                 *)

LEMMA LinkStaysOrdered ==
  ASSUME TypeOK, LinkOrdered, LinkMoves, sent' = sent
  PROVE  LinkOrdered'
<1>1. PICK d \in {0, 1} :
        \A j \in DOMAIN link' : j \in Nat \ {0} /\ j + d \in DOMAIN link /\ link'[j] = link[j + d]
  BY LinkShift
<1>2. \A i, j \in DOMAIN link' : i < j => i + d < j + d
  BY <1>1
<1> QED
  BY <1>1, <1>2 DEF LinkOrdered, Genuine

(* The head is the first of its message on the link.                       *)
LEMMA HeadIsFirst ==
  ASSUME TypeOK, LinkOrdered, link # <<>>, NEW j \in DOMAIN link, link[j].msg = Head(link).msg
  PROVE  Head(link).number <= link[j].number
<1>1. 1 \in DOMAIN link /\ Head(link) = link[1] /\ Head(link).number \in Nat
  BY HeadFacts
<1>2. j \in Nat \ {0}
  BY StoredFacts
<1>3. CASE j = 1
  BY <1>1, <1>3
<1>4. CASE j # 1
  <2>1. link[1].number < link[j].number
    BY <1>1, <1>2, <1>4 DEF LinkOrdered
  <2>2. link[j].number \in Nat
    BY StoredFacts, PacketFacts
  <2> QED
    BY <1>1, <2>1, <2>2
<1> QED
  BY <1>3, <1>4

(* A packet stored after the step was stored before or is the head.        *)
LEMMA StoredBefore ==
  ASSUME TypeOK, NEW id \in Ids, Forgets(id) \/ Taken(id), NEW i \in DOMAIN packetMap'[id]
  PROVE  \/ i \in DOMAIN packetMap[id] /\ packetMap'[id][i] = packetMap[id][i]
         \/ Taken(id) /\ i = Len(packetMap[id]) + 1 /\ packetMap'[id][i] = Head(link)
<1>1. packetMap[id] \in Seq(AllPackets)
  BY DEF TypeOK
<1>2. CASE Forgets(id)
  BY <1>2 DEF Forgets
<1>3. CASE Taken(id)
  <2>1. Head(link) \in AllPackets /\ packetMap'[id] = Append(packetMap[id], Head(link))
    BY <1>3, HeadFacts DEF Taken
  <2> QED
    BY <1>1, <1>3, <2>1, AppendFacts
<1> QED
  BY <1>2, <1>3

LEMMA StoredStaysKeyed ==
  ASSUME TypeOK, LinkOrdered, StoredKeyed, Moves
  PROVE  StoredKeyed'
<1> SUFFICES ASSUME NEW id \in Ids, NEW i \in DOMAIN packetMap'[id]
             PROVE  /\ packetMap'[id][i].msg \in sent
                    /\ packetMap'[id][i].number <= packetMap'[id][i].msg.total
                    /\ packetMap'[id][i].msg.id = id /\ packetMap'[id][i].msg.total > 1
  BY DEF StoredKeyed, Genuine, Moves
<1>1. CASE i \in DOMAIN packetMap[id] /\ packetMap'[id][i] = packetMap[id][i]
  BY <1>1 DEF StoredKeyed, Genuine
<1>2. CASE Taken(id) /\ packetMap'[id][i] = Head(link)
  <2>1. 1 \in DOMAIN link /\ Head(link) = link[1]
    BY <1>2, HeadFacts DEF Taken
  <2> QED
    BY <1>2, <2>1 DEF Taken, LinkOrdered, Genuine
<1> QED
  BY <1>1, <1>2, StoredBefore DEF Moves

LEMMA StoredStaysBehind ==
  ASSUME TypeOK, LinkOrdered, StoredBehind, Moves
  PROVE  StoredBehind'
<1> SUFFICES ASSUME NEW id \in Ids, NEW i \in DOMAIN packetMap'[id], NEW j \in DOMAIN link',
                    packetMap'[id][i].msg = link'[j].msg
             PROVE  packetMap'[id][i].number <= link'[j].number
  BY DEF StoredBehind
<1>1. PICK k \in DOMAIN link : link'[j] = link[k]
  BY LinkShift DEF Moves
<1>2. CASE i \in DOMAIN packetMap[id] /\ packetMap'[id][i] = packetMap[id][i]
  BY <1>1, <1>2 DEF StoredBehind
<1>3. CASE Taken(id) /\ packetMap'[id][i] = Head(link)
  BY <1>1, <1>3, HeadIsFirst DEF Taken
<1> QED
  BY <1>2, <1>3, StoredBefore DEF Moves

(* A packet that is not stored yet has a number above those stored of its  *)
(* message.                                                                *)
LEMMA HeadIsAbove ==
  ASSUME TypeOK, StoredBehind, link # <<>>, ~PacketExists(Head(link)),
         NEW i \in DOMAIN packetMap[Head(link).msg.id],
         packetMap[Head(link).msg.id][i].msg = Head(link).msg
  PROVE  packetMap[Head(link).msg.id][i].number < Head(link).number
<1> DEFINE p == Head(link)
           s == packetMap[p.msg.id]
<1>1. 1 \in DOMAIN link /\ p = link[1] /\ p.msg.id \in Ids /\ p.number \in Nat
  BY HeadFacts
<1>2. s[i].number \in Nat
  BY <1>1, StoredFacts, PacketFacts
<1>3. s[i].number <= p.number
  BY <1>1 DEF StoredBehind
<1>4. s[i].number # p.number
  BY DEF PacketExists
<1> QED
  BY <1>1, <1>2, <1>3, <1>4

LEMMA AppendClimbs ==
  ASSUME NEW s \in Seq(AllPackets), NEW p \in AllPackets, Climbs(s),
         \A i \in DOMAIN s : s[i].msg = p.msg => s[i].number < p.number
  PROVE  Climbs(Append(s, p))
<1> DEFINE n == Len(s)
<1>1. p.number \in Nat /\ \A i \in DOMAIN s : s[i].number \in Nat
  BY PacketFacts
<1>2. PICK a : a = Append(s, p)
  OBVIOUS
<1>3. /\ n \in Nat /\ DOMAIN s = 1 .. n /\ DOMAIN a = 1 .. n + 1
      /\ a[n + 1] = p /\ \A i \in 1 .. n : a[i] = s[i]
  BY <1>2, AppendFacts
<1> HIDE DEF n
<1> SUFFICES ASSUME OfOneMessage(a), NEW i \in 1 .. n + 1, NEW j \in 1 .. n + 1, i <= j
             PROVE  a[j].number - a[i].number >= j - i
  BY <1>2, <1>3 DEF Climbs
<1>4. ASSUME NEW k \in 1 .. n PROVE s[k].msg = p.msg
  <2>1. k \in DOMAIN a /\ n + 1 \in DOMAIN a
    BY <1>3
  <2>2. a[k].msg = a[n + 1].msg
    BY <2>1 DEF OfOneMessage
  <2> QED
    BY <1>3, <2>2
<1>5. OfOneMessage(s)
  BY <1>3, <1>4 DEF OfOneMessage
<1>6. \A k, l \in 1 .. n : k <= l => s[l].number - s[k].number >= l - k
  BY <1>3, <1>5 DEF Climbs
<1>7. CASE j <= n
  <2>1. i \in 1 .. n /\ j \in 1 .. n
    BY <1>3, <1>7
  <2> QED
    BY <1>3, <1>6, <2>1
<1>8. CASE i = n + 1
  <2>1. j = n + 1
    BY <1>3, <1>8
  <2> QED
    BY <1>1, <1>3, <1>8, <2>1
<1>9. CASE i <= n /\ j = n + 1
  <2>1. n \in 1 .. n /\ i \in 1 .. n
    BY <1>3, <1>9
  <2>2. s[n].number - s[i].number >= n - i
    BY <2>1, <1>3, <1>6
  <2>3. s[n].number < p.number
    BY <2>1, <1>3, <1>4
  <2>4. s[n].number \in Nat /\ s[i].number \in Nat
    BY <1>1, <1>3, <2>1
  <2>5. p.number - s[i].number >= n + 1 - i
    BY <1>1, <1>3, <2>2, <2>3, <2>4
  <2> QED
    BY <1>3, <1>9, <2>1, <2>5
<1> QED
  BY <1>3, <1>7, <1>8, <1>9

(* What is stored climbs on with a packet that is not stored yet.          *)
LEMMA ClimbsOn ==
  ASSUME TypeOK, StoredBehind, Climbing, link # <<>>, ~PacketExists(Head(link))
  PROVE  Climbs(Append(packetMap[Head(link).msg.id], Head(link)))
<1>1. Head(link) \in AllPackets /\ Head(link).msg.id \in Ids
  BY HeadFacts
<1>2. packetMap[Head(link).msg.id] \in Seq(AllPackets) /\ Climbs(packetMap[Head(link).msg.id])
  BY <1>1, StoredFacts DEF Climbing
<1> QED
  BY <1>1, <1>2, HeadIsAbove, AppendClimbs

LEMMA StoredStaysClimbing ==
  ASSUME TypeOK, StoredBehind, Climbing, Moves
  PROVE  Climbing'
<1> SUFFICES ASSUME NEW id \in Ids PROVE Climbs(packetMap'[id])
  BY DEF Climbing, Climbs, OfOneMessage
<1>1. CASE packetMap'[id] = <<>>
  BY <1>1 DEF Climbs
<1>2. CASE packetMap'[id] = packetMap[id]
  BY <1>2 DEF Climbing
<1>3. CASE Taken(id)
  BY <1>3, ClimbsOn DEF Taken
<1> QED
  BY <1>1, <1>2, <1>3 DEF Moves, Forgets

LEMMA StaysLastOnly ==
  ASSUME TypeOK, LinkOrdered, Moves, NEW m, LastOnly(m)
  PROVE  LastOnly(m)'
<1>1. ASSUME NEW j \in DOMAIN link', link'[j].msg = m PROVE link'[j].number = m.total
  <2>1. PICK k \in DOMAIN link : link'[j] = link[k]
    BY LinkShift DEF Moves
  <2> QED
    BY <1>1, <2>1 DEF LastOnly
<1>2. ASSUME NEW id \in Ids, NEW i \in DOMAIN packetMap'[id], packetMap'[id][i].msg = m
      PROVE  packetMap'[id][i].number = m.total
  <2>1. CASE i \in DOMAIN packetMap[id] /\ packetMap'[id][i] = packetMap[id][i]
    BY <1>2, <2>1 DEF LastOnly
  <2>2. CASE Taken(id) /\ packetMap'[id][i] = Head(link)
    <3>1. 1 \in DOMAIN link /\ Head(link) = link[1]
      BY <2>2, HeadFacts DEF Taken
    <3> QED
      BY <1>2, <2>2, <3>1 DEF LastOnly
  <2> QED
    BY <2>1, <2>2, StoredBefore DEF Moves
<1> QED
  BY <1>1, <1>2 DEF LastOnly

-----------------------------------------------------------------------------
(* What is handed on.                                                      *)

LEMMA SoundStays ==
  ASSUME NEW h, Sound(h), sent \subseteq sent',
         \A m \in sent : LastOnly(m) => LastOnly(m)'
  PROVE  Sound(h)'
<1>1. CASE OfOneMessage(h)
  BY <1>1 DEF Sound, OfOneMessage, PacketsOf
<1>2. CASE ~OfOneMessage(h)
  <2>1. Reused(h[1].msg.id)
    BY <1>2 DEF Sound
  <2>2. Reused(h[1].msg.id)'
    BY <2>1 DEF Reused
  <2> QED
    BY <1>2, <2>2 DEF Sound, OfOneMessage
<1> QED
  BY <1>1, <1>2

(* Nothing new is handed on.                                               *)
LEMMA HandedStays ==
  ASSUME HandedSound, HandedOnce, handed' = handed, sent \subseteq sent',
         \A m \in sent : LastOnly(m) => LastOnly(m)'
  PROVE  HandedSound' /\ HandedOnce'
<1>1. HandedSound'
  BY SoundStays DEF HandedSound
<1>2. HandedOnce'
  BY DEF HandedOnce, OfOneMessage
<1> QED
  BY <1>1, <1>2

(* One more is handed on, sound and unlike the ones before it.             *)
LEMMA HandedGrows ==
  ASSUME TypeOK, HandedSound, HandedOnce, sent \subseteq sent',
         \A m \in sent : LastOnly(m) => LastOnly(m)',
         NEW h \in Seq(AllPackets), handed' = Append(handed, h), Sound(h)',
         OfOneMessage(h) /\ h[1].msg.total > 1 => \A n \in DOMAIN handed : handed[n] # h
  PROVE  HandedSound' /\ HandedOnce'
<1>1. handed \in Seq(Seq(AllPackets))
  BY DEF TypeOK
<1>2. /\ Len(handed) \in Nat /\ DOMAIN handed = 1 .. Len(handed)
      /\ DOMAIN handed' = 1 .. Len(handed) + 1 /\ handed'[Len(handed) + 1] = h
      /\ \A n \in 1 .. Len(handed) : handed'[n] = handed[n]
  BY <1>1, AppendFacts
<1>3. HandedSound'
  <2> SUFFICES ASSUME NEW n \in DOMAIN handed' PROVE Sound(handed[n])'
    BY DEF HandedSound
  <2>1. CASE n \in DOMAIN handed
    <3>1. Sound(handed[n])
      BY <2>1 DEF HandedSound
    <3>2. PICK g : g = handed[n]
      OBVIOUS
    <3>3. Sound(g)'
      BY <3>1, <3>2, SoundStays
    <3>4. handed'[n] = g
      BY <1>2, <2>1, <3>2
    <3> QED
      BY <3>3, <3>4 DEF Sound, LastOnly, Reused
  <2>2. CASE n = Len(handed) + 1
    <3>1. handed'[n] = h
      BY <1>2, <2>2
    <3> QED
      BY <3>1 DEF Sound, LastOnly, Reused
  <2> QED
    BY <1>2, <2>1, <2>2
<1>4. HandedOnce'
  <2> SUFFICES ASSUME NEW n \in DOMAIN handed', NEW k \in DOMAIN handed',
                      OfOneMessage(handed'[n]), handed'[n][1].msg.total > 1, handed'[k] = handed'[n]
               PROVE  k = n
    BY DEF HandedOnce, OfOneMessage
  <2>1. CASE n \in DOMAIN handed /\ k \in DOMAIN handed
    BY <1>2, <2>1 DEF HandedOnce
  <2>2. CASE n = Len(handed) + 1 /\ k \in DOMAIN handed
    BY <1>2, <2>2
  <2>3. CASE n \in DOMAIN handed /\ k = Len(handed) + 1
    BY <1>2, <2>3
  <2> QED
    BY <1>2, <2>1, <2>2, <2>3
<1> QED
  BY <1>3, <1>4

LEMMA WholeFacts ==
  ASSUME NEW m \in Messages
  PROVE  /\ m.total \in 1 .. m.total /\ 1 \in 1 .. m.total
         /\ \A k \in 1 .. m.total : PacketsOf(m)[k].number = k
<1>1. m.total \in Nat \ {0}
  BY TrackerAssumption DEF Messages
<1>2. m.total \in 1 .. m.total /\ 1 \in 1 .. m.total
  BY <1>1
<1>3. \A k \in 1 .. m.total : PacketsOf(m)[k].number = k
  BY DEF PacketsOf
<1> QED
  BY <1>2, <1>3

(* As many packets as a message has, their numbers climbing, are the whole *)
(* message.                                                                *)
LEMMA ClimbingIsWhole ==
  ASSUME NEW a \in Seq(AllPackets), NEW m \in Messages, Climbs(a), Len(a) = m.total,
         \A i \in DOMAIN a : a[i].msg = m /\ a[i].number <= m.total
  PROVE  a = PacketsOf(m)
<1>1. PICK t \in Nat \ {0} : t = m.total
  BY TrackerAssumption DEF Messages
<1>2. /\ DOMAIN a = 1 .. t
      /\ \A i \in 1 .. t : a[i] \in AllPackets /\ a[i].msg = m /\ a[i].number <= t
  BY <1>1
<1>3. \A i \in 1 .. t : a[i].number \in Nat \ {0}
  BY <1>2, PacketFacts
<1>4. \A i, j \in 1 .. t : i <= j => a[j].number - a[i].number >= j - i
  BY <1>2 DEF Climbs, OfOneMessage
<1>5. ASSUME NEW i \in 1 .. t PROVE a[i] = [msg |-> m, number |-> i]
  <2>1. 1 \in 1 .. t /\ t \in 1 .. t
    BY <1>1
  <2>2. a[i].number - a[1].number >= i - 1
    <3>1. 1 <= i
      OBVIOUS
    <3> QED
      BY <1>4, <2>1, <3>1
  <2>6. a[t].number - a[i].number >= t - i
    <3>1. i <= t
      BY <1>1
    <3> QED
      BY <1>4, <2>1, <3>1
  <2>3. a[t].number <= t
    BY <1>2, <2>1
  <2>4. a[i].number = i
    <3>1. a[1].number \in Nat \ {0} /\ a[i].number \in Nat /\ a[t].number \in Nat
      BY <1>3, <2>1
    <3>2. a[i].number >= i
      BY <2>2, <3>1, SMTT(40)
    <3>3. a[i].number <= i
      BY <1>1, <2>6, <2>3, <3>1
    <3> QED
      BY <3>1, <3>2, <3>3
  <2>5. a[i] = [msg |-> a[i].msg, number |-> a[i].number]
    BY <1>2, PacketFacts
  <2> QED
    BY <1>2, <2>4, <2>5
<1> QED
  <2>1. PacketsOf(m) = [k \in 1 .. t |-> [msg |-> m, number |-> k]]
    BY <1>1 DEF PacketsOf
  <2>2. a = [k \in 1 .. t |-> a[k]]
    BY <1>2
  <2> QED
    BY <1>5, <2>1, <2>2

(* The packets that getMessage joins.                                      *)
LEMMA JoinedFacts ==
  ASSUME TypeOK, LinkOrdered, StoredKeyed, Completes,
         NEW a, a = Append(packetMap[Head(link).msg.id], Head(link)), NEW i \in DOMAIN a
  PROVE  /\ a \in Seq(AllPackets) /\ a[i] \in AllPackets /\ 1 \in DOMAIN a
         /\ Len(a) = Head(link).msg.total /\ Len(a) \in DOMAIN a /\ a[Len(a)] = Head(link)
         /\ Len(a) > 1 /\ a[1] = packetMap[Head(link).msg.id][1]
         /\ 1 \in DOMAIN packetMap[Head(link).msg.id]
         /\ Genuine(a[i]) /\ a[i].msg.id = Head(link).msg.id
<1> DEFINE p == Head(link)
<1>1. /\ link # <<>> /\ 1 \in DOMAIN link /\ p = link[1] /\ p \in AllPackets /\ p.msg.id \in Ids
      /\ p.msg.total \in Nat
  BY HeadFacts DEF Completes
<1>2. PICK s : s = packetMap[p.msg.id]
  OBVIOUS
<1>3. s \in Seq(AllPackets)
  BY <1>1, <1>2, StoredFacts
<1>4. /\ Len(s) \in Nat /\ DOMAIN s = 1 .. Len(s) /\ DOMAIN a = 1 .. Len(s) + 1
      /\ a \in Seq(AllPackets) /\ Len(a) = Len(s) + 1
      /\ a[Len(s) + 1] = p /\ \A k \in 1 .. Len(s) : a[k] = s[k]
  BY <1>1, <1>2, <1>3, AppendFacts
<1>5. Len(a) = p.msg.total /\ p.msg.total > 1
  BY <1>2 DEF Completes
<1>6. 1 \in DOMAIN s /\ 1 \in DOMAIN a /\ a[1] = s[1] /\ Len(a) \in DOMAIN a /\ a[Len(a)] = p
  BY <1>1, <1>4, <1>5
<1>7. Genuine(p)
  BY <1>1 DEF LinkOrdered
<1>8. \A k \in DOMAIN s : Genuine(s[k]) /\ s[k].msg.id = p.msg.id
  BY <1>1, <1>2 DEF StoredKeyed
<1>9. Genuine(a[i]) /\ a[i].msg.id = p.msg.id /\ a[i] \in AllPackets
  BY <1>3, <1>4, <1>7, <1>8, <1>1
<1> QED
  BY <1>2, <1>4, <1>5, <1>6, <1>9, Zenon

LEMMA JoinedIsSound ==
  ASSUME TypeOK, Drawn, LinkOrdered, StoredKeyed, StoredBehind, Climbing, Completes, sent' = sent,
         NEW a, a = Append(packetMap[Head(link).msg.id], Head(link))
  PROVE  Sound(a)'
<1>0. PICK p : p = Head(link)
  OBVIOUS
<1>1. link # <<>> /\ p \in AllPackets /\ p.msg \in Messages /\ p.msg.total \in Nat /\ p.msg.id \in Ids
  BY <1>0, HeadFacts, SMTT(40) DEF Completes
<1>2. /\ a \in Seq(AllPackets) /\ 1 \in DOMAIN a /\ Len(a) \in DOMAIN a /\ a[Len(a)] = p
      /\ Len(a) = p.msg.total
      /\ \A i \in DOMAIN a : a[i] \in AllPackets /\ Genuine(a[i]) /\ a[i].msg.id = p.msg.id
  <2>1. packetMap[p.msg.id] \in Seq(AllPackets)
    BY <1>1, StoredFacts
  <2>2. 1 \in DOMAIN a
    BY <1>0, <1>1, <2>1, AppendFacts, SMTT(40)
  <2> QED
    BY <1>0, <2>2, JoinedFacts, Zenon
<1>3. CASE OfOneMessage(a)
  <2>1. \A i \in DOMAIN a : a[i].msg = p.msg /\ a[i].number <= p.msg.total
    BY <1>2, <1>3, ZenonT(40) DEF OfOneMessage, Genuine
  <2>2. Climbs(a)
    BY <1>0, <1>1, ClimbsOn DEF Completes
  <2>3. a = PacketsOf(p.msg)
    BY <1>1, <1>2, <2>1, <2>2, ClimbingIsWhole, ZenonT(40)
  <2>4. p.msg \in sent /\ p.number = p.msg.total
    <3>1. a[p.msg.total].number = p.msg.total
      BY <1>1, <2>3, WholeFacts
    <3> QED
      BY <1>2, <2>1, <3>1, ZenonT(40) DEF Genuine
  <2>5. ASSUME NEW j \in DOMAIN link', link'[j].msg = p.msg PROVE link'[j].number = p.msg.total
    <3>1. PICK k \in DOMAIN link : link'[j] = link[k]
      BY LinkShift DEF Completes
    <3>2. p.msg.total <= link[k].number
      BY <1>1, <2>4, <2>5, <3>1, <1>0, HeadIsFirst
    <3>3. link[k].number <= p.msg.total
      BY <2>5, <3>1 DEF LinkOrdered, Genuine
    <3>4. link[k].number \in Nat
      BY StoredFacts, PacketFacts
    <3> QED
      BY <1>1, <3>1, <3>2, <3>3, <3>4
  <2>6. ASSUME NEW id \in Ids, NEW i \in DOMAIN packetMap'[id], packetMap'[id][i].msg = p.msg
        PROVE  packetMap'[id][i].number = p.msg.total
    <3>1. packetMap'[id] # <<>>
      BY <2>6
    <3>2. packetMap'[id] = packetMap[id] /\ id # p.msg.id
      BY <1>0, <3>1 DEF Completes, Forgets
    <3> QED
      BY <2>6, <3>2 DEF StoredKeyed
  <2>7. LastOnly(p.msg)'
    BY <2>5, <2>6, SMTT(40) DEF LastOnly
  <2>8. a[1].msg = p.msg
    BY <1>2, <2>1, ZenonT(40)
  <2> QED
    BY <1>3, <2>3, <2>4, <2>7, <2>8, ZenonT(40) DEF Sound, LastOnly
<1>4. CASE ~OfOneMessage(a)
  <2>1. PICK i, j \in DOMAIN a : a[i].msg # a[j].msg
    BY <1>4, ZenonT(40) DEF OfOneMessage
  <2>2. a[i].msg \in sent /\ a[j].msg \in sent /\ a[i].msg.id = a[1].msg.id /\ a[j].msg.id = a[1].msg.id
    BY <1>2, <2>1, ZenonT(40) DEF Genuine
  <2>3. a[i].msg.life # a[j].msg.life
    BY <2>1, <2>2, ZenonT(40) DEF Drawn
  <2>4. Reused(a[1].msg.id)'
    BY <2>2, <2>3, ZenonT(40) DEF Reused
  <2> QED
    BY <1>4, <2>4, ZenonT(40) DEF Sound, OfOneMessage
<1> QED
  BY <1>3, <1>4

(* A whole message that is joined was not handed on before: of one that    *)
(* was, the first packet is not stored.                                    *)
LEMMA JoinedIsNew ==
  ASSUME TypeOK, LinkOrdered, StoredKeyed, StoredBehind, Climbing, HandedSound, Completes,
         NEW a, a = Append(packetMap[Head(link).msg.id], Head(link)),
         OfOneMessage(a), NEW n \in DOMAIN handed
  PROVE  handed[n] # a
<1> SUFFICES ASSUME handed[n] = a PROVE FALSE
  OBVIOUS
<1>0. PICK p : p = Head(link)
  OBVIOUS
<1>1. link # <<>> /\ p \in AllPackets /\ p.msg.id \in Ids /\ p.msg.total \in Nat
      /\ p.msg \in Messages
  BY <1>0, HeadFacts, SMTT(40) DEF Completes
<1>2. /\ 1 \in DOMAIN a /\ Len(a) \in DOMAIN a /\ a[Len(a)] = p /\ Len(a) = p.msg.total /\ Len(a) > 1
      /\ a[1] = packetMap[p.msg.id][1] /\ 1 \in DOMAIN packetMap[p.msg.id]
  <2>1. packetMap[p.msg.id] \in Seq(AllPackets)
    BY <1>1, StoredFacts
  <2>2. 1 \in DOMAIN a
    BY <1>0, <1>1, <2>1, AppendFacts, SMTT(40)
  <2> QED
    BY <1>0, <2>2, JoinedFacts, ZenonT(40)
<1>3. a[1].msg = p.msg
  BY <1>2, ZenonT(40) DEF OfOneMessage
<1>4. Sound(a)
  BY Zenon DEF HandedSound
<1>5. a = PacketsOf(p.msg) /\ LastOnly(p.msg)
  BY <1>1, <1>2, <1>3, <1>4, ZenonT(40) DEF Sound
<1>6. a[1].number = 1
  BY <1>1, <1>2, <1>5, WholeFacts, Zenon
<1>7. a[1].number = p.msg.total
  BY <1>1, <1>2, <1>3, <1>5, ZenonT(40) DEF LastOnly
<1>8. p.msg.total = 1
  BY <1>6, <1>7, SMTT(40)
<1>9. p.msg.total > 1
  BY <1>2
<1> QED
  BY <1>8, <1>9

-----------------------------------------------------------------------------
(* Types.                                                                  *)

LEMMA ClockTyped ==
  ASSUME TypeOK
  PROVE  nowMs \in Int
<1>1. ticks + ClockMax + 1 \in Int /\ 2 * ClockMax + 2 \in Nat \ {0} /\ ClockMax \in Int
  BY TrackerAssumption DEF TypeOK
<1>2. (ticks + ClockMax + 1) % (2 * ClockMax + 2) \in Int
  BY <1>1
<1> QED
  BY <1>1, <1>2 DEF nowMs, AsInt

LEMMA KeptTyped ==
  ASSUME NEW m \in [Ids -> Seq(AllPackets)], NEW e \in [Ids -> Int], NEW w \in BOOLEAN
  PROVE  /\ Kept(m, e, w) \in [Ids -> Seq(AllPackets)]
         /\ KeptTimes(m, e, w) \in [Ids -> Int]
         /\ \A id \in Ids : Kept(m, e, w)[id] \in {<<>>, m[id]}
<1>1. <<>> \in Seq(AllPackets)
  OBVIOUS
<1> QED
  BY <1>1 DEF Kept, KeptTimes

LEMMA ArrivesTyped ==
  ASSUME TypeOK, NEW again \in BOOLEAN, Arrives(again)
  PROVE  /\ LinkMoves /\ link # <<>> /\ link' \in Seq(AllPackets)
         /\ troubles' \in 0 .. MaxTroubles
<1>1. link \in Seq(AllPackets) /\ link # <<>> /\ troubles \in 0 .. MaxTroubles /\ MaxTroubles \in Nat
  BY TrackerAssumption DEF TypeOK, Arrives
<1>2. Tail(link) \in Seq(AllPackets)
  BY <1>1
<1>3. link' = link \/ link' = Tail(link)
  BY DEF Arrives
<1>4. troubles' = troubles \/ Trouble
  BY DEF Arrives
<1>5. troubles' \in 0 .. MaxTroubles
  BY <1>1, <1>4 DEF Trouble
<1>6. LinkMoves
  BY <1>1, <1>3 DEF LinkMoves
<1>7. link' \in Seq(AllPackets)
  BY <1>1, <1>2, <1>3
<1> QED
  BY <1>1, <1>5, <1>6, <1>7

(* What is noted of a packet that arrives.                                 *)
LEMMA NotedTyped ==
  ASSUME TypeOK, NEW p \in AllPackets
  PROVE  Noted(p) \in [msg : Messages \cup {NoMessage}, upTo : 0 .. MaxPackets, at : Int]
<1>1. p.msg \in Messages /\ p.number \in 0 .. MaxPackets /\ 0 \in 0 .. MaxPackets
  BY TrackerAssumption DEF AllPackets
<1>2. nowMs \in Int
  BY ClockTyped
<1>3. /\ [msg |-> p.msg, upTo |-> p.number, at |-> nowMs]
           \in [msg : Messages \cup {NoMessage}, upTo : 0 .. MaxPackets, at : Int]
      /\ [msg |-> p.msg, upTo |-> 0, at |-> 0]
           \in [msg : Messages \cup {NoMessage}, upTo : 0 .. MaxPackets, at : Int]
      /\ arriving \in [msg : Messages \cup {NoMessage}, upTo : 0 .. MaxPackets, at : Int]
  BY <1>1, <1>2, SMTT(40) DEF TypeOK
<1> QED
  BY <1>3 DEF Noted

(* What a new packet leaves of the maps.                                   *)
LEMMA PacketTyped ==
  ASSUME TypeOK, NEW again \in BOOLEAN, NEW wraps \in BOOLEAN, ReceivePacket(again, wraps)
  PROVE  /\ packetMap' \in [Ids -> Seq(AllPackets)]
         /\ packetExpirationMap' \in [Ids -> Int]
         /\ handed' \in Seq(Seq(AllPackets))
         /\ \/ Moves /\ handed' = handed
            \/ Moves /\ Completes
<1>0. PICK p : p = Head(link)
  OBVIOUS
<1>1. LinkMoves /\ link # <<>>
  BY ArrivesTyped DEF ReceivePacket
<1>2. /\ p \in AllPackets /\ p.msg.id \in Ids /\ p.msg.total \in Nat
  BY <1>0, <1>1, HeadFacts
<1>3. PICK id : id = p.msg.id
  OBVIOUS
<1>4. packetMap \in [Ids -> Seq(AllPackets)] /\ packetExpirationMap \in [Ids -> Int]
      /\ handed \in Seq(Seq(AllPackets)) /\ life \in Nat
  BY DEF TypeOK
<1>5. PICK a : a = Append(packetMap[id], p)
  OBVIOUS
<1>6. a \in Seq(AllPackets) /\ Len(a) = Len(packetMap[id]) + 1
  BY <1>2, <1>3, <1>4, <1>5, AppendFacts
<1>7. PICK stored, times :
        /\ stored = [packetMap EXCEPT ![id] = Append(@, p)]
        /\ times = [packetExpirationMap EXCEPT ![id] = nowMs]
  OBVIOUS
<1>8. stored \in [Ids -> Seq(AllPackets)] /\ times \in [Ids -> Int]
      /\ stored[id] = a /\ \A k \in Ids : k # id => stored[k] = packetMap[k]
  BY <1>2, <1>3, <1>4, <1>5, <1>6, <1>7, ClockTyped
<1>9. PICK kept, keptTimes :
        kept = Kept(stored, times, wraps) /\ keptTimes = KeptTimes(stored, times, wraps)
  OBVIOUS
<1>10. /\ kept \in [Ids -> Seq(AllPackets)] /\ keptTimes \in [Ids -> Int]
       /\ \A k \in Ids : kept[k] \in {<<>>, stored[k]}
  BY <1>8, <1>9, KeptTyped, Zenon
<1>11. /\ p.msg.total > 1 /\ ~PacketExists(p) /\ sent' = sent /\ life' = life
       /\ handed' = IF Len(kept[id]) = p.msg.total THEN Append(handed, kept[id]) ELSE handed
       /\ packetMap' = IF Len(kept[id]) = p.msg.total THEN [kept EXCEPT ![id] = <<>>] ELSE kept
       /\ packetExpirationMap' =
            IF Len(kept[id]) = p.msg.total THEN [keptTimes EXCEPT ![id] = 0] ELSE keptTimes
  BY <1>0, <1>3, <1>7, <1>9, Zenon DEF ReceivePacket, Stamped
<1>12. CASE Len(kept[id]) = p.msg.total
  <2>1. /\ packetMap' = [kept EXCEPT ![id] = <<>>] /\ packetExpirationMap' = [keptTimes EXCEPT ![id] = 0]
        /\ handed' = Append(handed, kept[id])
    BY <1>11, <1>12
  <2>2. kept[id] # <<>>
    BY <1>2, <1>11, <1>12
  <2>3. kept[id] = a
    BY <1>2, <1>3, <1>8, <1>10, <2>2
  <2>4. packetMap' \in [Ids -> Seq(AllPackets)] /\ packetExpirationMap' \in [Ids -> Int]
    BY <1>2, <1>3, <1>10, <2>1
  <2>5. handed' \in Seq(Seq(AllPackets))
    BY <1>4, <1>6, <2>1, <2>3, AppendFacts
  <2>6. packetMap'[id] = <<>> /\ \A k \in Ids : Forgets(k)
    BY <1>2, <1>3, <1>8, <1>10, <2>1, SMTT(40) DEF Forgets
  <2>7. Completes
    BY <1>0, <1>1, <1>3, <1>5, <1>11, <1>12, <2>1, <2>3, <2>6, Zenon DEF Completes
  <2>8. Moves
    BY <1>1, <1>4, <1>11, <2>6 DEF Moves
  <2> QED
    BY <2>4, <2>5, <2>7, <2>8
<1>13. CASE Len(kept[id]) # p.msg.total
  <2>1. packetMap' = kept /\ packetExpirationMap' = keptTimes /\ handed' = handed
    BY <1>11, <1>13
  <2>2. ASSUME NEW k \in Ids PROVE Forgets(k) \/ Taken(k)
    <3>1. CASE k = id
      BY <1>0, <1>1, <1>3, <1>5, <1>8, <1>10, <1>11, <2>1, <3>1, Zenon DEF Forgets, Taken
    <3>2. CASE k # id
      BY <1>8, <1>10, <2>1, <3>2 DEF Forgets
    <3> QED
      BY <3>1, <3>2, SMTT(40)
  <2>3. Moves
    BY <1>1, <1>4, <1>11, <2>2 DEF Moves
  <2> QED
    BY <1>4, <1>10, <2>1, <2>3
<1> QED
  BY <1>12, <1>13

(* What a packet whose number is there leaves of the maps.                 *)
LEMMA DuplicateTyped ==
  ASSUME TypeOK, NEW again \in BOOLEAN, NEW wraps \in BOOLEAN, ReceiveDuplicate(again, wraps)
  PROVE  /\ packetMap' \in [Ids -> Seq(AllPackets)]
         /\ packetExpirationMap' \in [Ids -> Int]
         /\ Moves /\ handed' = handed
<1>1. packetMap \in [Ids -> Seq(AllPackets)] /\ packetExpirationMap \in [Ids -> Int] /\ life \in Nat
  BY DEF TypeOK
<1>2. LinkMoves
  BY ArrivesTyped DEF ReceiveDuplicate
<1>3. /\ packetMap' = Kept(packetMap, packetExpirationMap, wraps)
      /\ packetExpirationMap' = KeptTimes(packetMap, packetExpirationMap, wraps)
      /\ sent' = sent /\ life' = life /\ handed' = handed
  BY DEF ReceiveDuplicate
<1>4. \A id \in Ids : Forgets(id)
  BY <1>1, <1>3, KeptTyped, ZenonT(40) DEF Forgets
<1> QED
  BY <1>1, <1>2, <1>3, <1>4, KeptTyped DEF Moves

-----------------------------------------------------------------------------
(* The steps one by one.                                                   *)

LEMMA PacketsTyped ==
  ASSUME NEW m \in Messages
  PROVE  /\ PacketsOf(m) \in Seq(AllPackets) /\ Len(PacketsOf(m)) = m.total
         /\ DOMAIN PacketsOf(m) = 1 .. m.total
         /\ \A k \in 1 .. m.total : PacketsOf(m)[k].msg = m /\ PacketsOf(m)[k].number = k
<1>1. m.total \in 1 .. MaxPackets /\ m.total \in Nat
  BY TrackerAssumption DEF Messages
<1>2. \A k \in 1 .. m.total : [msg |-> m, number |-> k] \in AllPackets
  BY <1>1, TrackerAssumption DEF AllPackets
<1>3. PacketsOf(m) \in [1 .. m.total -> AllPackets]
  BY <1>2 DEF PacketsOf
<1>4. \A k \in 1 .. m.total : PacketsOf(m)[k].msg = m /\ PacketsOf(m)[k].number = k
  BY DEF PacketsOf
<1>5. PacketsOf(m) \in Seq(AllPackets)
  BY <1>1, <1>3
<1>6. Len(PacketsOf(m)) = m.total
  BY <1>1, <1>3
<1> QED
  BY <1>3, <1>4, <1>5, <1>6

LEMMA ConcatFacts ==
  ASSUME NEW S, NEW s \in Seq(S), NEW t \in Seq(S)
  PROVE  /\ s \o t \in Seq(S) /\ DOMAIN s = 1 .. Len(s) /\ Len(s) \in Nat /\ Len(t) \in Nat
         /\ DOMAIN (s \o t) = 1 .. Len(s) + Len(t)
         /\ \A i \in 1 .. Len(s) : (s \o t)[i] = s[i]
         /\ \A i \in 1 .. Len(t) : (s \o t)[Len(s) + i] = t[i]
         /\ \A i \in DOMAIN (s \o t) : i \in 1 .. Len(s) \/ i - Len(s) \in 1 .. Len(t)
         /\ \A i \in Len(s) + 1 .. Len(s) + Len(t) : (s \o t)[i] = t[i - Len(s)]
OBVIOUS

(* A new message is sent: nothing on the link or stored is of it.          *)
LEMMA SendKeeps ==
  ASSUME TrackerInvariant, NEW id \in Ids, NEW total \in 1 .. MaxPackets, Send(id, total)
  PROVE  TrackerInvariant'
<1>1. PICK m : m = [life |-> life, id |-> id, total |-> total]
  OBVIOUS
<1>2. /\ m \in Messages /\ m.life = life /\ m.id = id /\ m \notin sent /\ m.total \in Nat \ {0}
  <2>1. life \in 1 .. MaxLives /\ total \in Nat \ {0}
    BY TrackerAssumption DEF TrackerInvariant, TypeOK
  <2>2. m \in Messages /\ m.life = life /\ m.id = id /\ m.total \in Nat \ {0}
    BY <1>1, <2>1 DEF Messages
  <2>3. \A n \in sent : n.life = life => n.id # id
    BY DEF Send
  <2> QED
    BY <2>2, <2>3
<1>3. /\ sent' = sent \cup {m} /\ link' = link \o PacketsOf(m)
      /\ UNCHANGED <<life, packetMap, packetExpirationMap, ticks, handed, arriving, troubles>>
  BY <1>1 DEF Send, tracker
<1>4. /\ link' \in Seq(AllPackets) /\ DOMAIN link = 1 .. Len(link) /\ Len(link) \in Nat
      /\ DOMAIN link' = 1 .. Len(link) + m.total
      /\ \A i \in 1 .. Len(link) : link'[i] = link[i]
      /\ \A i \in Len(link) + 1 .. Len(link) + m.total :
           link'[i].msg = m /\ link'[i].number = i - Len(link)
  <2>1. link \in Seq(AllPackets)
    BY DEF TrackerInvariant, TypeOK
  <2>2. PICK t \in Seq(AllPackets) : t = PacketsOf(m)
    BY <1>2, PacketsTyped
  <2>3. Len(t) = m.total /\ \A k \in 1 .. m.total : t[k].msg = m /\ t[k].number = k
    BY <1>2, <2>2, PacketsTyped
  <2>4. \A i \in Len(link) + 1 .. Len(link) + m.total : i - Len(link) \in 1 .. m.total
    BY <1>2, <2>1
  <2> QED
    BY <1>2, <1>3, <2>1, <2>2, <2>3, <2>4, ConcatFacts
<1>5. ASSUME NEW i \in DOMAIN link'
      PROVE  \/ i \in DOMAIN link /\ link'[i] = link[i] /\ link'[i].msg \in sent
             \/ /\ i \notin DOMAIN link /\ i \in Len(link) + 1 .. Len(link) + m.total
                /\ link'[i].msg = m /\ link'[i].number = i - Len(link)
  BY <1>2, <1>4 DEF TrackerInvariant, LinkOrdered, Genuine
<1>6. TypeOK'
  BY <1>2, <1>3, <1>4 DEF TrackerInvariant, TypeOK
<1>7. Drawn'
  <2>1. \A n \in sent : n.life = m.life => n.id # m.id
    BY <1>2 DEF Send
  <2> QED
    BY <1>2, <1>3, <2>1 DEF TrackerInvariant, Drawn, TypeOK
<1>8. LinkOrdered'
  <2> SUFFICES ASSUME NEW i \in DOMAIN link'
               PROVE  /\ link'[i].msg \in sent' /\ link'[i].number <= link'[i].msg.total
                      /\ \A j \in DOMAIN link' :
                           i < j /\ link'[i].msg = link'[j].msg => link'[i].number < link'[j].number
    BY DEF LinkOrdered, Genuine
  <2>1. CASE i \in DOMAIN link /\ link'[i] = link[i] /\ link'[i].msg \in sent
    <3>1. link[i].msg \in sent' /\ link[i].number <= link[i].msg.total
      BY <1>3, <2>1 DEF TrackerInvariant, LinkOrdered, Genuine
    <3>2. ASSUME NEW j \in DOMAIN link', i < j, link'[i].msg = link'[j].msg
          PROVE  link'[i].number < link'[j].number
      <4>1. j \in DOMAIN link /\ link'[j] = link[j]
        BY <1>2, <1>5, <2>1, <3>2
      <4> QED
        BY <2>1, <3>2, <4>1 DEF TrackerInvariant, LinkOrdered
    <3> QED
      BY <2>1, <3>1, <3>2
  <2>2. CASE /\ i \notin DOMAIN link /\ i \in Len(link) + 1 .. Len(link) + m.total
             /\ link'[i].msg = m /\ link'[i].number = i - Len(link)
    <3>1. link'[i].msg \in sent' /\ link'[i].number <= link'[i].msg.total
      BY <1>2, <1>3, <1>4, <2>2
    <3>2. ASSUME NEW j \in DOMAIN link', i < j
          PROVE  link'[i].number < link'[j].number
      <4>1. j \in Len(link) + 1 .. Len(link) + m.total
        BY <1>2, <1>4, <2>2, <3>2
      <4> QED
        BY <1>2, <1>4, <2>2, <3>2, <4>1
    <3> QED
      BY <3>1, <3>2
  <2> QED
    BY <1>5, <2>1, <2>2
<1>9. StoredKeyed'
  BY <1>3 DEF TrackerInvariant, StoredKeyed, Genuine
<1>10. StoredBehind'
  <2> SUFFICES ASSUME NEW k \in Ids, NEW i \in DOMAIN packetMap[k], NEW j \in DOMAIN link',
                      packetMap[k][i].msg = link'[j].msg
               PROVE  packetMap[k][i].number <= link'[j].number
    BY <1>3 DEF StoredBehind
  <2>1. packetMap[k][i].msg # m
    BY <1>2 DEF TrackerInvariant, StoredKeyed, Genuine
  <2>2. j \in DOMAIN link /\ link'[j] = link[j]
    BY <1>5, <2>1
  <2> QED
    BY <2>2 DEF TrackerInvariant, StoredBehind
<1>11. Climbing'
  BY <1>3 DEF TrackerInvariant, Climbing, Climbs
<1>12. ASSUME NEW n \in sent, LastOnly(n) PROVE LastOnly(n)'
  <2>1. ASSUME NEW j \in DOMAIN link', link'[j].msg = n PROVE link'[j].number = n.total
    BY <1>2, <1>5, <1>12, <2>1 DEF LastOnly
  <2> QED
    BY <1>3, <1>12, <2>1 DEF LastOnly
<1>13. HandedSound' /\ HandedOnce'
  BY <1>3, <1>12, HandedStays DEF TrackerInvariant
<1> QED
  BY <1>6, <1>7, <1>8, <1>9, <1>10, <1>11, <1>13 DEF TrackerInvariant

(* Every other step keeps all but the types and what is handed on.         *)
LEMMA MovesKeeps ==
  ASSUME TrackerInvariant, Moves
  PROVE  /\ Drawn' /\ LinkOrdered' /\ StoredKeyed' /\ StoredBehind' /\ Climbing'
         /\ \A m \in sent : LastOnly(m) => LastOnly(m)'
         /\ sent \subseteq sent'
<1>1. LinkOrdered' /\ StoredKeyed' /\ StoredBehind' /\ Climbing'
  BY LinkStaysOrdered, StoredStaysKeyed, StoredStaysBehind, StoredStaysClimbing
     DEF TrackerInvariant, Moves
<1>2. \A m \in sent : LastOnly(m) => LastOnly(m)'
  BY StaysLastOnly DEF TrackerInvariant
<1>3. sent' = sent /\ life' \in Nat /\ life <= life' /\ life \in Nat
  BY DEF Moves, TrackerInvariant, TypeOK
<1>4. ASSUME NEW m \in sent PROVE m.life <= life'
  <2>1. m.life \in Nat
    BY TrackerAssumption DEF TrackerInvariant, TypeOK, Messages
  <2>2. m.life <= life
    BY DEF TrackerInvariant, Drawn
  <2> QED
    BY <1>3, <2>1, <2>2
<1>5. Drawn'
  BY <1>3, <1>4 DEF TrackerInvariant, Drawn
<1> QED
  BY <1>1, <1>2, <1>3, <1>5

(* Steps of the padawan or the link that hand nothing on.                  *)
LEMMA QuietKeeps ==
  ASSUME TrackerInvariant, Moves, handed' = handed, TypeOK'
  PROVE  TrackerInvariant'
BY MovesKeeps, HandedStays DEF TrackerInvariant

LEMMA SingleKeeps ==
  ASSUME TrackerInvariant, NEW again \in BOOLEAN, ReceiveSingle(again)
  PROVE  TrackerInvariant'
<1>1. PICK p : p = Head(link)
  OBVIOUS
<1>2. PICK h : h = <<p>>
  OBVIOUS
<1>3. /\ LinkMoves /\ link # <<>> /\ link' \in Seq(AllPackets) /\ troubles' \in 0 .. MaxTroubles
  BY ArrivesTyped DEF ReceiveSingle, TrackerInvariant
<1>4. /\ p.msg.total = 1 /\ handed' = Append(handed, h)
      /\ UNCHANGED <<life, sent, packetMap, packetExpirationMap, ticks, arriving>>
  BY <1>1, <1>2 DEF ReceiveSingle, tracker
<1>5. p \in AllPackets /\ p = link[1] /\ 1 \in DOMAIN link
  BY <1>1, <1>3, HeadFacts DEF TrackerInvariant
<1>6. h \in Seq(AllPackets) /\ DOMAIN h = {1} /\ h[1] = p
  BY <1>2, <1>5
<1>7. Moves
  BY <1>3, <1>4 DEF Moves, Forgets, TrackerInvariant, TypeOK
<1>8. Sound(h)'
  <2>1. p.msg \in sent /\ p.number <= 1
    BY <1>4, <1>5 DEF TrackerInvariant, LinkOrdered, Genuine
  <2>2. p.number = 1 /\ p = [msg |-> p.msg, number |-> p.number]
    BY <1>5, <2>1, PacketFacts
  <2>3. h = [k \in 1 .. 1 |-> [msg |-> p.msg, number |-> k]]
    <3>1. h = [k \in 1 .. 1 |-> p]
      BY <1>2
    <3> QED
      BY <2>2, <3>1
  <2>4. h = PacketsOf(p.msg)
    BY <1>4, <2>3 DEF PacketsOf
  <2>5. OfOneMessage(h)
    BY <1>6 DEF OfOneMessage
  <2>6. ~(h[1].msg.total > 1)
    BY <1>4, <1>6
  <2> QED
    BY <1>4, <1>6, <2>1, <2>4, <2>5, <2>6 DEF Sound
<1>9. HandedSound' /\ HandedOnce'
  BY <1>4, <1>6, <1>7, <1>8, MovesKeeps, HandedGrows DEF TrackerInvariant
<1>10. TypeOK'
  <2>1. handed' \in Seq(Seq(AllPackets))
    BY <1>4, <1>6, AppendFacts DEF TrackerInvariant, TypeOK
  <2> QED
    BY <1>3, <1>4, <2>1 DEF TrackerInvariant, TypeOK
<1> QED
  BY <1>7, <1>9, <1>10, MovesKeeps DEF TrackerInvariant

LEMMA PacketKeeps ==
  ASSUME TrackerInvariant, NEW again \in BOOLEAN, NEW wraps \in BOOLEAN, ReceivePacket(again, wraps)
  PROVE  TrackerInvariant'
<1>1. TypeOK'
  <2>1. link' \in Seq(AllPackets) /\ troubles' \in 0 .. MaxTroubles
    BY ArrivesTyped DEF ReceivePacket, TrackerInvariant
  <2>2. UNCHANGED <<life, sent, ticks>>
    BY DEF ReceivePacket
  <2>3. arriving' \in [msg : Messages \cup {NoMessage}, upTo : 0 .. MaxPackets, at : Int]
    <3>1. arriving' = Noted(Head(link)) /\ link # <<>>
      BY ArrivesTyped DEF ReceivePacket, TrackerInvariant
    <3> QED
      BY <3>1, HeadFacts, NotedTyped DEF TrackerInvariant
  <2> QED
    BY <2>1, <2>2, <2>3, PacketTyped, SMTT(40) DEF TrackerInvariant, TypeOK
<1>2. CASE Moves /\ handed' = handed
  BY <1>1, <1>2, QuietKeeps
<1>3. CASE Moves /\ Completes
  <2>1. PICK a : a = Append(packetMap[Head(link).msg.id], Head(link))
    OBVIOUS
  <2>2. handed' = Append(handed, a) /\ sent' = sent
    BY <1>3, <2>1 DEF Completes
  <2>3. a \in Seq(AllPackets)
    <3>1. Head(link) \in AllPackets /\ Head(link).msg.id \in Ids
      BY <1>3, HeadFacts, SMTT(40) DEF Completes, TrackerInvariant
    <3> QED
      BY <2>1, <3>1, AppendFacts DEF TrackerInvariant, TypeOK
  <2>4. Sound(a)'
    BY <1>3, <2>1, <2>2, JoinedIsSound, ZenonT(40) DEF TrackerInvariant
  <2>5. OfOneMessage(a) => \A n \in DOMAIN handed : handed[n] # a
    BY <1>3, <2>1, JoinedIsNew DEF TrackerInvariant
  <2>6. HandedSound' /\ HandedOnce'
    BY <1>3, <2>2, <2>3, <2>4, <2>5, MovesKeeps, HandedGrows DEF TrackerInvariant
  <2> QED
    BY <1>1, <1>3, <2>6, MovesKeeps DEF TrackerInvariant
<1> QED
  BY <1>2, <1>3, PacketTyped DEF TrackerInvariant

LEMMA TrackerStep ==
  ASSUME TrackerInvariant, [Next]_vars
  PROVE  TrackerInvariant'
<1>0. /\ packetMap \in [Ids -> Seq(AllPackets)] /\ life \in Nat /\ link \in Seq(AllPackets)
      /\ troubles \in 0 .. MaxTroubles /\ MaxTroubles \in Nat /\ MaxLives \in Nat \ {0}
      /\ ticks \in 0 .. MaxTicks /\ MaxTicks \in Nat
  BY TrackerAssumption DEF TrackerInvariant, TypeOK
<1>1. CASE \E id \in Ids, total \in 1 .. MaxPackets : Send(id, total)
  BY <1>1, SendKeeps
<1>2. CASE RestartMaster
  <2>1. life' \in 1 .. MaxLives /\ life' \in Nat /\ life <= life'
    BY <1>0, <1>2 DEF RestartMaster, TrackerInvariant, TypeOK
  <2>2. UNCHANGED <<sent, link, packetMap, packetExpirationMap, ticks, handed, arriving, troubles>>
    BY <1>2 DEF RestartMaster, tracker
  <2>3. Moves
    BY <2>1, <2>2 DEF Moves, LinkMoves, Forgets
  <2>4. TypeOK'
    BY <2>1, <2>2 DEF TrackerInvariant, TypeOK
  <2> QED
    BY <2>2, <2>3, <2>4, QuietKeeps
<1>3. CASE Lose
  <2>1. /\ link # <<>> /\ link' = Tail(link) /\ troubles' \in 0 .. MaxTroubles
        /\ UNCHANGED <<life, sent, packetMap, packetExpirationMap, ticks, handed, arriving>>
    BY <1>0, <1>3 DEF Lose, Trouble, tracker
  <2>2. Moves
    BY <1>0, <2>1 DEF Moves, LinkMoves, Forgets
  <2>3. Tail(link) \in Seq(AllPackets)
    BY <1>0, <2>1
  <2>4. TypeOK'
    BY <2>1, <2>3 DEF TrackerInvariant, TypeOK
  <2> QED
    BY <2>1, <2>2, <2>4, QuietKeeps
<1>4. CASE Receive
  <2>1. ASSUME NEW again \in BOOLEAN, ReceiveSingle(again) PROVE TrackerInvariant'
    BY <2>1, SingleKeeps
  <2>2. ASSUME NEW again \in BOOLEAN, NEW wraps \in BOOLEAN, ReceiveDuplicate(again, wraps)
        PROVE  TrackerInvariant'
    <3>1. link' \in Seq(AllPackets) /\ troubles' \in 0 .. MaxTroubles
      BY <2>2, ArrivesTyped DEF ReceiveDuplicate, TrackerInvariant
    <3>2. UNCHANGED <<life, sent, ticks, handed>>
      BY <2>2 DEF ReceiveDuplicate
    <3>3. arriving' \in [msg : Messages \cup {NoMessage}, upTo : 0 .. MaxPackets, at : Int]
      <4>1. arriving' = Noted(Head(link)) /\ link # <<>>
        BY <2>2, ArrivesTyped DEF ReceiveDuplicate, TrackerInvariant
      <4> QED
        BY <4>1, HeadFacts, NotedTyped DEF TrackerInvariant
    <3>4. TypeOK' /\ Moves
      BY <2>2, <3>1, <3>2, <3>3, DuplicateTyped DEF TrackerInvariant, TypeOK
    <3> QED
      BY <3>2, <3>4, QuietKeeps
  <2>3. ASSUME NEW again \in BOOLEAN, NEW wraps \in BOOLEAN, ReceivePacket(again, wraps)
        PROVE  TrackerInvariant'
    BY <2>3, PacketKeeps
  <2> QED
    BY <1>4, <2>1, <2>2, <2>3 DEF Receive
<1>5. CASE RestartPadawan
  <2>1. /\ packetMap' = [id \in Ids |-> <<>>] /\ packetExpirationMap' = [id \in Ids |-> 0]
        /\ ticks' = 0 /\ troubles' \in 0 .. MaxTroubles
        /\ arriving' = [arriving EXCEPT !.upTo = 0, !.at = 0]
        /\ UNCHANGED <<life, sent, link, handed>>
    BY <1>0, <1>5 DEF RestartPadawan, Trouble
  <2>2. Moves
    BY <1>0, <2>1 DEF Moves, LinkMoves, Forgets
  <2>3. packetMap' \in [Ids -> Seq(AllPackets)] /\ packetExpirationMap' \in [Ids -> Int]
        /\ ticks' \in 0 .. MaxTicks /\ 0 \in 0 .. MaxPackets
    BY <1>0, <2>1, TrackerAssumption
  <2>4. arriving \in [msg : Messages \cup {NoMessage}, upTo : 0 .. MaxPackets, at : Int]
    BY DEF TrackerInvariant, TypeOK
  <2>5. arriving' \in [msg : Messages \cup {NoMessage}, upTo : 0 .. MaxPackets, at : Int]
    <3>1. arriving' = [msg |-> arriving.msg, upTo |-> 0, at |-> 0]
      BY <2>1, <2>4
    <3>2. arriving.msg \in Messages \cup {NoMessage}
      BY <2>4
    <3> QED
      BY <2>3, <3>1, <3>2
  <2>6. TypeOK'
    BY <2>1, <2>3, <2>5 DEF TrackerInvariant, TypeOK
  <2> QED
    BY <2>1, <2>2, <2>6, QuietKeeps
<1>6. CASE Tick
  <2>1. /\ ticks' \in 0 .. MaxTicks
        /\ UNCHANGED <<life, sent, link, packetMap, packetExpirationMap, handed, arriving, troubles>>
    BY <1>0, <1>6 DEF Tick, tracker
  <2>2. Moves
    BY <1>0, <2>1 DEF Moves, LinkMoves, Forgets
  <2>3. TypeOK'
    BY <2>1 DEF TrackerInvariant, TypeOK
  <2> QED
    BY <2>1, <2>2, <2>3, QuietKeeps
<1>7. CASE UNCHANGED vars
  <2>1. UNCHANGED <<life, sent, link, packetMap, packetExpirationMap, ticks, handed, arriving, troubles>>
    BY <1>7 DEF vars, tracker
  <2>2. Moves
    BY <1>0, <2>1 DEF Moves, LinkMoves, Forgets
  <2>3. TypeOK'
    BY <2>1 DEF TrackerInvariant, TypeOK
  <2> QED
    BY <2>1, <2>2, <2>3, QuietKeeps
<1> QED
  BY <1>1, <1>2, <1>3, <1>4, <1>5, <1>6, <1>7 DEF Next

LEMMA InitTracked ==
  ASSUME Init
  PROVE  TrackerInvariant
<1>1. /\ life = 1 /\ sent = {} /\ link = <<>> /\ ticks = 0 /\ handed = <<>> /\ troubles = 0
      /\ packetMap = [id \in Ids |-> <<>>] /\ packetExpirationMap = [id \in Ids |-> 0]
      /\ arriving = [msg |-> NoMessage, upTo |-> 0, at |-> 0]
  BY DEF Init
<1>2. TypeOK
  BY <1>1, TrackerAssumption DEF TypeOK
<1>3. Drawn /\ LinkOrdered /\ StoredKeyed /\ StoredBehind /\ Climbing
  BY <1>1 DEF Drawn, LinkOrdered, StoredKeyed, StoredBehind, Climbing, Climbs
<1>4. HandedSound /\ HandedOnce
  BY <1>1 DEF HandedSound, HandedOnce
<1> QED
  BY <1>2, <1>3, <1>4 DEF TrackerInvariant

LEMMA InvariantDelivers ==
  ASSUME TrackerInvariant
  PROVE  DeliveredWhole
<1> SUFFICES ASSUME NEW n \in DOMAIN handed
             PROVE  IF OfOneMessage(handed[n])
                    THEN /\ handed[n] = PacketsOf(handed[n][1].msg)
                         /\ handed[n][1].msg.total > 1 =>
                              \A k \in DOMAIN handed : handed[k] = handed[n] => k = n
                    ELSE Reused(handed[n][1].msg.id)
  BY DEF DeliveredWhole
<1>1. Sound(handed[n])
  BY DEF TrackerInvariant, HandedSound
<1>2. CASE OfOneMessage(handed[n])
  BY <1>1, <1>2 DEF Sound, TrackerInvariant, HandedOnce
<1>3. CASE ~OfOneMessage(handed[n])
  BY <1>1, <1>3 DEF Sound
<1> QED
  BY <1>2, <1>3

-----------------------------------------------------------------------------
(* A message that arrives in time is handed on.                            *)

\* The tracker holds what has arrived in time of the message, and from when.
ArrivingTracked ==
  LET m == arriving.msg
  IN  arriving.upTo > 0 =>
        /\ m \in sent /\ m.total > 1 /\ arriving.upTo <= m.total
        /\ arriving.upTo < m.total /\ ~Reused(m.id) =>
             /\ packetExpirationMap[m.id] = arriving.at /\ ~Overflows(arriving.at)
             /\ Len(packetMap[m.id]) = arriving.upTo
             /\ \A k \in DOMAIN packetMap[m.id] : packetMap[m.id][k] = [msg |-> m, number |-> k]
        /\ arriving.upTo = m.total /\ ~Reused(m.id) => PacketsOf(m) \in Handed

\* The only copy of a stored packet on the link is its head, and has just been noted.
CopyIsHead ==
  \A id \in Ids : \A i \in DOMAIN packetMap[id], j \in DOMAIN link :
    packetMap[id][i].msg = link[j].msg /\ packetMap[id][i].number = link[j].number =>
      j = 1 /\ arriving.msg = link[j].msg

LEMMA CopyStaysHead ==
  ASSUME TrackerInvariant, CopyIsHead, Moves,
         arriving'.msg = arriving.msg \/ (link # <<>> /\ arriving'.msg = Head(link).msg),
         \A id \in Ids : Taken(id) => arriving'.msg = Head(link).msg
  PROVE  CopyIsHead'
<1>0. TypeOK
  BY DEF TrackerInvariant
<1> SUFFICES ASSUME NEW id \in Ids, NEW i \in DOMAIN packetMap'[id], NEW j \in DOMAIN link',
                    packetMap'[id][i].msg = link'[j].msg, packetMap'[id][i].number = link'[j].number
             PROVE  j = 1 /\ arriving'.msg = link'[j].msg
  BY DEF CopyIsHead
<1>1. PICK d \in {0, 1} : j \in Nat \ {0} /\ j + d \in DOMAIN link /\ link'[j] = link[j + d]
  BY <1>0, LinkShift DEF Moves
<1>2. link # <<>> /\ 1 \in DOMAIN link /\ Head(link) = link[1]
  <2>1. link # <<>>
    BY <1>1
  <2> QED
    BY <1>0, <2>1, HeadFacts
<1>3. CASE i \in DOMAIN packetMap[id] /\ packetMap'[id][i] = packetMap[id][i]
  <2>1. j + d = 1 /\ arriving.msg = link[j + d].msg
    BY <1>1, <1>3 DEF CopyIsHead
  <2>2. j = 1
    BY <1>1, <2>1
  <2> QED
    BY <1>1, <1>2, <2>1, <2>2
<1>4. CASE Taken(id) /\ packetMap'[id][i] = Head(link)
  <2>1. ~(1 < j + d)
    <3>1. 1 < j + d => link[1].number < link[j + d].number
      BY <1>1, <1>2, <1>4 DEF TrackerInvariant, LinkOrdered
    <3>2. link[1].number = link[j + d].number /\ link[1].number \in Nat
      BY <1>0, <1>1, <1>2, <1>4, StoredFacts, PacketFacts
    <3> QED
      BY <3>1, <3>2
  <2>2. j = 1 /\ j + d = 1
    BY <1>1, <2>1
  <2> QED
    BY <1>1, <1>2, <1>4, <2>2
<1> QED
  BY <1>0, <1>3, <1>4, StoredBefore DEF Moves

LEMMA ReusedStays ==
  ASSUME sent \subseteq sent', NEW id, Reused(id)
  PROVE  Reused(id)'
BY DEF Reused

(* Steps that leave the tracker and the message that arrives alone.        *)
LEMMA ArrivingStays ==
  ASSUME ArrivingTracked, UNCHANGED <<packetMap, packetExpirationMap, arriving>>,
         sent \subseteq sent', Handed \subseteq Handed'
  PROVE  ArrivingTracked'
<1>1. \A id : ~Reused(id)' => ~Reused(id)
  BY ReusedStays
<1>2. arriving' = arriving /\ packetMap' = packetMap /\ packetExpirationMap' = packetExpirationMap
  OBVIOUS
<1>3. ASSUME arriving.upTo > 0
      PROVE  /\ arriving.msg \in sent' /\ arriving.msg.total > 1 /\ arriving.upTo <= arriving.msg.total
             /\ arriving.upTo < arriving.msg.total /\ ~Reused(arriving.msg.id)' =>
                  /\ packetExpirationMap[arriving.msg.id] = arriving.at /\ ~Overflows(arriving.at)
                  /\ Len(packetMap[arriving.msg.id]) = arriving.upTo
                  /\ \A k \in DOMAIN packetMap[arriving.msg.id] :
                       packetMap[arriving.msg.id][k] = [msg |-> arriving.msg, number |-> k]
             /\ arriving.upTo = arriving.msg.total /\ ~Reused(arriving.msg.id)' =>
                  PacketsOf(arriving.msg) \in Handed'
  BY <1>1, <1>3 DEF ArrivingTracked
<1> QED
  BY <1>2, <1>3 DEF ArrivingTracked, Reused, Overflows

(* Under an id used once everything stored is of one message.              *)
LEMMA StoredOfOne ==
  ASSUME TrackerInvariant, NEW m \in sent, m.id \in Ids, ~Reused(m.id), NEW i \in DOMAIN packetMap[m.id]
  PROVE  packetMap[m.id][i].msg = m
<1>1. packetMap[m.id][i].msg \in sent /\ packetMap[m.id][i].msg.id = m.id
  BY DEF TrackerInvariant, StoredKeyed, Genuine
<1> QED
  BY <1>1 DEF TrackerInvariant, Drawn, Reused

(* The three things Noted can say.                                         *)
LEMMA NotedCases ==
  ASSUME TypeOK, NEW p \in AllPackets
  PROVE  /\ Noted(p).msg = p.msg
         /\ \/ /\ Noted(p) = arriving /\ p.number <= arriving.upTo /\ arriving.msg = p.msg
               /\ arriving.at <= nowMs /\ nowMs <= arriving.at + PACKET_EXPIRATION_TIME
            \/ /\ Noted(p) = [msg |-> p.msg, upTo |-> p.number, at |-> nowMs]
               /\ ~Overflows(nowMs)
               /\ \/ arriving.msg # p.msg /\ p.number = 1
                  \/ arriving.msg = p.msg /\ arriving.upTo > 0 /\ p.number = arriving.upTo + 1
            \/ Noted(p) = [msg |-> p.msg, upTo |-> 0, at |-> 0]
BY DEF Noted

(* A packet that is next finds exactly the ones before it.                 *)
LEMMA NextFindsPrefix ==
  ASSUME TrackerInvariant, ArrivingTracked, CopyIsHead, link # <<>>,
         NEW p, p = Head(link), p.msg.total > 1, ~Reused(p.msg.id),
         \/ arriving.msg # p.msg /\ p.number = 1
         \/ arriving.msg = p.msg /\ arriving.upTo > 0 /\ p.number = arriving.upTo + 1
  PROVE  /\ Len(packetMap[p.msg.id]) = p.number - 1
         /\ \A k \in DOMAIN packetMap[p.msg.id] : packetMap[p.msg.id][k] = [msg |-> p.msg, number |-> k]
         /\ ~PacketExists(p)
<1>1. /\ TypeOK /\ 1 \in DOMAIN link /\ p = link[1] /\ p \in AllPackets /\ p.msg.id \in Ids
      /\ p.number \in Nat \ {0} /\ p.msg.total \in Nat
  BY HeadFacts DEF TrackerInvariant
<1>2. p.msg \in sent /\ p.number <= p.msg.total
  BY <1>1 DEF TrackerInvariant, LinkOrdered, Genuine
<1>3. PICK s : s = packetMap[p.msg.id]
  OBVIOUS
<1>4. s \in Seq(AllPackets) /\ DOMAIN s = 1 .. Len(s) /\ Len(s) \in Nat
  BY <1>1, <1>3, StoredFacts
<1>5. CASE arriving.msg # p.msg /\ p.number = 1
  <2>1. ASSUME NEW i \in DOMAIN s PROVE FALSE
    <3>1. s[i].msg = p.msg
      BY <1>1, <1>2, <1>3, StoredOfOne
    <3>2. s[i].number <= 1 /\ s[i].number \in Nat \ {0}
      BY <1>1, <1>3, <1>4, <1>5, <3>1, PacketFacts DEF TrackerInvariant, StoredBehind
    <3>3. s[i].number = link[1].number
      BY <1>1, <1>5, <3>2
    <3>4. arriving.msg = link[1].msg
      BY <1>1, <1>3, <3>1, <3>3 DEF CopyIsHead
    <3> QED
      BY <1>1, <1>5, <3>4
  <2>2. Len(s) = 0
    <3>1. Len(s) # 0 => 1 \in DOMAIN s
      BY <1>4
    <3> QED
      BY <2>1, <3>1
  <2> QED
    BY <1>1, <1>3, <1>5, <2>1, <2>2 DEF PacketExists
<1>6. CASE arriving.msg = p.msg /\ arriving.upTo > 0 /\ p.number = arriving.upTo + 1
  <2>1. arriving.upTo \in Nat
    BY <1>1, TrackerAssumption DEF TypeOK
  <2>2. arriving.upTo < p.msg.total
    BY <1>1, <1>2, <1>6, <2>1
  <2>3. Len(s) = arriving.upTo /\ \A k \in DOMAIN s : s[k] = [msg |-> p.msg, number |-> k]
    BY <1>3, <1>6, <2>2 DEF ArrivingTracked
  <2>4. Len(s) = p.number - 1
    BY <1>1, <1>6, <2>1, <2>3
  <2>5. \A k \in DOMAIN s : s[k].number # p.number
    <3>1. ASSUME NEW k \in DOMAIN s PROVE s[k].number # p.number
      <4>1. s[k].number = k
        BY <2>3
      <4>2. k < p.number
        BY <1>1, <1>4, <2>4
      <4> QED
        BY <1>1, <1>4, <4>1, <4>2
    <3> QED
      BY <3>1
  <2> QED
    BY <1>3, <2>3, <2>4, <2>5 DEF PacketExists
<1> QED
  BY <1>5, <1>6

LEMMA DuplicateKeepsArriving ==
  ASSUME TrackerInvariant, ArrivingTracked, CopyIsHead,
         NEW again \in BOOLEAN, NEW wraps \in BOOLEAN, ReceiveDuplicate(again, wraps)
  PROVE  ArrivingTracked'
<1>0. PICK p : p = Head(link)
  OBVIOUS
<1>1. /\ TypeOK /\ link # <<>> /\ p.msg.total > 1 /\ PacketExists(p) /\ arriving' = Noted(p)
      /\ packetMap' = Kept(packetMap, packetExpirationMap, wraps)
      /\ packetExpirationMap' = KeptTimes(packetMap, packetExpirationMap, wraps)
      /\ sent' = sent /\ handed' = handed
  BY <1>0, ArrivesTyped DEF ReceiveDuplicate, TrackerInvariant
<1>2. /\ p \in AllPackets /\ p.msg.id \in Ids /\ p = link[1] /\ 1 \in DOMAIN link
      /\ p.number \in Nat \ {0} /\ p.msg.total \in Nat
  BY <1>0, <1>1, HeadFacts
<1>3. p.msg \in sent /\ p.number <= p.msg.total
  BY <1>2 DEF TrackerInvariant, LinkOrdered, Genuine
<1>4. \A id : Reused(id)' <=> Reused(id)
  BY <1>1 DEF Reused
<1>5. CASE /\ Noted(p) = arriving /\ p.number <= arriving.upTo /\ arriving.msg = p.msg
           /\ arriving.at <= nowMs /\ nowMs <= arriving.at + PACKET_EXPIRATION_TIME
  <2>1. arriving' = arriving /\ arriving.upTo > 0 /\ arriving.upTo \in Nat
    BY <1>1, <1>2, <1>5, TrackerAssumption DEF TypeOK
  <2>2. CASE arriving.upTo < p.msg.total /\ ~Reused(p.msg.id)
    <3>1. /\ packetExpirationMap[p.msg.id] = arriving.at /\ ~Overflows(arriving.at)
          /\ Len(packetMap[p.msg.id]) = arriving.upTo
          /\ \A k \in DOMAIN packetMap[p.msg.id] :
               packetMap[p.msg.id][k] = [msg |-> p.msg, number |-> k]
      BY <1>5, <2>1, <2>2 DEF ArrivingTracked
    <3>2. ~Expired(arriving.at, wraps)
      <4>1. arriving.at \in Int /\ nowMs \in Int /\ PACKET_EXPIRATION_TIME \in Nat
        BY <1>1, ClockTyped, TrackerAssumption DEF TypeOK
      <4> QED
        BY <1>5, <3>1, <4>1 DEF Expired
    <3>3. packetMap[p.msg.id] # <<>>
      BY <2>1, <3>1
    <3>4. packetMap'[p.msg.id] = packetMap[p.msg.id] /\ packetExpirationMap'[p.msg.id] = arriving.at
      BY <1>1, <1>2, <3>1, <3>2, <3>3 DEF Kept, KeptTimes
    <3> QED
      BY <1>1, <1>3, <1>4, <1>5, <2>1, <2>2, <3>1, <3>4 DEF ArrivingTracked, Overflows
  <2>3. CASE arriving.upTo = p.msg.total /\ ~Reused(p.msg.id)
    <3>1. PacketsOf(p.msg) \in Handed /\ Handed' = Handed
      BY <1>1, <1>5, <2>1, <2>3 DEF ArrivingTracked, Handed
    <3> QED
      BY <1>1, <1>2, <1>3, <1>5, <2>1, <2>3, <3>1 DEF ArrivingTracked
  <2>4. arriving.upTo <= p.msg.total
    BY <1>5, <2>1 DEF ArrivingTracked
  <2>5. CASE Reused(p.msg.id)
    BY <1>1, <1>3, <1>4, <1>5, <2>1, <2>4, <2>5 DEF ArrivingTracked
  <2> QED
    BY <1>2, <2>1, <2>2, <2>3, <2>4, <2>5
<1>6. CASE /\ Noted(p) = [msg |-> p.msg, upTo |-> p.number, at |-> nowMs]
           /\ ~Overflows(nowMs)
           /\ \/ arriving.msg # p.msg /\ p.number = 1
              \/ arriving.msg = p.msg /\ arriving.upTo > 0 /\ p.number = arriving.upTo + 1
  <2>1. Reused(p.msg.id)
    BY <1>0, <1>1, <1>6, NextFindsPrefix
  <2>2. arriving'.msg = p.msg /\ arriving'.upTo = p.number
    BY <1>1, <1>6
  <2> QED
    BY <1>1, <1>3, <1>4, <2>1, <2>2 DEF ArrivingTracked
<1>7. CASE Noted(p) = [msg |-> p.msg, upTo |-> 0, at |-> 0]
  <2>1. arriving'.upTo = 0
    BY <1>1, <1>7, SMTT(40)
  <2> QED
    BY <2>1 DEF ArrivingTracked
<1> QED
  BY <1>1, <1>2, <1>5, <1>6, <1>7, NotedCases

(* A new packet whose expiration does not overflow stays or completes its  *)
(* message.                                                                *)
LEMMA PacketStays ==
  ASSUME TypeOK, NEW again \in BOOLEAN, NEW wraps \in BOOLEAN, ReceivePacket(again, wraps),
         ~Overflows(nowMs),
         NEW p, p = Head(link), NEW a, a = Append(packetMap[p.msg.id], p)
  PROVE  IF Len(a) = p.msg.total
         THEN handed' = Append(handed, a)
         ELSE packetMap'[p.msg.id] = a /\ packetExpirationMap'[p.msg.id] = nowMs
<1>1. link # <<>>
  BY ArrivesTyped, Zenon DEF ReceivePacket
<1>2. p \in AllPackets /\ p.msg.id \in Ids
  BY <1>1, HeadFacts
<1>3. PICK id : id = p.msg.id
  OBVIOUS
<1>4. packetMap \in [Ids -> Seq(AllPackets)] /\ packetExpirationMap \in [Ids -> Int]
  BY DEF TypeOK
<1>5. PICK stored, times :
        /\ stored = [packetMap EXCEPT ![id] = Append(@, p)]
        /\ times = [packetExpirationMap EXCEPT ![id] = nowMs]
  OBVIOUS
<1>6. stored[id] = a /\ times[id] = nowMs
  BY <1>2, <1>3, <1>4, <1>5
<1>7. ~Expired(nowMs, wraps)
  <2>1. nowMs \in Int /\ PACKET_EXPIRATION_TIME \in Nat
    BY ClockTyped, TrackerAssumption
  <2> QED
    BY <2>1 DEF Expired
<1>8. a # <<>>
  BY <1>2, <1>3, <1>4, AppendFacts, SMTT(40)
<1>9. PICK kept, keptTimes :
        kept = Kept(stored, times, wraps) /\ keptTimes = KeptTimes(stored, times, wraps)
  OBVIOUS
<1>10. kept[id] = a /\ keptTimes[id] = nowMs
  BY <1>2, <1>3, <1>6, <1>7, <1>8, <1>9, ZenonT(40) DEF Kept, KeptTimes
<1>11. /\ handed' = IF Len(kept[id]) = p.msg.total THEN Append(handed, kept[id]) ELSE handed
       /\ packetMap' = IF Len(kept[id]) = p.msg.total THEN [kept EXCEPT ![id] = <<>>] ELSE kept
       /\ packetExpirationMap' =
            IF Len(kept[id]) = p.msg.total THEN [keptTimes EXCEPT ![id] = 0] ELSE keptTimes
  BY <1>3, <1>5, <1>9, ZenonT(40) DEF ReceivePacket, Stamped
<1> QED
  BY <1>3, <1>10, <1>11, ZenonT(40)

LEMMA PacketKeepsArriving ==
  ASSUME TrackerInvariant, ArrivingTracked, CopyIsHead,
         NEW again \in BOOLEAN, NEW wraps \in BOOLEAN, ReceivePacket(again, wraps)
  PROVE  ArrivingTracked'
<1>0. PICK p : p = Head(link)
  OBVIOUS
<1>1. /\ TypeOK /\ link # <<>> /\ p.msg.total > 1 /\ ~PacketExists(p) /\ arriving' = Noted(p)
      /\ sent' = sent
  BY <1>0, ArrivesTyped DEF ReceivePacket, TrackerInvariant
<1>2. /\ p \in AllPackets /\ p.msg \in Messages /\ p.msg.id \in Ids /\ p = link[1] /\ 1 \in DOMAIN link
      /\ p.number \in Nat \ {0} /\ p.msg.total \in Nat
  BY <1>0, <1>1, HeadFacts
<1>3. p.msg \in sent /\ p.number <= p.msg.total
  BY <1>2 DEF TrackerInvariant, LinkOrdered, Genuine
<1>4. \A id : Reused(id)' <=> Reused(id)
  BY <1>1 DEF Reused
<1>5. Handed \subseteq Handed'
  <2>1. handed \in Seq(Seq(AllPackets)) /\ handed' \in Seq(Seq(AllPackets))
    BY <1>1, PacketTyped DEF TypeOK
  <2>2. handed' = handed \/ \E x \in Seq(AllPackets) : handed' = Append(handed, x)
    <3>1. Append(packetMap[Head(link).msg.id], Head(link)) \in Seq(AllPackets)
      BY <1>0, <1>1, <1>2, StoredFacts, AppendFacts
    <3>2. handed' = handed \/ handed' = Append(handed, Append(packetMap[Head(link).msg.id], Head(link)))
      BY <1>1, PacketTyped DEF Completes
    <3> QED
      BY <3>1, <3>2
  <2>3. \A n \in DOMAIN handed : n \in DOMAIN handed' /\ handed'[n] = handed[n]
    <3>1. CASE handed' = handed
      BY <3>1
    <3>2. ASSUME NEW x \in Seq(AllPackets), handed' = Append(handed, x)
          PROVE  \A n \in DOMAIN handed : n \in DOMAIN handed' /\ handed'[n] = handed[n]
      <4>1. /\ DOMAIN handed = 1 .. Len(handed) /\ DOMAIN handed' = 1 .. Len(handed) + 1
            /\ \A n \in 1 .. Len(handed) : handed'[n] = handed[n]
            /\ Len(handed) \in Nat
        BY <2>1, <3>2, AppendFacts
      <4> QED
        BY <4>1
    <3> QED
      BY <2>2, <3>1, <3>2
  <2> QED
    BY <2>3 DEF Handed
<1>6. CASE /\ Noted(p) = arriving /\ p.number <= arriving.upTo /\ arriving.msg = p.msg
  <2>1. arriving' = arriving /\ arriving.upTo > 0 /\ arriving.upTo \in Nat
    BY <1>1, <1>2, <1>6, TrackerAssumption DEF TypeOK
  <2>2. arriving.upTo <= p.msg.total
    BY <1>6, <2>1 DEF ArrivingTracked
  <2>3. ASSUME arriving.upTo < p.msg.total, ~Reused(p.msg.id) PROVE FALSE
    <3>1. /\ Len(packetMap[p.msg.id]) = arriving.upTo
          /\ \A k \in DOMAIN packetMap[p.msg.id] :
               packetMap[p.msg.id][k] = [msg |-> p.msg, number |-> k]
      BY <1>6, <2>1, <2>3 DEF ArrivingTracked
    <3>2. packetMap[p.msg.id] \in Seq(AllPackets)
      BY <1>1, <1>2, StoredFacts
    <3>3. p.number \in DOMAIN packetMap[p.msg.id]
      BY <1>2, <1>6, <2>1, <3>1, <3>2
    <3>4. packetMap[p.msg.id][p.number].number = p.number
      <4>1. packetMap[p.msg.id][p.number] = [msg |-> p.msg, number |-> p.number]
        BY <3>1, <3>3
      <4> QED
        BY <4>1
    <3> QED
      BY <1>1, <3>3, <3>4 DEF PacketExists
  <2>4. arriving.upTo = p.msg.total /\ ~Reused(p.msg.id) => PacketsOf(p.msg) \in Handed'
    BY <1>5, <1>6, <2>1 DEF ArrivingTracked
  <2> QED
    BY <1>1, <1>3, <1>4, <1>6, <2>1, <2>2, <2>3, <2>4 DEF ArrivingTracked
<1>7. CASE /\ Noted(p) = [msg |-> p.msg, upTo |-> p.number, at |-> nowMs]
           /\ ~Overflows(nowMs)
           /\ \/ arriving.msg # p.msg /\ p.number = 1
              \/ arriving.msg = p.msg /\ arriving.upTo > 0 /\ p.number = arriving.upTo + 1
  <2>1. arriving'.msg = p.msg /\ arriving'.upTo = p.number /\ arriving'.at = nowMs
    BY <1>1, <1>7
  <2>2. CASE Reused(p.msg.id)
    BY <1>1, <1>3, <1>4, <2>1, <2>2 DEF ArrivingTracked
  <2>3. CASE ~Reused(p.msg.id)
    <3>1. PICK s : s = packetMap[p.msg.id]
      OBVIOUS
    <3>2. /\ Len(s) = p.number - 1
          /\ \A k \in DOMAIN s : s[k] = [msg |-> p.msg, number |-> k]
      BY <1>0, <1>1, <1>7, <2>3, <3>1, NextFindsPrefix
    <3>3. PICK a : a = Append(s, p)
      OBVIOUS
    <3>4. /\ a \in Seq(AllPackets) /\ Len(a) = p.number /\ DOMAIN a = 1 .. p.number
          /\ a[p.number] = p /\ DOMAIN s = 1 .. p.number - 1
          /\ \A k \in 1 .. p.number - 1 : a[k] = s[k]
      <4>1. s \in Seq(AllPackets)
        BY <1>1, <1>2, <3>1, StoredFacts
      <4>2. Len(s) + 1 = p.number /\ Len(s) \in Nat
        BY <1>2, <3>2, <4>1
      <4> QED
        BY <1>2, <3>2, <3>3, <4>1, <4>2, AppendFacts
    <3>5. \A k \in DOMAIN a : a[k] = [msg |-> p.msg, number |-> k]
      <4>1. ASSUME NEW k \in 1 .. p.number PROVE a[k] = [msg |-> p.msg, number |-> k]
        <5>1. CASE k = p.number
          BY <1>2, <3>4, <5>1, PacketFacts
        <5>2. CASE k # p.number
          <6>1. k \in 1 .. p.number - 1
            BY <1>2, <5>2
          <6> QED
            BY <3>2, <3>4, <6>1
        <5> QED
          BY <5>1, <5>2
      <4> QED
        BY <3>4, <4>1
    <3>6. IF p.number = p.msg.total
          THEN handed' = Append(handed, a)
          ELSE packetMap'[p.msg.id] = a /\ packetExpirationMap'[p.msg.id] = nowMs
      <4>1. a = Append(packetMap[p.msg.id], p)
        BY <3>1, <3>3, SMTT(40)
      <4>2. IF Len(a) = p.msg.total
            THEN handed' = Append(handed, a)
            ELSE packetMap'[p.msg.id] = a /\ packetExpirationMap'[p.msg.id] = nowMs
        BY <1>0, <1>1, <1>7, <4>1, PacketStays, ZenonT(40)
      <4> QED
        BY <3>4, <4>2
    <3>7. CASE p.number = p.msg.total
      <4>1. a = PacketsOf(p.msg)
        <5>1. \A i \in DOMAIN a : a[i].msg = p.msg /\ a[i].number <= p.msg.total
          <6>1. ASSUME NEW i \in DOMAIN a PROVE a[i].msg = p.msg /\ a[i].number = i /\ i <= p.number
            <7>1. a[i] = [msg |-> p.msg, number |-> i]
              BY <3>5
            <7> QED
              BY <1>2, <3>4, <7>1
          <6> QED
            BY <3>7, <6>1
        <5>2. Climbs(a)
          <6>1. \A i \in DOMAIN a : a[i].number = i /\ i \in Nat
            <7>1. ASSUME NEW i \in DOMAIN a PROVE a[i].number = i /\ i \in Nat
              <8>1. a[i] = [msg |-> p.msg, number |-> i]
                BY <3>5
              <8> QED
                BY <1>2, <3>4, <8>1
            <7> QED
              BY <7>1
          <6> QED
            BY <6>1 DEF Climbs
        <5> QED
          BY <1>2, <3>4, <3>7, <5>1, <5>2, ClimbingIsWhole
      <4>2. a \in Handed'
        <5>1. handed \in Seq(Seq(AllPackets))
          BY <1>1 DEF TypeOK
        <5>2. /\ DOMAIN handed' = 1 .. Len(handed) + 1 /\ Len(handed) \in Nat
              /\ handed'[Len(handed) + 1] = a
          BY <3>4, <3>6, <3>7, <5>1, AppendFacts
        <5>3. Len(handed) + 1 \in DOMAIN handed'
          BY <5>2
        <5> QED
          BY <5>2, <5>3 DEF Handed
      <4> QED
        BY <1>1, <1>2, <1>3, <2>1, <3>7, <4>1, <4>2 DEF ArrivingTracked
    <3>8. CASE p.number # p.msg.total
      <4>1. packetMap'[p.msg.id] = a /\ packetExpirationMap'[p.msg.id] = nowMs
        BY <3>6, <3>8
      <4> QED
        BY <1>1, <1>3, <1>7, <2>1, <3>4, <3>5, <3>8, <4>1 DEF ArrivingTracked, Overflows
    <3> QED
      BY <3>7, <3>8
  <2> QED
    BY <2>2, <2>3
<1>8. CASE Noted(p) = [msg |-> p.msg, upTo |-> 0, at |-> 0]
  <2>1. arriving'.upTo = 0
    BY <1>1, <1>8
  <2> QED
    BY <2>1 DEF ArrivingTracked
<1> QED
  BY <1>1, <1>2, <1>6, <1>7, <1>8, NotedCases

PunctualInvariant == TrackerInvariant /\ CopyIsHead /\ ArrivingTracked

LEMMA SendKeepsCopies ==
  ASSUME TrackerInvariant, CopyIsHead, NEW id \in Ids, NEW total \in 1 .. MaxPackets, Send(id, total)
  PROVE  CopyIsHead'
<1>1. PICK m : m = [life |-> life, id |-> id, total |-> total]
  OBVIOUS
<1>2. m \notin sent /\ m \in Messages
  <2>1. life \in 1 .. MaxLives
    BY DEF TrackerInvariant, TypeOK
  <2>2. m.life = life /\ m.id = id /\ m \in Messages
    BY <1>1, <2>1 DEF Messages
  <2>3. \A n \in sent : n.life = life => n.id # id
    BY DEF Send
  <2> QED
    BY <2>2, <2>3
<1>3. link' = link \o PacketsOf(m) /\ UNCHANGED <<packetMap, arriving>>
  BY <1>1 DEF Send, tracker
<1>4. PICK t \in Seq(AllPackets) :
        t = PacketsOf(m) /\ \A k \in DOMAIN t : t[k].msg = m
  <2>1. DOMAIN PacketsOf(m) = 1 .. m.total
    BY <1>2, PacketsTyped
  <2> QED
    BY <1>2, <2>1, PacketsTyped
<1>5. link \in Seq(AllPackets)
  BY DEF TrackerInvariant, TypeOK
<1> SUFFICES ASSUME NEW k \in Ids, NEW i \in DOMAIN packetMap[k], NEW j \in DOMAIN link',
                    packetMap[k][i].msg = link'[j].msg, packetMap[k][i].number = link'[j].number
             PROVE  j = 1 /\ arriving.msg = link'[j].msg
  BY <1>3, ZenonT(40) DEF CopyIsHead
<1>6. packetMap[k][i].msg # m
  BY <1>2 DEF TrackerInvariant, StoredKeyed, Genuine
<1>7. CASE j \in 1 .. Len(link)
  <2>1. j \in DOMAIN link /\ link'[j] = link[j]
    BY <1>3, <1>4, <1>5, <1>7, ConcatFacts
  <2> QED
    BY <2>1 DEF CopyIsHead
<1>8. CASE j - Len(link) \in 1 .. Len(t)
  <2>1. j \in Len(link) + 1 .. Len(link) + Len(t) /\ DOMAIN t = 1 .. Len(t)
    BY <1>3, <1>4, <1>5, <1>8, ConcatFacts
  <2>2. link'[j] = t[j - Len(link)]
    BY <1>3, <1>4, <1>5, <2>1, ConcatFacts
  <2>3. link'[j].msg = m
    BY <1>4, <1>8, <2>1, <2>2
  <2> QED
    BY <1>6, <2>3
<1> QED
  BY <1>3, <1>4, <1>5, <1>7, <1>8, ConcatFacts

(* A step that leaves the tracker alone.                                   *)
LEMMA AsideKeeps ==
  ASSUME PunctualInvariant, Moves, UNCHANGED <<packetMap, packetExpirationMap, arriving>>,
         Handed \subseteq Handed'
  PROVE  CopyIsHead' /\ ArrivingTracked'
<1>1. \A id \in Ids : ~Taken(id)
  <2>1. ASSUME NEW id \in Ids, Taken(id) PROVE FALSE
    <3>1. /\ packetMap[id] \in Seq(AllPackets) /\ Head(link) \in AllPackets
          /\ packetMap[id] = Append(packetMap[id], Head(link))
      BY <2>1, HeadFacts, StoredFacts DEF Taken, PunctualInvariant, TrackerInvariant
    <3>2. Len(packetMap[id]) = Len(packetMap[id]) + 1 /\ Len(packetMap[id]) \in Nat
      BY <3>1, AppendFacts
    <3> QED
      BY <3>2
  <2> QED
    BY <2>1
<1>2. CopyIsHead'
  BY <1>1, CopyStaysHead DEF PunctualInvariant
<1>3. ArrivingTracked'
  BY ArrivingStays DEF PunctualInvariant, Moves
<1> QED
  BY <1>2, <1>3

LEMMA PunctualStep ==
  ASSUME PunctualInvariant, [Next]_vars
  PROVE  PunctualInvariant'
<1>0. /\ TrackerInvariant /\ CopyIsHead /\ ArrivingTracked /\ TypeOK /\ life \in Nat
      /\ packetMap \in [Ids -> Seq(AllPackets)] /\ handed \in Seq(Seq(AllPackets))
  BY DEF PunctualInvariant, TrackerInvariant, TypeOK
<1> SUFFICES CopyIsHead' /\ ArrivingTracked'
  BY <1>0, TrackerStep DEF PunctualInvariant
<1>1. ASSUME NEW id \in Ids, NEW total \in 1 .. MaxPackets, Send(id, total)
      PROVE  CopyIsHead' /\ ArrivingTracked'
  <2>1. CopyIsHead'
    BY <1>0, <1>1, SendKeepsCopies
  <2>2. sent \subseteq sent' /\ Handed' = Handed
        /\ UNCHANGED <<packetMap, packetExpirationMap, arriving>>
    BY <1>1 DEF Send, Handed, tracker
  <2> QED
    BY <1>0, <2>1, <2>2, ArrivingStays
<1>2. CASE RestartMaster
  <2>1. /\ Handed' = Handed /\ link' = link /\ sent' = sent /\ life' = life + 1
        /\ UNCHANGED <<packetMap, packetExpirationMap, arriving>>
    BY <1>2 DEF RestartMaster, Handed, tracker
  <2>2. Moves
    BY <1>0, <2>1 DEF Moves, LinkMoves, Forgets
  <2> QED
    BY <2>1, <2>2, AsideKeeps
<1>3. CASE Lose
  <2>1. /\ Handed' = Handed /\ link # <<>> /\ link' = Tail(link) /\ UNCHANGED <<sent, life>>
        /\ UNCHANGED <<packetMap, packetExpirationMap, arriving>>
    BY <1>3 DEF Lose, Handed, tracker
  <2>2. Moves
    BY <1>0, <2>1 DEF Moves, LinkMoves, Forgets
  <2> QED
    BY <2>1, <2>2, AsideKeeps
<1>4. ASSUME NEW again \in BOOLEAN, ReceiveSingle(again) PROVE CopyIsHead' /\ ArrivingTracked'
  <2>1. /\ LinkMoves /\ UNCHANGED <<sent, life>> /\ handed' = Append(handed, <<Head(link)>>)
        /\ UNCHANGED <<packetMap, packetExpirationMap, arriving>>
    BY <1>0, <1>4, ArrivesTyped DEF ReceiveSingle, tracker
  <2>2. Moves
    BY <1>0, <2>1 DEF Moves, Forgets
  <2>3. Handed \subseteq Handed'
    <3>1. <<Head(link)>> \in Seq(AllPackets)
      <4>1. link # <<>>
        BY <1>0, <1>4, ArrivesTyped DEF ReceiveSingle
      <4>2. Head(link) \in AllPackets
        BY <1>0, <4>1, HeadFacts
      <4> QED
        BY <4>2
    <3>2. /\ DOMAIN handed = 1 .. Len(handed) /\ DOMAIN handed' = 1 .. Len(handed) + 1
          /\ \A n \in 1 .. Len(handed) : handed'[n] = handed[n]
          /\ Len(handed) \in Nat
      BY <1>0, <2>1, <3>1, AppendFacts
    <3> QED
      BY <3>2 DEF Handed
  <2> QED
    BY <2>1, <2>2, <2>3, AsideKeeps
<1>5. ASSUME NEW again \in BOOLEAN, NEW wraps \in BOOLEAN, ReceiveDuplicate(again, wraps)
      PROVE  CopyIsHead' /\ ArrivingTracked'
  <2>1. ArrivingTracked'
    BY <1>0, <1>5, DuplicateKeepsArriving
  <2>2. link # <<>> /\ Moves /\ arriving' = Noted(Head(link))
    BY <1>0, <1>5, ArrivesTyped, DuplicateTyped DEF ReceiveDuplicate
  <2>3. arriving'.msg = Head(link).msg
    BY <1>0, <2>2, HeadFacts, NotedCases, SMTT(40)
  <2> QED
    BY <1>0, <2>1, <2>2, <2>3, CopyStaysHead
<1>6. ASSUME NEW again \in BOOLEAN, NEW wraps \in BOOLEAN, ReceivePacket(again, wraps)
      PROVE  CopyIsHead' /\ ArrivingTracked'
  <2>1. ArrivingTracked'
    BY <1>0, <1>6, PacketKeepsArriving
  <2>2. link # <<>> /\ Moves /\ arriving' = Noted(Head(link))
    BY <1>0, <1>6, ArrivesTyped, PacketTyped, Zenon DEF ReceivePacket
  <2>3. arriving'.msg = Head(link).msg
    BY <1>0, <2>2, HeadFacts, NotedCases
  <2> QED
    BY <1>0, <2>1, <2>2, <2>3, CopyStaysHead
<1>7. CASE RestartPadawan
  <2>1. /\ packetMap' = [id \in Ids |-> <<>>]
        /\ arriving' = [arriving EXCEPT !.upTo = 0, !.at = 0]
    BY <1>7 DEF RestartPadawan
  <2>2. CopyIsHead'
    BY <2>1 DEF CopyIsHead
  <2>3. arriving'.upTo = 0
    BY <1>0, <2>1 DEF TypeOK
  <2> QED
    BY <2>2, <2>3 DEF ArrivingTracked
<1>8. CASE Tick \/ UNCHANGED vars
  <2>1. /\ Handed' = Handed /\ UNCHANGED <<link, sent, life>>
        /\ UNCHANGED <<packetMap, packetExpirationMap, arriving>>
    BY <1>8 DEF Tick, vars, Handed, tracker
  <2>2. Moves
    BY <1>0, <2>1 DEF Moves, LinkMoves, Forgets
  <2> QED
    BY <2>1, <2>2, AsideKeeps
<1> QED
  BY <1>1, <1>2, <1>3, <1>4, <1>5, <1>6, <1>7, <1>8 DEF Next, Receive

LEMMA InitPunctual ==
  ASSUME Init
  PROVE  PunctualInvariant
<1>1. TrackerInvariant
  BY InitTracked
<1>2. CopyIsHead
  BY DEF Init, CopyIsHead
<1>3. arriving.upTo = 0
  BY DEF Init
<1> QED
  BY <1>1, <1>2, <1>3 DEF PunctualInvariant, ArrivingTracked

-----------------------------------------------------------------------------
(* The state of the master, the link and the tracker keeps its type.       *)
THEOREM TrackerTyped == Spec => []TypeOK
<1>1. Init => TrackerInvariant
  BY InitTracked
<1>2. TrackerInvariant /\ [Next]_vars => TrackerInvariant'
  BY TrackerStep
<1>3. TrackerInvariant => TypeOK
  BY DEF TrackerInvariant
<1> QED
  BY <1>1, <1>2, <1>3, PTL DEF Spec

(* extractPayload hands on whole messages in their order, each long one    *)
(* once, as long as no two lives of the master use the same id.            *)
THEOREM MessagesArriveWhole == Spec => []DeliveredWhole
<1>1. Init => TrackerInvariant
  BY InitTracked
<1>2. TrackerInvariant /\ [Next]_vars => TrackerInvariant'
  BY TrackerStep
<1>3. TrackerInvariant => DeliveredWhole
  BY InvariantDelivers
<1> QED
  BY <1>1, <1>2, <1>3, PTL DEF Spec

(* A message whose packets arrive in time is handed on, whatever else is   *)
(* stored, copied or expired meanwhile.                                    *)
THEOREM PunctualArrives == Spec => []PunctualIsDelivered
<1>1. Init => PunctualInvariant
  BY InitPunctual
<1>2. PunctualInvariant /\ [Next]_vars => PunctualInvariant'
  BY PunctualStep
<1>3. PunctualInvariant => PunctualIsDelivered
  BY DEF PunctualInvariant, ArrivingTracked, PunctualIsDelivered
<1> QED
  BY <1>1, <1>2, <1>3, PTL DEF Spec
=============================================================================
