-------------------------- MODULE OtaDeploy_proofs --------------------------
(***************************************************************************)
(* Proofs about a firmware deploy end to end.                              *)
(*                                                                         *)
(* TypeInv is the type of the state, with the two facts Current needs: a   *)
(* forwarder that waits for a padawan has one, and one that waits for the  *)
(* master has its row deferred.  The handlers are then classified once     *)
(* (Moves, TickMoves): whatever message comes in whatever phase, the       *)
(* deploy stays where it is, shifts its phase, gives a padawan up or       *)
(* concludes the master.  The safety properties follow from four           *)
(* invariants that read only that classification:                          *)
(*   ControlInv   timers, sentinels, polls and the number of reports,      *)
(*   SuccessInv   an OK on its way, or in a row, is true of the padawan,   *)
(*   OnceInv      the same with rollbacks, by whose turn is over,          *)
(*   OrderInv     the rows so far answer the list so far, in order.        *)
(*                                                                         *)
(* Recursion is avoided: what startNextPadawan skips is an ascending       *)
(* enumeration of positions, and induction over positions is done by       *)
(* taking the least counterexample (LeastNumber).                          *)
(***************************************************************************)
EXTENDS OtaDeploy, BulkSender_proofs, WellFoundedInduction, SequenceTheorems

-----------------------------------------------------------------------------
(* Numbers and ascending enumerations.                                      *)

(* A set of natural numbers has a least element: induction over numbers   *)
(* is done by taking the least counterexample.                              *)
LEMMA LeastNumber ==
  ASSUME NEW T, T \subseteq Nat, T # {}
  PROVE  \E x \in T : \A y \in T : x <= y
<1>1. IsWellFoundedOn(OpToRel(<, Nat), Nat)
  BY NatLessThanWellFounded
<1>2. \E x \in T : \A y \in T : ~ (<<y, x>> \in OpToRel(<, Nat))
  BY <1>1, WFMin
<1>3. \A x, y \in Nat : y < x => <<y, x>> \in OpToRel(<, Nat)
  BY DEF OpToRel
<1>4. \E x \in T : \A y \in T : ~ (y < x)
  BY <1>2, <1>3, Zenon
<1> QED
  BY <1>4

(* A non-empty set of numbers below a bound has a greatest element.         *)
LEMMA GreatestNumber ==
  ASSUME NEW n \in Nat, NEW T, T \subseteq 0 .. n, T # {}
  PROVE  \E x \in T : \A y \in T : y <= x
<1> DEFINE D == {n - x : x \in T}
<1>1. D \subseteq Nat /\ D # {}
  <2>1. ASSUME NEW x \in T PROVE n - x \in Nat
    OBVIOUS
  <2> QED
    BY <2>1
<1>2. PICK d \in D : \A e \in D : d <= e
  BY <1>1, LeastNumber
<1>3. PICK x \in T : d = n - x
  BY <1>2
<1>4. ASSUME NEW y \in T PROVE y <= x
  <2>1. n - y \in D
    OBVIOUS
  <2>2. n - x <= n - y
    BY <2>1, <1>2, <1>3
  <2> QED
    BY <2>2
<1> QED
  BY <1>4

Enumerates(f, S) ==
  /\ f \in [1 .. Cardinality(S) -> S]
  /\ \A a, b \in DOMAIN f : a < b => f[a] < f[b]

(* A set of positions is finite.                                            *)
LEMMA PartFinite ==
  ASSUME NEW n \in Nat, NEW S \in SUBSET (1 .. n)
  PROVE  IsFiniteSet(S) /\ Cardinality(S) \in Nat
<1>1. IsFiniteSet(1 .. n)
  BY FS_Interval
<1> QED
  BY <1>1, FS_Subset, FS_CardinalityType

(* A position past all the others is enumerated last.                       *)
LEMMA AscendingExtended ==
  ASSUME NEW k \in Nat \ {0}, NEW U \in SUBSET (1 .. k - 1), NEW f, Enumerates(f, U)
  PROVE  /\ Cardinality(U \cup {k}) = Cardinality(U) + 1
         /\ Enumerates([x \in 1 .. Cardinality(U) + 1 |->
                          IF x = Cardinality(U) + 1 THEN k ELSE f[x]], U \cup {k})
<1>0. k - 1 \in Nat
  OBVIOUS
<1>1. IsFiniteSet(U) /\ Cardinality(U) \in Nat
  BY <1>0, PartFinite
<1> DEFINE c == Cardinality(U)
           T == U \cup {k}
           g == [x \in 1 .. c + 1 |-> IF x = c + 1 THEN k ELSE f[x]]
<1>2. Cardinality(T) = c + 1
  BY <1>1, FS_AddElement
<1>3. c \in Nat /\ f \in [1 .. c -> U] /\ \A a, b \in 1 .. c : a < b => f[a] < f[b]
  BY <1>1 DEF Enumerates
<1> HIDE DEF c
<1>4. g \in [1 .. c + 1 -> T]
  BY <1>3
<1>5. ASSUME NEW a \in 1 .. c + 1, NEW b \in 1 .. c + 1, a < b PROVE g[a] < g[b]
  <2>0. a \in 1 .. c
    BY <1>5, <1>3
  <2>1. g[a] = f[a] /\ f[a] \in 1 .. k - 1
    <3>1. f[a] \in U
      BY <2>0, <1>3
    <3>2. f[a] \in 1 .. k - 1
      BY <3>1
    <3> QED
      BY <3>2, <2>0, <1>3
  <2>2. CASE b = c + 1
    <3>1. g[b] = k
      BY <2>2, <1>3
    <3> QED
      BY <3>1, <2>1
  <2>3. CASE b # c + 1
    BY <2>0, <2>1, <2>3, <1>3, <1>5
  <2> QED
    BY <2>2, <2>3
<1>6. Enumerates(g, T)
  BY <1>2, <1>4, <1>5 DEF Enumerates
<1> QED
  BY <1>2, <1>6 DEF c

(* Every set of positions has an ascending enumeration.                     *)
LEMMA AscendingExists ==
  ASSUME NEW n \in Nat, NEW S \in SUBSET (1 .. n)
  PROVE  \E f : Enumerates(f, S)
<1> DEFINE Bad == {k \in Nat : \E T \in SUBSET (1 .. k) : ~ \E f : Enumerates(f, T)}
<1>1. SUFFICES ASSUME n \in Bad PROVE FALSE
  OBVIOUS
<1>2. PICK k \in Bad : \A l \in Bad : k <= l
  <2>1. Bad \subseteq Nat /\ Bad # {}
    BY <1>1
  <2> HIDE DEF Bad
  <2> QED
    BY <2>1, LeastNumber
<1>3. PICK T \in SUBSET (1 .. k) : ~ \E f : Enumerates(f, T)
  OBVIOUS
<1>4. CASE k = 0
  <2>1. T = {} /\ Cardinality(T) = 0
    <3>1. T = {}
      BY <1>4
    <3> QED
      BY <3>1, FS_EmptySet
  <2>2. Enumerates([x \in {} |-> x], T)
    <3>1. 1 .. Cardinality(T) = {}
      BY <2>1
    <3>2. [x \in {} |-> x] \in [{} -> T] /\ DOMAIN [x \in {} |-> x] = {}
      OBVIOUS
    <3> QED
      BY <3>1, <3>2 DEF Enumerates
  <2> QED
    BY <2>2, <1>3
<1>5. CASE k # 0
  <2>1. k - 1 \in Nat /\ k - 1 \notin Bad
    BY <1>2, <1>5
  <2> DEFINE U == T \ {k}
  <2>2. U \in SUBSET (1 .. k - 1)
    OBVIOUS
  <2>3. PICK f : Enumerates(f, U)
    BY <2>1, <2>2
  <2>4. CASE k \notin T
    BY <2>3, <2>4, <1>3, U = T
  <2>5. CASE k \in T
    <3>1. T = U \cup {k} /\ k \in Nat \ {0}
      BY <1>2, <1>5, <2>5
    <3> HIDE DEF U
    <3> QED
      BY <2>2, <2>3, <3>1, <1>3, AscendingExtended
  <2> QED
    BY <2>4, <2>5
<1> QED
  BY <1>4, <1>5

(* What Ascending gives is one.                                             *)
LEMMA AscendingIs ==
  ASSUME NEW n \in Nat, NEW S \in SUBSET (1 .. n)
  PROVE  /\ Enumerates(Ascending(S), S)
         /\ IsFiniteSet(S) /\ Cardinality(S) \in Nat
<1>1. PICK f : Enumerates(f, S)
  BY AscendingExists
<1>2. IsFiniteSet(S) /\ Cardinality(S) \in Nat
  BY PartFinite
<1>3. \E g \in [1 .. Cardinality(S) -> S] : \A a, b \in DOMAIN g : a < b => g[a] < g[b]
  BY <1>1 DEF Enumerates
<1> QED
  BY <1>2, <1>3 DEF Ascending, Enumerates

(* An ascending enumeration names every element ...                         *)
LEMMA AscendingOnto ==
  ASSUME NEW n \in Nat, NEW S \in SUBSET (1 .. n), NEW f, Enumerates(f, S), NEW s \in S
  PROVE  \E k \in 1 .. Cardinality(S) : f[k] = s
<1>1. IsFiniteSet(S) /\ Cardinality(S) \in Nat
  BY AscendingIs
<1> DEFINE c == Cardinality(S)
<1>2. f \in [1 .. c -> S] /\ \A a, b \in 1 .. c : a < b => f[a] < f[b]
  BY DEF Enumerates
<1>3. \A k \in 1 .. c : f[k] \in 1 .. n
  BY <1>2
<1> HIDE DEF c
<1>4. ASSUME NEW a \in 1 .. c, NEW b \in 1 .. c, f[a] = f[b] PROVE a = b
  <2>1. c \in Nat
    BY <1>1 DEF c
  <2> QED
    BY <1>2, <1>3, <1>4, <2>1
<1>5. f \in Injection(1 .. c, S)
  BY <1>2, <1>4 DEF Injection, IsInjective
<1>6. c \in Nat /\ IsFiniteSet(1 .. c) /\ Cardinality(1 .. c) = c
  <2>1. c \in Nat
    BY <1>1 DEF c
  <2> QED
    BY <2>1, FS_Interval
<1>7. f \in Surjection(1 .. c, S)
  BY <1>1, <1>5, <1>6, FS_Injection DEF c
<1> QED
  BY <1>7 DEF Surjection, c

(* ... and is the only one.                                                 *)
LEMMA AscendingUnique ==
  ASSUME NEW n \in Nat, NEW S \in SUBSET (1 .. n), NEW f, Enumerates(f, S),
         NEW g, Enumerates(g, S)
  PROVE  f = g
<1> DEFINE c == Cardinality(S)
<1>0. c \in Nat
  BY AscendingIs
<1>1. /\ f \in [1 .. c -> S] /\ \A a, b \in 1 .. c : a < b => f[a] < f[b]
      /\ g \in [1 .. c -> S] /\ \A a, b \in 1 .. c : a < b => g[a] < g[b]
  BY DEF Enumerates
<1>2. \A k \in 1 .. c : f[k] \in S /\ g[k] \in S /\ f[k] \in Nat /\ g[k] \in Nat
  <2>1. S \subseteq Nat
    OBVIOUS
  <2> HIDE DEF c
  <2> QED
    BY <1>1, <2>1
<1>3. /\ \A s \in S : \E k \in 1 .. c : f[k] = s
      /\ \A s \in S : \E k \in 1 .. c : g[k] = s
  BY AscendingOnto
<1> DEFINE Bad == {k \in 1 .. c : f[k] # g[k]}
<1> HIDE DEF c
<1>4. SUFFICES ASSUME Bad # {} PROVE FALSE
  <2>1. /\ f = [k \in 1 .. c |-> f[k]] /\ g = [k \in 1 .. c |-> g[k]]
        /\ Bad = {} => \A k \in 1 .. c : f[k] = g[k]
    BY <1>1
  <2>2. Bad = {} => f = g
    BY <2>1, Zenon
  <2> QED
    BY <2>2
<1>5. PICK k \in Bad : \A l \in Bad : k <= l
  <2>1. Bad \subseteq Nat
    BY <1>0
  <2> HIDE DEF Bad
  <2> QED
    BY <2>1, <1>4, LeastNumber
<1>6. k \in 1 .. c /\ f[k] # g[k] /\ \A l \in 1 .. c : l < k => f[l] = g[l]
  BY <1>0, <1>5
<1>7. CASE f[k] < g[k]
  <2>1. PICK l \in 1 .. c : g[l] = f[k]
    BY <1>2, <1>3, <1>6
  <2>2. l < k
    <3>1. ~(k < l) /\ k # l
      BY <1>1, <1>2, <1>6, <1>7, <2>1
    <3> QED
      BY <1>0, <1>6, <3>1
  <2>3. f[l] = f[k] /\ f[l] < f[k]
    BY <1>1, <1>6, <2>1, <2>2
  <2> QED
    BY <1>2, <1>6, <2>3
<1>8. CASE g[k] < f[k]
  <2>1. PICK l \in 1 .. c : f[l] = g[k]
    BY <1>2, <1>3, <1>6
  <2>2. l < k
    <3>1. ~(k < l) /\ k # l
      BY <1>1, <1>2, <1>6, <1>8, <2>1
    <3> QED
      BY <1>0, <1>6, <3>1
  <2>3. g[l] = g[k] /\ g[l] < g[k]
    BY <1>1, <1>6, <2>1, <2>2
  <2> QED
    BY <1>2, <1>6, <2>3
<1> QED
  BY <1>2, <1>6, <1>7, <1>8

-----------------------------------------------------------------------------
(* The types of what the queues carry and of a report.                      *)

Entry == Padawans \cup {Master}
Kind ==
  {"BEGIN_ACK", "BEGIN_NAK", "DATA_ACK", "DATA_NAK", "END_ACK", "FLASH_RESULT",
   "FLASH_RESULT_TIMEOUT", "VERSION_CONFIRM_TIMEOUT", "LOCAL_FLASH_RESULT",
   "MASTER_SELF_FLASH_TIMEOUT"}
Message == [kind : Kind, from : Padawans \cup {Master, "self"}, xferId : Nat, arg : Nat]
Queue == {q \in Seq(Message) : Len(q) <= QueueLength}
FrameType == [type : {"BEGIN", "DATA", "END"}, xferId : Nat, seq : Nat]
Links == [Padawans -> Seq(FrameType)]
Report == [order : Seq(Entry), rows : Seq(RowType)]

(* A message posted to the forwarder.                                       *)
LEMMA Posted ==
  ASSUME NEW q \in Queue, NEW m \in Message
  PROVE  Post(q, m) \in Queue
<1>1. QueueLength \in Nat /\ q \in Seq(Message)
  BY LinkAssumption DEF Queue
<1>2. CASE Len(q) < QueueLength
  <2>1. Append(q, m) \in Seq(Message) /\ Len(Append(q, m)) = Len(q) + 1
    BY <1>1
  <2> QED
    BY <1>1, <1>2, <2>1 DEF Post, Queue
<1> QED
  BY <1>2 DEF Post

(* The forwarder takes the head of its queue.                               *)
LEMMA TakenType ==
  ASSUME fq \in Queue, fq # <<>>
  PROVE  Taken \in Message /\ Left \in Queue
<1>1. QueueLength \in Nat /\ fq \in Seq(Message)
  BY LinkAssumption DEF Queue
<1>2. Head(fq) \in Message /\ Tail(fq) \in Seq(Message) /\ Len(Tail(fq)) = Len(fq) - 1
  BY <1>1
<1> QED
  BY <1>1, <1>2 DEF Taken, Left, Queue

(* Frames delivered to one padawan.                                         *)
LEMMA Delivered ==
  ASSUME NEW d \in Links, NEW p \in Padawans, NEW fs \in Seq(FrameType)
  PROVE  [d EXCEPT ![p] = Deliver(d[p], fs)] \in Links
<1> DEFINE all == d[p] \o fs
<1>1. all \in Seq(FrameType)
  BY DEF Links
<1>2. WriterQueueLength \in Nat
  BY LinkAssumption
<1>3. SubSeq(all, 1, IF Len(all) < WriterQueueLength THEN Len(all) ELSE WriterQueueLength)
        \in Seq(FrameType)
  <2> HIDE DEF all
  <2> QED
    BY <1>1, <1>2
<1> QED
  BY <1>3 DEF Deliver, Links

(* A row for each of some entries.                                          *)
LEMMA FailedType ==
  ASSUME NEW ids \in Seq(Entry), NEW reason \in Reason
  PROVE  Failed(ids, reason) \in Seq(RowType)
<1>1. \A i \in DOMAIN ids : Row(ids[i], "FAILED", reason) \in RowType
  BY DEF Row, RowType, Entry
<1>2. DOMAIN ids = 1 .. Len(ids) /\ Len(ids) \in Nat
  OBVIOUS
<1> QED
  BY <1>1, <1>2 DEF Failed

(* The padawans of a part of an order list.                                 *)
LEMMA PadawansInType ==
  ASSUME NEW o \in Seq(Entry), NEW i \in Nat \ {0}, NEW j \in Int, j <= Len(o)
  PROVE  PadawansIn(o, i, j) \in Seq(Padawans)
<1> DEFINE at == {k \in i .. j : o[k] # Master}
           e == Ascending(at)
<1>1. at \in SUBSET (1 .. Len(o)) /\ \A k \in at : o[k] \in Padawans
  <2>1. ASSUME NEW k \in i .. j, o[k] # Master PROVE k \in 1 .. Len(o) /\ o[k] \in Padawans
    <3>1. k \in 1 .. Len(o)
      OBVIOUS
    <3> QED
      BY <3>1, <2>1 DEF Entry
  <2> QED
    BY <2>1
<1> HIDE DEF at
<1>2. Enumerates(e, at) /\ Cardinality(at) \in Nat
  <2>1. Len(o) \in Nat
    OBVIOUS
  <2> QED
    BY <2>1, <1>1, AscendingIs
<1> HIDE DEF e
<1>3. [n \in DOMAIN e |-> o[e[n]]] \in Seq(Padawans)
  <2>1. DOMAIN e = 1 .. Cardinality(at) /\ \A n \in DOMAIN e : e[n] \in at
    BY <1>2 DEF Enumerates
  <2>2. \A n \in 1 .. Cardinality(at) : o[e[n]] \in Padawans
    BY <2>1, <1>1
  <2> QED
    BY <2>1, <2>2, <1>2
<1> QED
  BY <1>3 DEF PadawansIn, e, at

(* The position of the deferred master.                                     *)
LEMMA DeferMasterType ==
  ASSUME NEW o \in Seq(Entry), NEW i \in Nat \ {0}, NEW j \in Int, j <= Len(o),
         NEW mr \in 0 .. Len(o)
  PROVE  DeferMaster(o, i, j, mr) \in 0 .. Len(o)
<1> DEFINE found == {k \in i .. j : o[k] = Master}
<1>1. CASE found = {}
  BY <1>1 DEF DeferMaster
<1>2. CASE found # {}
  <2>1. found \subseteq 0 .. Len(o) /\ Len(o) \in Nat
    OBVIOUS
  <2> HIDE DEF found
  <2>2. \E k \in found : \A l \in found : l <= k
    BY <2>1, <1>2, GreatestNumber
  <2>3. (CHOOSE k \in found : \A l \in found : l <= k) \in 0 .. Len(o)
    BY <2>1, <2>2
  <2> QED
    BY <2>3, <1>2 DEF DeferMaster, found
<1> QED
  BY <1>1, <1>2

-----------------------------------------------------------------------------
(* The sender of a deploy.                                                  *)

(* How many chunks streamDrain can hand out.                                *)
LEMMA RoomIs ==
  ASSUME NEW s, SenderOK(s)
  PROVE  /\ Room(s) \in Nat
         /\ Room(s) > 0 => CanSend(s)
         /\ Room(s) > 0 => Room(s) <= s.window - Cardinality(s.inFlight)
         /\ Room(s) > 0 => Room(s) <= s.total - s.next
<1>1. /\ Cardinality(s.inFlight) \in Nat /\ s.window \in Nat /\ s.total \in Nat /\ s.next \in Nat
  BY FS_CardinalityType DEF SenderOK, SlotTable, SenderType
<1>2. CASE CanSend(s)
  <2> DEFINE a == s.window - Cardinality(s.inFlight)
             b == s.total - s.next
  <2>1. a \in Nat /\ b \in Nat
    BY <1>1, <1>2 DEF CanSend
  <2> HIDE DEF a, b
  <2>2. Min({a, b}) \in Nat /\ Min({a, b}) <= a /\ Min({a, b}) <= b
    BY <2>1 DEF Min
  <2>3. Room(s) = Min({a, b})
    BY <1>2 DEF Room, a, b
  <2> QED
    BY <2>2, <2>3, <1>2 DEF a, b
<1>3. CASE ~CanSend(s)
  BY <1>3 DEF Room
<1> QED
  BY <1>2, <1>3

Handed(s, k) == {[seq |-> q, retryCount |-> 0] : q \in s.next .. s.next + k - 1}
HighWater(s, k) == IF s.next + k > s.highWater THEN s.next + k ELSE s.highWater

(* Handing out k chunks, field by field.                                    *)
LEMMA SentIs ==
  ASSUME NEW s, SenderOK(s), NEW k \in Nat
  PROVE  Sent(s, k) =
           [status |-> s.status, xferId |-> s.xferId, total |-> s.total, window |-> s.window,
            maxRetries |-> s.maxRetries, next |-> s.next + k, highWater |-> HighWater(s, k),
            confirmed |-> s.confirmed, inFlight |-> s.inFlight \cup Handed(s, k)]
<1>1. Sent(s, k) = [s EXCEPT !.inFlight = s.inFlight \cup Handed(s, k), !.next = s.next + k,
                             !.highWater = HighWater(s, k)]
  BY DEF Sent, Handed, HighWater
<1> QED
  BY <1>1 DEF SenderOK, SenderType

(* One chunk more is one call of nextChunkToSend more.                      *)
LEMMA SentOneMore ==
  ASSUME NEW s, SenderOK(s), NEW k \in Nat
  PROVE  Sent(s, 0) = s /\ Sent(s, k + 1) = AfterSend(Sent(s, k))
<1>1. s.next \in Nat /\ s.highWater \in Nat /\ s.next <= s.highWater
  BY DEF SenderOK, SenderType, Cursors
<1>2. Sent(s, 0) = s
  <2>1. Handed(s, 0) = {} /\ HighWater(s, 0) = s.highWater /\ s.next + 0 = s.next
    BY <1>1 DEF Handed, HighWater
  <2>2. s = [status |-> s.status, xferId |-> s.xferId, total |-> s.total,
             window |-> s.window, maxRetries |-> s.maxRetries, next |-> s.next,
             highWater |-> s.highWater, confirmed |-> s.confirmed, inFlight |-> s.inFlight]
    BY DEF SenderOK, SenderType
  <2>3. Sent(s, 0) =
          [status |-> s.status, xferId |-> s.xferId, total |-> s.total, window |-> s.window,
           maxRetries |-> s.maxRetries, next |-> s.next + 0, highWater |-> HighWater(s, 0),
           confirmed |-> s.confirmed, inFlight |-> s.inFlight \cup Handed(s, 0)]
    BY SentIs
  <2>4. s.inFlight \cup Handed(s, 0) = s.inFlight
    BY <2>1
  <2> QED
    BY <2>1, <2>2, <2>3, <2>4
<1>3. Sent(s, k + 1) = AfterSend(Sent(s, k))
  <2> DEFINE t == Sent(s, k)
             new == [seq |-> s.next + k, retryCount |-> 0]
  <2>1. Handed(s, k + 1) = Handed(s, k) \cup {new}
    <3>1. s.next .. s.next + (k + 1) - 1 = (s.next .. s.next + k - 1) \cup {s.next + k}
      BY <1>1
    <3> QED
      BY <3>1 DEF Handed
  <2>2. /\ t.next = s.next + k /\ t.highWater = HighWater(s, k)
        /\ t.inFlight = s.inFlight \cup Handed(s, k)
    BY SentIs
  <2>3. /\ HighWater(s, k + 1) =
             IF t.next + 1 > t.highWater THEN t.next + 1 ELSE t.highWater
        /\ s.next + (k + 1) = t.next + 1
    BY <1>1, <2>2 DEF HighWater
  <2>4. AfterSend(t) = [t EXCEPT !.inFlight = s.inFlight \cup Handed(s, k + 1),
                                 !.next = s.next + (k + 1), !.highWater = HighWater(s, k + 1)]
    <3>1. t.inFlight \cup {[seq |-> t.next, retryCount |-> 0]} = s.inFlight \cup Handed(s, k + 1)
      BY <2>1, <2>2
    <3> HIDE DEF t
    <3> QED
      BY <3>1, <2>3 DEF AfterSend
  <2>5. t = [status |-> s.status, xferId |-> s.xferId, total |-> s.total, window |-> s.window,
            maxRetries |-> s.maxRetries, next |-> s.next + k, highWater |-> HighWater(s, k),
            confirmed |-> s.confirmed, inFlight |-> s.inFlight \cup Handed(s, k)]
    BY SentIs
  <2>6. Sent(s, k + 1) =
          [status |-> s.status, xferId |-> s.xferId, total |-> s.total, window |-> s.window,
           maxRetries |-> s.maxRetries, next |-> s.next + (k + 1), highWater |-> HighWater(s, k + 1),
           confirmed |-> s.confirmed, inFlight |-> s.inFlight \cup Handed(s, k + 1)]
    <3>1. k + 1 \in Nat
      OBVIOUS
    <3> HIDE DEF t, new
    <3> QED
      BY <3>1, SentIs
  <2>7. AfterSend(t) = Sent(s, k + 1)
    <3> HIDE DEF t, new
    <3> QED
      BY <2>4, <2>5, <2>6
  <2> QED
    BY <2>7
<1> QED
  BY <1>2, <1>3

(* streamDrain leaves the sender in order.                                  *)
LEMMA SentOK ==
  ASSUME NEW s, SenderOK(s), NEW k \in 0 .. Room(s)
  PROVE  SenderOK(Sent(s, k))
<1> DEFINE few(n) == Cardinality(Sent(s, n).inFlight) <= Cardinality(s.inFlight) + n
           Bad == {n \in 0 .. Room(s) : ~ (SenderOK(Sent(s, n)) /\ few(n))}
<1>1. Room(s) \in Nat
  BY RoomIs
<1>2. SUFFICES ASSUME Bad # {} PROVE FALSE
  OBVIOUS
<1>3. PICK n \in Bad : \A m \in Bad : n <= m
  <2>1. Bad \subseteq Nat
    BY <1>1
  <2> HIDE DEF Bad
  <2> QED
    BY <2>1, <1>2, LeastNumber
<1>4. CASE n = 0
  <2>1. Sent(s, n) = s
    BY <1>4, SentOneMore
  <2>2. Cardinality(s.inFlight) \in Nat
    BY FS_CardinalityType DEF SenderOK, SlotTable
  <2> QED
    BY <2>1, <2>2, <1>4, <1>3
<1>5. CASE n # 0
  <2> DEFINE m == n - 1
             t == Sent(s, m)
  <2>1. m \in 0 .. Room(s) /\ m \notin Bad /\ n = m + 1 /\ m \in Nat
    BY <1>1, <1>3, <1>5
  <2>2. SenderOK(t) /\ few(m)
    BY <2>1
  <2>3. /\ t.status = s.status /\ t.total = s.total /\ t.window = s.window
        /\ t.next = s.next + m
    BY <2>1, SentIs
  <2>4. Sent(s, n) = AfterSend(t)
    BY <2>1, SentOneMore
  <2>5. /\ Cardinality(s.inFlight) \in Nat /\ Cardinality(t.inFlight) \in Nat
        /\ IsFiniteSet(t.inFlight)
        /\ s.window \in Nat /\ s.total \in Nat /\ s.next \in Nat
    BY <2>2, FS_CardinalityType DEF SenderOK, SlotTable, SenderType
  <2> HIDE DEF m, t
  <2>6. CanSend(t)
    <3>1. Room(s) > m /\ Room(s) > 0
      BY <2>1, <1>1, <1>3
    <3> QED
      BY <3>1, <2>1, <2>2, <2>3, <2>5, <1>1, RoomIs DEF CanSend, t
  <2>7. SenderOK(Sent(s, n))
    BY <2>2, <2>4, <2>6, SendOK
  <2>8. few(n)
    <3> DEFINE new == [seq |-> t.next, retryCount |-> 0]
    <3>1. AfterSend(t).inFlight = t.inFlight \cup {new}
      BY <2>2 DEF AfterSend, SenderOK, SenderType
    <3> HIDE DEF new
    <3>2. /\ Cardinality(t.inFlight \cup {new}) <= Cardinality(t.inFlight) + 1
          /\ Cardinality(t.inFlight \cup {new}) \in Nat
      <4>1. /\ IsFiniteSet(t.inFlight \cup {new})
            /\ Cardinality(t.inFlight \cup {new}) =
                 IF new \in t.inFlight THEN Cardinality(t.inFlight)
                 ELSE Cardinality(t.inFlight) + 1
        BY <2>5, FS_AddElement
      <4> QED
        BY <4>1, <2>5
    <3>3. Cardinality(t.inFlight) <= Cardinality(s.inFlight) + m
      BY <2>2 DEF t
    <3>4. Cardinality(Sent(s, n).inFlight) = Cardinality(t.inFlight \cup {new})
      BY <3>1, <2>4
    <3> QED
      BY <3>2, <3>3, <3>4, <2>1, <2>5
  <2> QED
    BY <2>7, <2>8, <1>3
<1> QED
  BY <1>4, <1>5

-----------------------------------------------------------------------------
(* The type of the state.                                                   *)

Waiting == {"AWAITING_BEGIN_ACK", "STREAMING", "AWAITING_END_ACK", "AWAITING_FLASH_RESULT",
            "AWAITING_VERSION_CONFIRMED"}

(* A forwarder that waits for a padawan has one, and one that waits for the *)
(* master has its row deferred.                                             *)
ForwarderType ==
  /\ phase \in Phase
  /\ SenderOK(tx)
  /\ orderList \in Seq(Entry)
  /\ nextOrderIdx \in 0 .. Len(orderList) + 1
  /\ masterRow \in 0 .. Len(orderList)
  /\ results \in Seq(RowType)
  /\ timers \subseteq Timer
  /\ wireBusy \in BOOLEAN
  /\ heard \in [image : Image \cup {"none"}, fresh : BOOLEAN]
  /\ reports \in Seq(Report)
  /\ phase \in Waiting => nextOrderIdx \in 1 .. Len(orderList) /\ Current \in Padawans
  /\ phase = "MASTER_SELF_FLASHING" => masterRow # 0

LinkType == fq \in Queue /\ down \in Links /\ localReq \in Nat

WriterType == pad \in [Padawans -> PadType] /\ masterBoot \in Image

BoundsType == agenda \in Seq(Seq(Entry)) /\ asked \in 0 .. Len(agenda)

PollType == pollDue \in BOOLEAN /\ strays \in Nat /\ unheard \in BOOLEAN

TypeInv == ForwarderType /\ LinkType /\ WriterType /\ BoundsType /\ PollType

(* The master's row is put into the report where the operator had it.       *)
LEMMA WithMasterRowType ==
  ASSUME NEW rs \in Seq(RowType), NEW mr \in Nat \ {0}, NEW status \in {"FAILED", "PENDING"},
         NEW reason \in Reason
  PROVE  WithMasterRow(rs, mr, status, reason) \in Seq(RowType)
<1> DEFINE i == IF mr - 1 < Len(rs) THEN mr - 1 ELSE Len(rs)
<1>1. i \in 0 .. Len(rs) /\ Len(rs) \in Nat
  OBVIOUS
<1>2. <<Row(Master, status, reason)>> \in Seq(RowType)
  BY DEF Row, RowType
<1> HIDE DEF i
<1>3. SubSeq(rs, 1, i) \in Seq(RowType) /\ SubSeq(rs, i + 1, Len(rs)) \in Seq(RowType)
  BY <1>1
<1>4. SubSeq(rs, 1, i) \o <<Row(Master, status, reason)>> \o SubSeq(rs, i + 1, Len(rs))
        \in Seq(RowType)
  BY <1>2, <1>3
<1> QED
  BY <1>4 DEF WithMasterRow, i

(* A report ends the deploy.                                                *)
LEMMA EmitType ==
  ASSUME ForwarderType, LinkType, NEW o \in Seq(Entry), NEW rs \in Seq(RowType),
         NEW q \in Queue, NEW d \in Links, EmitDeployDone(o, rs, q, d)
  PROVE  ForwarderType' /\ fq' \in Queue /\ down' \in Links
<1>1. <<>> \in Seq(Entry) /\ <<>> \in Seq(RowType) /\ Len(<<>>) = 0
  OBVIOUS
<1>2. SenderOK(IdleSender)
  BY IdleOK
<1>3. Append(reports, [order |-> o, rows |-> rs]) \in Seq(Report)
  BY DEF ForwarderType, Report
<1>4. /\ phase' = "IDLE" /\ tx' = IdleSender /\ timers' = {} /\ wireBusy' = FALSE
      /\ orderList' = <<>> /\ nextOrderIdx' = 0 /\ results' = <<>> /\ masterRow' = 0
      /\ heard' = heard /\ fq' = q /\ down' = d
      /\ reports' = Append(reports, [order |-> o, rows |-> rs])
  BY DEF EmitDeployDone, FreeWire
<1>5. /\ phase' \in Phase /\ phase' \notin Waiting /\ phase' # "MASTER_SELF_FLASHING"
      /\ SenderOK(tx')
  BY <1>2, <1>4 DEF Phase, Waiting
<1>6. /\ nextOrderIdx' \in 0 .. Len(orderList') + 1 /\ masterRow' \in 0 .. Len(orderList')
      /\ orderList' \in Seq(Entry) /\ results' \in Seq(RowType)
  BY <1>1, <1>4
<1> QED
  BY <1>3, <1>4, <1>5, <1>6 DEF ForwarderType

(* The master's own flash is asked for.                                     *)
LEMMA StartMasterType ==
  ASSUME ForwarderType, LinkType, NEW o \in Seq(Entry), NEW rs \in Seq(RowType),
         NEW mr \in 1 .. Len(o), NEW q \in Queue, NEW d \in Links,
         StartMasterSelfFlash(o, rs, mr, q, d)
  PROVE  ForwarderType' /\ LinkType'
<1>1. SenderOK(IdleSender) /\ mr \in Nat \ {0} /\ Len(o) \in Nat
  BY IdleOK
<1>2. CASE /\ phase' = "MASTER_SELF_FLASHING"
           /\ orderList' = o /\ nextOrderIdx' = Len(o) + 1 /\ results' = rs /\ masterRow' = mr
           /\ tx' = IdleSender
           /\ timers' = {"masterSelfFlash"}
           /\ localReq' = localReq + 1
           /\ fq' = q
           /\ down' = d
           /\ HoldWire
           /\ UNCHANGED <<heard, reports>>
  <2>1. wireBusy' \in BOOLEAN
    BY <1>2 DEF HoldWire
  <2> QED
    BY <1>1, <1>2, <2>1 DEF ForwarderType, LinkType, Phase, Waiting, Timer
<1>3. CASE /\ EmitDeployDone(o, WithMasterRow(rs, mr, "FAILED", "self_flash_setup"), q, d)
           /\ UNCHANGED localReq
  <2>1. WithMasterRow(rs, mr, "FAILED", "self_flash_setup") \in Seq(RowType)
    BY <1>1, WithMasterRowType DEF Reason
  <2> QED
    BY <1>3, <2>1, EmitType DEF LinkType
<1> QED
  BY <1>2, <1>3 DEF StartMasterSelfFlash

(* A transfer to the padawan at position i is begun.                        *)
LEMMA StartPadawanType ==
  ASSUME ForwarderType, LinkType, NEW o \in Seq(Entry), NEW i \in 1 .. Len(o), o[i] # Master,
         NEW rs \in Seq(RowType), NEW mr \in 0 .. Len(o), NEW q \in Queue, NEW d \in Links,
         StartPadawan(o, i, rs, mr, q, d)
  PROVE  ForwarderType' /\ LinkType'
<1>1. o[i] \in Padawans /\ i \in Nat
  BY DEF Entry
<1>2. SenderOK(tx')
  <2>1. WindowSize \in Nat /\ MaxRetries \in Nat /\ TotalChunks \in Nat
    BY ForwarderAssumption, SenderAssumption
  <2> QED
    BY <1>1, <2>1, BeginOK DEF StartPadawan
<1>3. ForwarderType'
  BY <1>1, <1>2 DEF StartPadawan, ForwarderType, Phase, Waiting, Timer, Current
<1>4. CASE /\ down' = [d EXCEPT ![o[i]] = Deliver(@, <<Frame("BEGIN", i, TotalChunks)>>)]
           /\ fq' = q
  <2>1. <<Frame("BEGIN", i, TotalChunks)>> \in Seq(FrameType)
    BY <1>1, ForwarderAssumption DEF Frame, FrameType
  <2>2. down' \in Links
    BY <1>1, <1>4, <2>1, Delivered
  <2> QED
    BY <1>3, <1>4, <2>2 DEF StartPadawan, LinkType
<1>5. CASE down' = d /\ fq' = Post(q, Msg("BEGIN_NAK", Master, TimeoutId, i))
  <2>1. Msg("BEGIN_NAK", Master, TimeoutId, i) \in Message
    BY <1>1 DEF Msg, Message, Kind, TimeoutId
  <2> QED
    BY <1>3, <1>5, <2>1, Posted DEF StartPadawan, LinkType
<1> QED
  BY <1>4, <1>5 DEF StartPadawan

(* startNextPadawan from any position.                                      *)
LEMMA NextPadawanType ==
  ASSUME ForwarderType, LinkType, NEW o \in Seq(Entry), NEW i \in 1 .. Len(o) + 1,
         NEW rs \in Seq(RowType), NEW mr \in 0 .. Len(o), NEW q \in Queue, NEW d \in Links,
         StartNextPadawan(o, i, rs, mr, q, d)
  PROVE  ForwarderType' /\ LinkType'
<1>1. i \in Nat \ {0} /\ Len(o) \in Nat
  OBVIOUS
<1>2. ASSUME NEW j \in Int, j <= Len(o)
      PROVE  /\ PadawansIn(o, i, j) \in Seq(Entry)
             /\ rs \o Failed(PadawansIn(o, i, j), "setup_failed") \in Seq(RowType)
             /\ DeferMaster(o, i, j, mr) \in 0 .. Len(o)
  <2>1. PadawansIn(o, i, j) \in Seq(Entry)
    <3>1. PadawansIn(o, i, j) \in Seq(Padawans)
      BY <1>1, <1>2, PadawansInType
    <3> QED
      BY <3>1 DEF Entry
  <2>2. Failed(PadawansIn(o, i, j), "setup_failed") \in Seq(RowType)
    BY <2>1, FailedType DEF Reason
  <2>3. DeferMaster(o, i, j, mr) \in 0 .. Len(o)
    BY <1>1, <1>2, DeferMasterType
  <2> QED
    BY <2>1, <2>2, <2>3
<1>3. ASSUME NEW j \in i .. Len(o),
             LET skipped == PadawansIn(o, i, j - 1) IN
             /\ o[j] # Master
             /\ skipped # <<>> => "setup" \in Faults
             /\ \/ StartPadawan(o, j, rs \o Failed(skipped, "setup_failed"),
                                DeferMaster(o, i, j - 1, mr), q, d)
                \/ /\ "unstaged" \in Faults
                   /\ EmitDeployDone(o, rs \o Failed(skipped, "setup_failed")
                                           \o Failed(SubSeq(o, j, Len(o)), "no_firmware"), q, d)
                   /\ UNCHANGED localReq
      PROVE  ForwarderType' /\ LinkType'
  <2> DEFINE skipped == PadawansIn(o, i, j - 1)
             rows == rs \o Failed(skipped, "setup_failed")
             defer == DeferMaster(o, i, j - 1, mr)
  <2>1. rows \in Seq(RowType) /\ defer \in 0 .. Len(o) /\ j \in 1 .. Len(o)
    <3>1. j - 1 \in Int /\ j - 1 <= Len(o) /\ j \in 1 .. Len(o)
      OBVIOUS
    <3> QED
      BY <3>1, <1>2
  <2>2. o[j] # Master
    BY <1>3
  <2>3. \/ StartPadawan(o, j, rows, defer, q, d)
        \/ /\ EmitDeployDone(o, rows \o Failed(SubSeq(o, j, Len(o)), "no_firmware"), q, d)
           /\ UNCHANGED localReq
    BY <1>3
  <2> HIDE DEF rows, defer
  <2>4. CASE StartPadawan(o, j, rows, defer, q, d)
    BY <2>1, <2>2, <2>4, StartPadawanType
  <2>5. CASE /\ EmitDeployDone(o, rows \o Failed(SubSeq(o, j, Len(o)), "no_firmware"), q, d)
             /\ UNCHANGED localReq
    <3>1. SubSeq(o, j, Len(o)) \in Seq(Entry)
      BY <2>1
    <3>2. Failed(SubSeq(o, j, Len(o)), "no_firmware") \in Seq(RowType)
      BY <3>1, FailedType DEF Reason
    <3>3. rows \o Failed(SubSeq(o, j, Len(o)), "no_firmware") \in Seq(RowType)
      BY <2>1, <3>2
    <3> QED
      BY <2>5, <3>3, EmitType DEF LinkType
  <2> QED
    BY <2>3, <2>4, <2>5
<1>4. ASSUME LET skipped == PadawansIn(o, i, Len(o))
                 deferred == DeferMaster(o, i, Len(o), mr)
                 rows == rs \o Failed(skipped, "setup_failed") IN
             /\ skipped # <<>> => "setup" \in Faults
             /\ IF deferred # 0
                THEN StartMasterSelfFlash(o, rows, deferred, q, d)
                ELSE EmitDeployDone(o, rows, q, d) /\ UNCHANGED localReq
      PROVE  ForwarderType' /\ LinkType'
  <2> DEFINE deferred == DeferMaster(o, i, Len(o), mr)
             rows == rs \o Failed(PadawansIn(o, i, Len(o)), "setup_failed")
  <2>1. rows \in Seq(RowType) /\ deferred \in 0 .. Len(o)
    <3>1. Len(o) \in Int /\ Len(o) <= Len(o)
      BY <1>1
    <3> HIDE DEF rows, deferred
    <3> QED
      BY <3>1, <1>2 DEF rows, deferred
  <2>2. IF deferred # 0
        THEN StartMasterSelfFlash(o, rows, deferred, q, d)
        ELSE EmitDeployDone(o, rows, q, d) /\ UNCHANGED localReq
    BY <1>4
  <2> HIDE DEF rows, deferred
  <2>3. CASE deferred # 0
    <3>1. deferred \in 1 .. Len(o)
      BY <2>1, <2>3
    <3> QED
      BY <2>1, <2>2, <2>3, <3>1, StartMasterType
  <2>4. CASE deferred = 0
    BY <2>1, <2>2, <2>4, EmitType DEF LinkType
  <2> QED
    BY <2>3, <2>4
<1> QED
  BY <1>3, <1>4 DEF StartNextPadawan

(* finishCurrentPadawanAndAdvance.                                          *)
LEMMA FinishType ==
  ASSUME ForwarderType, LinkType, phase \in Waiting, NEW status \in {"OK", "FAILED"},
         NEW reason \in Reason, NEW q \in Queue, NEW d \in Links,
         Finish(status, reason, q, d)
  PROVE  ForwarderType' /\ LinkType'
<1>1. /\ orderList \in Seq(Entry) /\ nextOrderIdx + 1 \in 1 .. Len(orderList) + 1
      /\ masterRow \in 0 .. Len(orderList)
  BY DEF ForwarderType
<1>2. Append(results, Row(Current, status, reason)) \in Seq(RowType)
  <2>1. Row(Current, status, reason) \in RowType
    BY DEF ForwarderType, Row, RowType
  <2> QED
    BY <2>1 DEF ForwarderType
<1> QED
  BY <1>1, <1>2, NextPadawanType DEF Finish

LEMMA AbortType ==
  ASSUME ForwarderType, LinkType, phase \in Waiting, NEW reason \in Reason,
         NEW q \in Queue, NEW d \in Links, Abort(reason, q, d)
  PROVE  ForwarderType' /\ LinkType'
BY FinishType DEF Abort

(* The chunks of one call of streamDrain.                                   *)
LEMMA ChunksType ==
  ASSUME NEW s, SenderOK(s), NEW k \in Nat
  PROVE  Chunks(s, k) \in Seq(FrameType)
<1>1. s.xferId \in Nat /\ s.next \in Nat
  BY DEF SenderOK, SenderType
<1>2. \A i \in 1 .. k : Frame("DATA", s.xferId, s.next + i - 1) \in FrameType
  BY <1>1 DEF Frame, FrameType
<1> QED
  BY <1>2 DEF Chunks

LEMMA ToCurrentType ==
  ASSUME Current \in Padawans, NEW d \in Links, NEW fs \in Seq(FrameType)
  PROVE  ToCurrent(d, fs) \in Links
BY Delivered DEF ToCurrent

(* streamDrain with a sender record s, into a phase that waits.             *)
LEMMA StreamDrainType ==
  ASSUME ForwarderType, LinkType, phase \in Waiting, NEW s, SenderOK(s), NEW ph \in Waiting,
         NEW ts \in SUBSET Timer, NEW q \in Queue, NEW d \in Links,
         StreamDrain(s, ph, ts, q, d)
  PROVE  ForwarderType' /\ LinkType'
<1>1. Room(s) \in Nat /\ Current \in Padawans
  BY RoomIs DEF ForwarderType
<1>2. ASSUME NEW k \in 0 .. Room(s) PROVE ToCurrent(d, Chunks(s, k)) \in Links
  <2>1. k \in Nat
    BY <1>1
  <2> QED
    BY <1>1, <2>1, ChunksType, ToCurrentType
<1>3. ASSUME NEW k \in 0 .. Room(s),
             /\ tx' = Sent(s, k)
             /\ down' = ToCurrent(d, Chunks(s, k))
             /\ phase' = ph
             /\ timers' = ts
             /\ fq' = q
             /\ UNCHANGED <<deploy, wireBusy, heard, localReq, reports>>
      PROVE  ForwarderType' /\ LinkType'
  <2>1. SenderOK(tx')
    BY <1>3, SentOK
  <2>2. down' \in Links
    BY <1>2, <1>3
  <2>3. ph \in Phase /\ ph # "MASTER_SELF_FLASHING"
    BY DEF Waiting, Phase
  <2> QED
    BY <1>3, <2>1, <2>2, <2>3 DEF ForwarderType, LinkType, deploy, Current
<1>4. ASSUME NEW k \in 0 .. Room(s) - 1, Abort("firmware_read", q, ToCurrent(d, Chunks(s, k)))
      PROVE  ForwarderType' /\ LinkType'
  <2>1. k \in 0 .. Room(s)
    BY <1>1
  <2> QED
    BY <1>2, <1>4, <2>1, AbortType DEF Reason
<1> QED
  BY <1>3, <1>4 DEF StreamDrain

(* A step that leaves the forwarder's own state alone.                      *)
LEMMA ForwarderSame ==
  ASSUME ForwarderType, UNCHANGED forwarderVars
  PROVE  ForwarderType'
BY DEF ForwarderType, forwarderVars, deploy, Current

LEMMA DropType ==
  ASSUME ForwarderType, LinkType, fq # <<>>, Drop
  PROVE  ForwarderType' /\ LinkType'
<1>1. Left \in Queue
  BY TakenType DEF LinkType
<1> QED
  BY <1>1, ForwarderSame DEF Drop, LinkType

LEMMA DeployBeginType ==
  ASSUME ForwarderType, LinkType, NEW o \in Seq(Entry), HandleDeployBegin(o)
  PROVE  ForwarderType' /\ LinkType'
<1>1. CASE Refusal(o) = "none"
  <2>1. StartNextPadawan(o, 1, <<>>, 0, fq, down)
    BY <1>1 DEF HandleDeployBegin
  <2>2. <<>> \in Seq(RowType) /\ 1 \in 1 .. Len(o) + 1 /\ 0 \in 0 .. Len(o)
    OBVIOUS
  <2> QED
    BY <2>1, <2>2, NextPadawanType DEF LinkType
<1>2. CASE Refusal(o) # "none"
  <2> DEFINE rows == IF o = <<>> THEN <<Row("unknown", "FAILED", Refusal(o))>>
                     ELSE Failed(o, Refusal(o))
  <2>1. Refusal(o) \in Reason
    BY <1>2 DEF Refusal, Reason
  <2>2. rows \in Seq(RowType)
    <3>1. <<Row("unknown", "FAILED", Refusal(o))>> \in Seq(RowType)
      BY <2>1 DEF Row, RowType
    <3>2. Failed(o, Refusal(o)) \in Seq(RowType)
      BY <2>1, FailedType
    <3> QED
      BY <3>1, <3>2
  <2>3. /\ reports' = Append(reports, [order |-> o, rows |-> rows])
        /\ UNCHANGED <<fq, down, phase, deploy, tx, timers, wireBusy, heard, localReq>>
    BY <1>2 DEF HandleDeployBegin
  <2> HIDE DEF rows
  <2>4. reports' \in Seq(Report)
    BY <2>2, <2>3 DEF ForwarderType, Report
  <2> QED
    BY <2>3, <2>4 DEF ForwarderType, LinkType, deploy, Current
<1> QED
  BY <1>1, <1>2

LEMMA BeginAckType ==
  ASSUME ForwarderType, LinkType, HandleBeginAck
  PROVE  ForwarderType' /\ LinkType'
<1>1. fq # <<>> /\ Left \in Queue
  BY TakenType DEF LinkType, HandleBeginAck
<1>2. CASE Drop
  BY <1>1, <1>2, DropType
<1>3. CASE ~Drop
  <2>1. /\ phase = "AWAITING_BEGIN_ACK"
        /\ StreamDrain(AfterBeginAck(tx, Taken.xferId), "STREAMING", {"tick"}, Left, down)
    BY <1>3 DEF HandleBeginAck
  <2>2. SenderOK(AfterBeginAck(tx, Taken.xferId))
    BY BeginAckOK DEF ForwarderType
  <2>3. "STREAMING" \in Waiting /\ {"tick"} \in SUBSET Timer /\ phase \in Waiting
    BY <2>1 DEF Waiting, Timer
  <2> QED
    BY <1>1, <2>1, <2>2, <2>3, StreamDrainType DEF LinkType
<1> QED
  BY <1>2, <1>3

LEMMA BeginNakType ==
  ASSUME ForwarderType, LinkType, HandleBeginNak
  PROVE  ForwarderType' /\ LinkType'
<1>1. fq # <<>> /\ Left \in Queue
  BY TakenType DEF LinkType, HandleBeginNak
<1>2. CASE Drop
  BY <1>1, <1>2, DropType
<1>3. CASE ~Drop
  <2>1. /\ phase \in Waiting
        /\ Abort("begin_ack_timeout", Left, down) \/ Abort("begin_nak", Left, down)
    BY <1>3 DEF HandleBeginNak, Waiting
  <2> QED
    BY <1>1, <2>1, AbortType DEF LinkType, Reason
<1> QED
  BY <1>2, <1>3

(* The OTA_END that follows the last acknowledgement.                       *)
LEMMA SendEndType ==
  ASSUME ForwarderType, LinkType, Current \in Padawans, NEW q \in Queue, SendEnd(q)
  PROVE  fq' \in Queue /\ down' \in Links
<1>1. CASE /\ down' = ToCurrent(down, <<Frame("END", tx.xferId, TotalChunks)>>)
           /\ fq' = q
  <2>1. <<Frame("END", tx.xferId, TotalChunks)>> \in Seq(FrameType)
    BY ForwarderAssumption DEF Frame, FrameType, ForwarderType, SenderOK, SenderType
  <2> QED
    BY <1>1, <2>1, ToCurrentType DEF LinkType
<1>2. CASE fq' = Post(q, Msg("END_ACK", Master, TimeoutId, nextOrderIdx)) /\ UNCHANGED down
  <2>1. Msg("END_ACK", Master, TimeoutId, nextOrderIdx) \in Message
    BY DEF Msg, Message, Kind, TimeoutId, ForwarderType
  <2> QED
    BY <1>2, <2>1, Posted DEF LinkType
<1> QED
  BY <1>1, <1>2 DEF SendEnd

LEMMA DataAckType ==
  ASSUME ForwarderType, LinkType, HandleDataAck
  PROVE  ForwarderType' /\ LinkType'
<1> DEFINE x == Taken.xferId
           q == Taken.arg
<1>1. fq # <<>> /\ Left \in Queue /\ Taken \in Message
  BY TakenType DEF LinkType, HandleDataAck
<1>2. CASE Drop
  BY <1>1, <1>2, DropType
<1>3. CASE ~Drop
  <2>1. /\ phase \in {"STREAMING", "AWAITING_END_ACK"}
        /\ \/ /\ tx' = AfterAck(tx, x, q)
              /\ phase' = "AWAITING_END_ACK"
              /\ timers' = {"endAck"}
              /\ SendEnd(Left)
              /\ UNCHANGED <<deploy, wireBusy, heard, localReq, reports>>
           \/ StreamDrain(AfterAck(tx, x, q), phase, timers, Left, down)
    BY <1>3 DEF HandleDataAck
  <2>2. phase \in Waiting /\ timers \in SUBSET Timer /\ Current \in Padawans
    BY <2>1 DEF Waiting, ForwarderType
  <2>3. SenderOK(AfterAck(tx, x, q))
    BY <1>1, AckOK DEF ForwarderType, Message
  <2> HIDE DEF x, q
  <2>4. CASE /\ tx' = AfterAck(tx, x, q)
             /\ phase' = "AWAITING_END_ACK"
             /\ timers' = {"endAck"}
             /\ SendEnd(Left)
             /\ UNCHANGED <<deploy, wireBusy, heard, localReq, reports>>
    <3>1. fq' \in Queue /\ down' \in Links
      BY <1>1, <2>2, <2>4, SendEndType
    <3>2. ForwarderType'
      BY <2>2, <2>3, <2>4 DEF ForwarderType, deploy, Current, Phase, Waiting, Timer
    <3> QED
      BY <2>4, <3>1, <3>2 DEF LinkType
  <2>5. CASE StreamDrain(AfterAck(tx, x, q), phase, timers, Left, down)
    BY <1>1, <2>2, <2>3, <2>5, StreamDrainType DEF LinkType
  <2> QED
    BY <2>1, <2>4, <2>5
<1> QED
  BY <1>2, <1>3

LEMMA DataNakType ==
  ASSUME ForwarderType, LinkType, HandleDataNak
  PROVE  ForwarderType' /\ LinkType'
<1>1. fq # <<>> /\ Left \in Queue /\ Taken \in Message
  BY TakenType DEF LinkType, HandleDataNak
<1>2. CASE Drop
  BY <1>1, <1>2, DropType
<1>3. CASE ~Drop
  <2>1. /\ phase = "STREAMING"
        /\ StreamDrain(AfterNak(tx, Taken.xferId, Taken.arg), phase, timers, Left, down)
    BY <1>3 DEF HandleDataNak
  <2>2. phase \in Waiting /\ timers \in SUBSET Timer
    BY <2>1 DEF Waiting, ForwarderType
  <2>3. SenderOK(AfterNak(tx, Taken.xferId, Taken.arg))
    BY <1>1, NakOK DEF ForwarderType, Message
  <2> QED
    BY <1>1, <2>1, <2>2, <2>3, StreamDrainType DEF LinkType
<1> QED
  BY <1>2, <1>3

LEMMA EndAckType ==
  ASSUME ForwarderType, LinkType, HandleEndAck
  PROVE  ForwarderType' /\ LinkType'
<1> DEFINE status == IF Taken.arg = 0 THEN "OK" ELSE "WRITE_ERROR"
           decision == EndAckDecision(tx, Taken.xferId, status)
<1>1. fq # <<>> /\ Left \in Queue
  BY TakenType DEF LinkType, HandleEndAck
<1>2. CASE Drop
  BY <1>1, <1>2, DropType
<1>3. CASE ~Drop
  <2>1. /\ phase = "AWAITING_END_ACK"
        /\ \/ Abort("end_ack_timeout", Left, down)
           \/ /\ tx' = AfterEndAck(tx, Taken.xferId, status)
              /\ AwaitFlashResult
              /\ fq' = Left
              /\ UNCHANGED <<down, deploy, wireBusy, heard, localReq, reports>>
           \/ Abort(CASE decision = "ABANDONED" -> "write_error"
                      [] decision = "PREMATURE" -> "premature_end_ack"
                      [] OTHER -> "end_ack_rejected", Left, down)
    BY <1>3 DEF HandleEndAck
  <2>2. phase \in Waiting /\ down \in Links
    BY <2>1 DEF Waiting, LinkType
  <2>3. CASE Abort("end_ack_timeout", Left, down)
    BY <1>1, <2>2, <2>3, AbortType DEF Reason
  <2>4. CASE /\ tx' = AfterEndAck(tx, Taken.xferId, status)
             /\ AwaitFlashResult
             /\ fq' = Left
             /\ UNCHANGED <<down, deploy, wireBusy, heard, localReq, reports>>
    <3>1. SenderOK(tx')
      BY <2>4, EndAckOK DEF ForwarderType
    <3> QED
      BY <1>1, <2>2, <2>4, <3>1
      DEF AwaitFlashResult, ForwarderType, LinkType, deploy, Current, Phase, Waiting, Timer
  <2>5. CASE Abort(CASE decision = "ABANDONED" -> "write_error"
                     [] decision = "PREMATURE" -> "premature_end_ack"
                     [] OTHER -> "end_ack_rejected", Left, down)
    <3> DEFINE reason == CASE decision = "ABANDONED" -> "write_error"
                           [] decision = "PREMATURE" -> "premature_end_ack"
                           [] OTHER -> "end_ack_rejected"
    <3>1. reason \in Reason
      BY DEF Reason
    <3> HIDE DEF reason
    <3>2. Abort(reason, Left, down)
      BY <2>5 DEF reason
    <3> QED
      BY <1>1, <2>2, <3>1, <3>2, AbortType
  <2> QED
    BY <2>1, <2>3, <2>4, <2>5
<1> QED
  BY <1>2, <1>3

(* The chunks a tick sends again.                                           *)
LEMMA AgainType ==
  ASSUME ForwarderType, NEW E \in SUBSET tx.inFlight,
         NEW s \in [1 .. Cardinality(E) -> {e.seq : e \in E}]
  PROVE  [i \in DOMAIN s |-> Frame("DATA", tx.xferId, s[i])] \in Seq(FrameType)
<1>1. Cardinality(E) \in Nat
  BY FewerSlots, FS_CardinalityType DEF ForwarderType
<1>2. \A e \in E : e.seq \in Nat
  BY DEF ForwarderType, SenderOK, SenderType, Slot
<1>3. tx.xferId \in Nat
  BY DEF ForwarderType, SenderOK, SenderType
<1>4. \A i \in 1 .. Cardinality(E) : Frame("DATA", tx.xferId, s[i]) \in FrameType
  <2>1. \A i \in 1 .. Cardinality(E) : s[i] \in Nat
    BY <1>2
  <2> QED
    BY <1>3, <2>1 DEF Frame, FrameType
<1> QED
  BY <1>1, <1>4

LEMMA TickType ==
  ASSUME ForwarderType, LinkType, NEW E \in SUBSET tx.inFlight, HandleTick(E)
  PROVE  ForwarderType' /\ LinkType'
<1>1. /\ phase = "STREAMING" /\ phase \in Waiting /\ timers \in SUBSET Timer
      /\ Current \in Padawans /\ fq \in Queue /\ down \in Links
  BY DEF HandleTick, Waiting, ForwarderType, LinkType
<1>2. CASE Exhausted(tx, E)
  BY <1>1, <1>2, AbortType DEF HandleTick, Reason
<1>3. CASE ~Exhausted(tx, E)
  <2>1. PICK s \in [1 .. Cardinality(E) -> {e.seq : e \in E}] :
          LET again == [i \in DOMAIN s |-> Frame("DATA", tx.xferId, s[i])] IN
          \/ StreamDrain(AfterTick(tx, E), phase, timers, fq, ToCurrent(down, again))
          \/ \E k \in 0 .. Len(again) - 1 :
               Abort("firmware_read", fq, ToCurrent(down, SubSeq(again, 1, k)))
    BY <1>3 DEF HandleTick
  <2> DEFINE again == [i \in DOMAIN s |-> Frame("DATA", tx.xferId, s[i])]
  <2>2. again \in Seq(FrameType)
    BY AgainType
  <2>3. \/ StreamDrain(AfterTick(tx, E), phase, timers, fq, ToCurrent(down, again))
        \/ \E k \in 0 .. Len(again) - 1 :
             Abort("firmware_read", fq, ToCurrent(down, SubSeq(again, 1, k)))
    BY <2>1
  <2> HIDE DEF again
  <2>4. CASE StreamDrain(AfterTick(tx, E), phase, timers, fq, ToCurrent(down, again))
    <3>1. ToCurrent(down, again) \in Links
      BY <1>1, <2>2, ToCurrentType
    <3>2. SenderOK(AfterTick(tx, E))
      BY TickOK DEF ForwarderType
    <3> QED
      BY <1>1, <2>4, <3>1, <3>2, StreamDrainType
  <2>5. ASSUME NEW k \in 0 .. Len(again) - 1,
               Abort("firmware_read", fq, ToCurrent(down, SubSeq(again, 1, k)))
        PROVE  ForwarderType' /\ LinkType'
    <3>1. SubSeq(again, 1, k) \in Seq(FrameType)
      BY <2>2
    <3>2. ToCurrent(down, SubSeq(again, 1, k)) \in Links
      BY <1>1, <3>1, ToCurrentType
    <3> QED
      BY <1>1, <2>5, <3>2, AbortType DEF Reason
  <2> QED
    BY <2>3, <2>4, <2>5
<1> QED
  BY <1>2, <1>3

LEMMA CheckVersionType ==
  ASSUME ForwarderType, LinkType, CheckPeerVersion
  PROVE  ForwarderType' /\ LinkType'
BY FinishType DEF CheckPeerVersion, Waiting, LinkType, Reason

LEMMA FlashResultType ==
  ASSUME ForwarderType, LinkType, HandleFlashResult
  PROVE  ForwarderType' /\ LinkType'
<1>1. fq # <<>> /\ Left \in Queue
  BY TakenType DEF LinkType, HandleFlashResult
<1>2. CASE Drop
  BY <1>1, <1>2, DropType
<1>3. CASE ~Drop
  <2>1. /\ phase = "AWAITING_FLASH_RESULT"
        /\ \/ /\ phase' = "AWAITING_VERSION_CONFIRMED"
              /\ timers' = {"versionConfirm", "tick"}
              /\ FreeWire
              /\ heard' = NotHeard
              /\ fq' = Left
              /\ UNCHANGED <<down, deploy, tx, localReq, reports>>
           \/ Abort("flash_failed", Left, down)
    BY <1>3 DEF HandleFlashResult
  <2>2. phase \in Waiting /\ down \in Links
    BY <2>1 DEF Waiting, LinkType
  <2>3. CASE Abort("flash_failed", Left, down)
    BY <1>1, <2>2, <2>3, AbortType DEF Reason
  <2>4. CASE /\ phase' = "AWAITING_VERSION_CONFIRMED"
             /\ timers' = {"versionConfirm", "tick"}
             /\ FreeWire
             /\ heard' = NotHeard
             /\ fq' = Left
             /\ UNCHANGED <<down, deploy, tx, localReq, reports>>
    BY <1>1, <2>2, <2>4
    DEF FreeWire, NotHeard, ForwarderType, LinkType, deploy, Current, Phase, Waiting, Timer
  <2> QED
    BY <2>1, <2>3, <2>4
<1> QED
  BY <1>2, <1>3

LEMMA FlashTimeoutType ==
  ASSUME ForwarderType, LinkType, HandleFlashResultTimeout
  PROVE  ForwarderType' /\ LinkType'
<1>1. fq # <<>> /\ Left \in Queue
  BY TakenType DEF LinkType, HandleFlashResultTimeout
<1> QED
  BY <1>1, DropType, AbortType DEF HandleFlashResultTimeout, Waiting, LinkType, Reason

LEMMA VersionTimeoutType ==
  ASSUME ForwarderType, LinkType, HandleVersionConfirmTimeout
  PROVE  ForwarderType' /\ LinkType'
<1>1. fq # <<>> /\ Left \in Queue
  BY TakenType DEF LinkType, HandleVersionConfirmTimeout
<1> QED
  BY <1>1, DropType, AbortType DEF HandleVersionConfirmTimeout, Waiting, LinkType, Reason

(* The report of a deploy whose last row is the master's.                   *)
LEMMA FinishMasterType ==
  ASSUME ForwarderType, LinkType, phase = "MASTER_SELF_FLASHING",
         NEW status \in {"FAILED", "PENDING"}, NEW reason \in Reason, NEW q \in Queue,
         FinishMaster(status, reason, q)
  PROVE  ForwarderType' /\ fq' \in Queue /\ down' \in Links
<1>1. masterRow \in Nat \ {0} /\ orderList \in Seq(Entry) /\ results \in Seq(RowType)
  BY DEF ForwarderType
<1>2. WithMasterRow(results, masterRow, status, reason) \in Seq(RowType)
  BY <1>1, WithMasterRowType
<1> QED
  BY <1>1, <1>2, EmitType DEF FinishMaster, LinkType

LEMMA LocalResultType ==
  ASSUME ForwarderType, LinkType, HandleLocalFlashResult
  PROVE  ForwarderType' /\ LinkType'
<1>1. fq # <<>> /\ Left \in Queue
  BY TakenType DEF LinkType, HandleLocalFlashResult
<1>2. CASE phase # "MASTER_SELF_FLASHING"
  <2>1. /\ timers' = timers \ {"masterSelfFlash"}
        /\ fq' = Left
        /\ UNCHANGED <<down, deploy, phase, tx, wireBusy, heard, localReq, reports>>
    BY <1>2 DEF HandleLocalFlashResult
  <2> QED
    BY <1>1, <2>1 DEF ForwarderType, LinkType, deploy, Current
<1>3. CASE phase = "MASTER_SELF_FLASHING"
  <2>1. \/ FinishMaster("PENDING", "awaiting_post_reboot_version", <<>>) /\ localReq' = 0
        \/ FinishMaster("FAILED", "flash_failed", Left) /\ UNCHANGED localReq
    BY <1>3 DEF HandleLocalFlashResult
  <2>2. <<>> \in Queue
    BY LinkAssumption DEF Queue
  <2>3. "awaiting_post_reboot_version" \in Reason /\ "flash_failed" \in Reason
    BY DEF Reason
  <2> QED
    BY <1>1, <1>3, <2>1, <2>2, <2>3, FinishMasterType DEF LinkType
<1> QED
  BY <1>2, <1>3

LEMMA SelfTimeoutType ==
  ASSUME ForwarderType, LinkType, HandleMasterSelfFlashTimeout
  PROVE  ForwarderType' /\ LinkType'
<1>1. fq # <<>> /\ Left \in Queue
  BY TakenType DEF LinkType, HandleMasterSelfFlashTimeout
<1>2. "self_flash_timeout" \in Reason
  BY DEF Reason
<1> QED
  BY <1>1, <1>2, DropType, FinishMasterType DEF HandleMasterSelfFlashTimeout, LinkType

LEMMA TimerType ==
  ASSUME ForwarderType, LinkType, NEW t, TimerFires(t)
  PROVE  ForwarderType' /\ LinkType'
<1>1. t \in Timer \ {"tick"}
  BY DEF TimerFires, ForwarderType
<1>2. Msg(SentinelKind[t], Master, TimeoutId, nextOrderIdx) \in Message
  BY <1>1 DEF Msg, Message, Kind, TimeoutId, SentinelKind, Timer, ForwarderType
<1>3. fq' \in Queue
  BY <1>2, Posted DEF TimerFires, LinkType
<1> QED
  BY <1>3 DEF TimerFires, ForwarderType, LinkType, deploy, Current

(* The writers.                                                             *)

RxType == [active : BOOLEAN, xferId : Nat, total : Nat, next : Nat]

LEMMA ReadsType ==
  ASSUME LinkType, NEW p \in Padawans, NEW type, Reads(p, type)
  PROVE  down' \in Links /\ Head(down[p]) \in FrameType
<1>1. down[p] \in Seq(FrameType) /\ down[p] # <<>>
  BY DEF Reads, LinkType, Links
<1>2. Tail(down[p]) \in Seq(FrameType) /\ Head(down[p]) \in FrameType
  BY <1>1
<1> QED
  BY <1>2 DEF Reads, LinkType, Links

LEMMA ReplyType ==
  ASSUME LinkType, NEW p \in Padawans, NEW kind \in Kind, NEW x \in Nat, NEW arg \in Nat,
         Reply(p, kind, x, arg)
  PROVE  fq' \in Queue
<1>1. Msg(kind, p, x, arg) \in Message
  BY DEF Msg, Message
<1> QED
  BY <1>1, Posted DEF Reply, LinkType

LEMMA BecomesType ==
  ASSUME WriterType, NEW p \in Padawans, NEW w \in PadType, Becomes(p, w)
  PROVE  pad' \in [Padawans -> PadType]
BY DEF Becomes, WriterType

(* The records a writer becomes.                                            *)
LEMMA PadUpdates ==
  ASSUME NEW w \in PadType
  PROVE  /\ Released(w) \in PadType
         /\ [w EXCEPT !.watchdog = TRUE] \in PadType
         /\ \A r \in RxType : [w EXCEPT !.rx = r, !.watchdog = TRUE] \in PadType
         /\ [w EXCEPT !.mode = "flipping", !.watchdog = FALSE] \in PadType
         /\ [Released(w) EXCEPT !.boot = "new", !.mode = "restarting", !.fresh = FALSE] \in PadType
         /\ [Released(w) EXCEPT !.mode = "up"] \in PadType
         /\ [w EXCEPT !.watchdog = FALSE, !.fired = TRUE] \in PadType
         /\ [w EXCEPT !.fired = FALSE] \in PadType
         /\ [Released(w) EXCEPT !.fired = FALSE] \in PadType
<1>1. IdleReceiver \in RxType
  BY DEF IdleReceiver, RxType
<1>2. PadType = [rx : RxType, image : Image, boot : Image,
                 mode : {"up", "flipping", "restarting"},
                 watchdog : BOOLEAN, fired : BOOLEAN, fresh : BOOLEAN]
  BY DEF PadType, RxType
<1>3. Released(w) \in PadType
  BY <1>1, <1>2 DEF Released
<1>4. "new" \in Image
  BY DEF Image
<1> HIDE DEF Image
<1> QED
  BY <1>2, <1>3, <1>4

LEMMA BootedType ==
  ASSUME NEW b \in Image
  PROVE  Booted(b) \in PadType
<1>1. Factory \in PadType
  BY DEF Factory, PadType, IdleReceiver, Image
<1> QED
  BY <1>1 DEF Booted, PadType

LEMMA WriterStepType ==
  ASSUME LinkType, WriterType, NEW p \in Padawans, WriterStep(p)
  PROVE  LinkType' /\ WriterType'
<1> DEFINE m == Head(down[p])
           w == pad[p]
<1>0. w \in PadType /\ w.rx \in RxType /\ localReq \in Nat /\ masterBoot \in Image
  BY DEF WriterType, LinkType, PadType, RxType
<1>1. CASE HandleBegin(p)
  <2> DEFINE begun == BeginReceiver(m.xferId, m.seq, TRUE)
  <2>1. down' \in Links /\ m \in FrameType /\ UNCHANGED <<localReq, masterBoot>>
    BY <1>1, ReadsType DEF HandleBegin, Reads
  <2>2. begun \in RxType /\ m.xferId \in Nat
    BY <2>1 DEF BeginReceiver, IdleReceiver, RxType, FrameType
  <2>3. \/ Reply(p, "BEGIN_NAK", m.xferId, 0) /\ UNCHANGED pad
        \/ /\ Becomes(p, [w EXCEPT !.rx = begun, !.watchdog = TRUE])
           /\ Reply(p, "BEGIN_ACK", m.xferId, 0)
    BY <1>1, Zenon DEF HandleBegin
  <2>4. [w EXCEPT !.rx = begun, !.watchdog = TRUE] \in PadType
    BY <1>0, <2>2, PadUpdates, Zenon
  <2>5. fq' \in Queue
    BY <2>2, <2>3, ReplyType DEF Kind
  <2>6. pad' \in [Padawans -> PadType]
    <3> HIDE DEF begun, m, w
    <3> QED
      BY <2>3, <2>4, BecomesType DEF WriterType
  <2> QED
    BY <1>0, <2>1, <2>5, <2>6 DEF LinkType, WriterType
<1>2. CASE HandleData(p)
  <2> DEFINE next == AfterChunk(w.rx, m.xferId, m.seq, TRUE)
  <2>1. down' \in Links /\ m \in FrameType /\ UNCHANGED <<localReq, masterBoot>>
    BY <1>2, ReadsType DEF HandleData, Reads
  <2>2. m.xferId \in Nat /\ m.seq \in Nat /\ w.rx.next \in Nat
    BY <1>0, <2>1 DEF FrameType, RxType
  <2>3. next \in RxType
    <3>1. ASSUME NEW r \in RxType, NEW x, NEW q PROVE AfterChunk(r, x, q, TRUE) \in RxType
      <4>1. r.next + 1 \in Nat
        BY DEF RxType
      <4>2. [r EXCEPT !.next = r.next + 1] \in RxType
        BY <4>1 DEF RxType
      <4> QED
        BY <4>2 DEF AfterChunk
    <3> HIDE DEF m, w
    <3> QED
      BY <1>0, <3>1
  <2>4. \/ Reply(p, "DATA_NAK", m.xferId, 0) /\ UNCHANGED pad
        \/ Reply(p, "DATA_NAK", m.xferId, w.rx.next) /\ Becomes(p, [w EXCEPT !.watchdog = TRUE])
        \/ Reply(p, "DATA_NAK", m.xferId, 0) /\ Becomes(p, Released(w))
        \/ /\ Reply(p, "DATA_ACK", m.xferId, m.seq)
           /\ Becomes(p, [w EXCEPT !.rx = next, !.watchdog = TRUE])
    BY <1>2, Zenon DEF HandleData
  <2>5. fq' \in Queue
    <3> HIDE DEF m, w, next
    <3> QED
      BY <2>2, <2>4, ReplyType DEF Kind
  <2>6. /\ [w EXCEPT !.watchdog = TRUE] \in PadType
        /\ Released(w) \in PadType
        /\ [w EXCEPT !.rx = next, !.watchdog = TRUE] \in PadType
    BY <1>0, <2>3, PadUpdates, Zenon
  <2>7. pad' \in [Padawans -> PadType]
    <3> HIDE DEF m, w, next
    <3> QED
      BY <2>4, <2>6, BecomesType DEF WriterType
  <2> QED
    BY <1>0, <2>1, <2>5, <2>7 DEF LinkType, WriterType
<1>3. CASE HandleEnd(p)
  <2> DEFINE res == EndResult(w.rx, m.xferId, m.seq)
  <2>1. down' \in Links /\ m \in FrameType /\ UNCHANGED <<localReq, masterBoot>>
    BY <1>3, ReadsType, Zenon DEF HandleEnd, Reads
  <2>2. m.xferId \in Nat
    BY <2>1 DEF FrameType
  <2>3. \/ UNCHANGED <<pad, fq>>
        \/ /\ Reply(p, "END_ACK", m.xferId, 2)
           /\ Becomes(p, Released(w)) \/ Becomes(p, w)
        \/ /\ Reply(p, "END_ACK", m.xferId, 0)
           /\ Becomes(p, [w EXCEPT !.mode = "flipping", !.watchdog = FALSE])
    BY <1>3 DEF HandleEnd
  <2>4. fq' \in Queue
    <3> HIDE DEF m, w
    <3> QED
      BY <2>2, <2>3, ReplyType DEF Kind, LinkType
  <2>5. Released(w) \in PadType /\ [w EXCEPT !.mode = "flipping", !.watchdog = FALSE] \in PadType
    BY <1>0, PadUpdates, Zenon
  <2>6. pad' \in [Padawans -> PadType]
    <3> HIDE DEF m, w
    <3> QED
      BY <1>0, <2>3, <2>5, BecomesType DEF WriterType
  <2> QED
    BY <1>0, <2>1, <2>4, <2>6 DEF LinkType, WriterType
<1>4. CASE FlipBootPartition(p)
  <2> DEFINE x == w.rx.xferId
             done == [Released(w) EXCEPT !.boot = "new", !.mode = "restarting", !.fresh = FALSE]
             kept == [Released(w) EXCEPT !.mode = "up"]
  <2>1. /\ \/ Reply(p, "FLASH_RESULT", x, 0) /\ Becomes(p, done)
           \/ Reply(p, "FLASH_RESULT", x, 1) /\ Becomes(p, kept)
        /\ UNCHANGED <<down, localReq, masterBoot>>
    BY <1>4 DEF FlipBootPartition
  <2>2. done \in PadType /\ kept \in PadType /\ x \in Nat
    BY <1>0, PadUpdates DEF RxType
  <2> HIDE DEF w, x, done, kept
  <2>3. fq' \in Queue /\ pad' \in [Padawans -> PadType]
    BY <2>1, <2>2, ReplyType, BecomesType DEF Kind
  <2> QED
    BY <1>0, <2>1, <2>3 DEF LinkType, WriterType
<1>5. CASE Restart(p)
  <2>1. w.boot \in Image /\ "old" \in Image
    BY <1>0 DEF PadType, Image
  <2>2. pad' \in [Padawans -> PadType]
    BY <1>5, <2>1, BootedType, BecomesType DEF Restart
  <2>3. down' \in Links
    BY <1>5 DEF Restart, LinkType, Links
  <2> QED
    BY <1>0, <1>5, <2>2, <2>3 DEF Restart, LinkType, WriterType
<1>6. CASE HandleWatchdogFire(p)
  <2>1. \/ Becomes(p, [Released(w) EXCEPT !.fired = FALSE])
        \/ Becomes(p, [w EXCEPT !.fired = FALSE])
    BY <1>6, Zenon DEF HandleWatchdogFire
  <2>2. [Released(w) EXCEPT !.fired = FALSE] \in PadType /\ [w EXCEPT !.fired = FALSE] \in PadType
    BY <1>0, PadUpdates, Zenon
  <2> HIDE DEF w
  <2>3. pad' \in [Padawans -> PadType]
    BY <2>1, <2>2, BecomesType
  <2> QED
    BY <1>0, <1>6, <2>3 DEF HandleWatchdogFire, LinkType, WriterType
<1> QED
  BY <1>1, <1>2, <1>3, <1>4, <1>5, <1>6 DEF WriterStep

-----------------------------------------------------------------------------
(* The forwarder's messages, whichever it is.                               *)
LEMMA HandleMessageType ==
  ASSUME ForwarderType, LinkType, HandleMessage
  PROVE  ForwarderType' /\ LinkType'
BY BeginAckType, BeginNakType, DataAckType, DataNakType, EndAckType, FlashResultType,
   FlashTimeoutType, VersionTimeoutType, LocalResultType, SelfTimeoutType
DEF HandleMessage

(* Every state has its type.                                                *)
LEMMA InitType == Init => TypeInv
<1> SUFFICES ASSUME Init PROVE TypeInv
  OBVIOUS
<1> USE DEF Init
<1>1. ForwarderType
  <2>1. SenderOK(tx)
    BY IdleOK DEF ForwarderInit, SenderInit
  <2>2. /\ <<>> \in Seq(Entry) /\ <<>> \in Seq(RowType) /\ <<>> \in Seq(Report)
        /\ Len(<<>>) = 0
    OBVIOUS
  <2>3. phase \in Phase /\ phase \notin Waiting /\ phase # "MASTER_SELF_FLASHING"
    BY DEF ForwarderInit, Phase, Waiting
  <2>4. heard \in [image : Image \cup {"none"}, fresh : BOOLEAN]
    BY DEF ForwarderInit, NotHeard
  <2>5. /\ orderList = <<>> /\ nextOrderIdx = 0 /\ results = <<>> /\ masterRow = 0
        /\ timers = {} /\ wireBusy = FALSE /\ reports = <<>>
    BY DEF ForwarderInit
  <2>6. nextOrderIdx \in 0 .. Len(orderList) + 1 /\ masterRow \in 0 .. Len(orderList)
    BY <2>2, <2>5
  <2>7. /\ orderList \in Seq(Entry) /\ results \in Seq(RowType) /\ reports \in Seq(Report)
        /\ timers \subseteq Timer /\ wireBusy \in BOOLEAN
    BY <2>2, <2>5
  <2> QED
    BY <2>1, <2>3, <2>4, <2>6, <2>7 DEF ForwarderType
<1>2. LinkType
  <2>1. <<>> \in Queue /\ <<>> \in Seq(FrameType)
    BY LinkAssumption DEF Queue
  <2> QED
    BY <2>1 DEF LinkInit, LinkType, Links
<1>3. WriterType
  <2>1. Factory \in PadType
    BY DEF Factory, PadType, IdleReceiver, Image
  <2> QED
    BY <2>1 DEF WriterInit, WriterType, Image
<1>4. BoundsType
  BY DeployAssumption DEF BoundsType, Entry
<1>5. PollType
  BY DEF PollType
<1> QED
  BY <1>1, <1>2, <1>3, <1>4, <1>5 DEF TypeInv

(* What a step does to the polls and to the history.                        *)
PollStep ==
  \/ ~wireBusy /\ ~pollDue /\ pollDue' = TRUE /\ UNCHANGED <<wireBusy, history>>
  \/ /\ pollDue /\ pollDue' = FALSE
     /\ strays' = IF wireBusy THEN strays + 1 ELSE strays
     /\ UNCHANGED <<wireBusy, unheard>>

HistoryStep ==
  \/ Recorded
  \/ PollStep
  \/ /\ UNCHANGED <<wireBusy, pollDue, strays>>
     /\ unheard' = unheard \/ unheard' = (unheard \/ Len(fq) = QueueLength)

LEMMA HistorySteps ==
  ASSUME [Next]_vars
  PROVE  HistoryStep
<1>1. CASE Forward \/ TickStep \/ ConfirmVersion \/ Ask
  BY <1>1 DEF Forward, TickStep, ConfirmVersion, Ask, HistoryStep
<1>2. CASE PollingTimerFires
  BY <1>2 DEF PollingTimerFires, PollStep, HistoryStep, forwarderVars
<1>3. CASE Poll
  BY <1>3 DEF Poll, PollStep, HistoryStep
<1>4. ASSUME NEW t \in Timer, DeadlinePasses(t) PROVE HistoryStep
  BY <1>4 DEF DeadlinePasses, TimerFires, HistoryStep
<1>5. ASSUME UNCHANGED <<forwarderVars, pollDue, history>> PROVE HistoryStep
  BY <1>5 DEF forwarderVars, history, HistoryStep
<1>6. CASE MasterWrite \/ LoseReply
  BY <1>5, <1>6 DEF MasterWrite, LoseReply
<1>7. ASSUME NEW p \in Padawans, Write(p) \/ WriterGoesIdle(p) \/ LoseFrame(p) \/ Crash(p)
      PROVE  HistoryStep
  BY <1>5, <1>7 DEF Write, WriterGoesIdle, LoseFrame, Crash
<1>8. CASE UNCHANGED vars
  BY <1>5, <1>8 DEF vars
<1> QED
  BY <1>1, <1>2, <1>3, <1>4, <1>6, <1>7, <1>8 DEF Next, System, World

LEMMA PollTypeStep ==
  ASSUME PollType, HistoryStep
  PROVE  PollType'
<1>1. CASE Recorded
  <2>1. unheard' \in BOOLEAN
    BY <1>1, Zenon DEF Recorded
  <2>2. pollDue' \in BOOLEAN /\ strays' \in Nat
    BY <1>1 DEF Recorded, PollType
  <2> QED
    BY <2>1, <2>2 DEF PollType
<1>2. CASE PollStep
  <2>1. pollDue' \in BOOLEAN /\ unheard' = unheard
    BY <1>2, Zenon DEF PollStep, history, PollType
  <2>2. strays' \in Nat
    BY <1>2, SMT DEF PollStep, history, PollType
  <2> QED
    BY <2>1, <2>2, Zenon DEF PollType
<1>3. CASE /\ UNCHANGED <<wireBusy, pollDue, strays>>
           /\ unheard' = unheard \/ unheard' = (unheard \/ Len(fq) = QueueLength)
  <2>1. unheard' \in BOOLEAN
    BY <1>3, Zenon DEF PollType
  <2> QED
    BY <1>3, <2>1, Zenon DEF PollType
<1> QED
  BY <1>1, <1>2, <1>3 DEF HistoryStep

LEMMA TypeStep == TypeInv /\ [Next]_vars => TypeInv'
<1> SUFFICES ASSUME TypeInv, [Next]_vars PROVE TypeInv'
  OBVIOUS
<1> USE DEF TypeInv
<1>s. ASSUME UNCHANGED <<agenda, asked>> PROVE BoundsType'
  BY <1>s DEF BoundsType
<1>w. ASSUME UNCHANGED <<pad, masterBoot>> PROVE WriterType'
  BY <1>w DEF WriterType
<1>p. PollType'
  BY HistorySteps, PollTypeStep
<1>1. CASE Forward
  BY <1>1, <1>p, <1>s, <1>w, HandleMessageType DEF Forward, bounds
<1>2. CASE TickStep
  <2>1. PICK E \in SUBSET tx.inFlight : HandleTick(E)
    BY <1>2 DEF TickStep
  <2> QED
    BY <1>2, <2>1, <1>p, <1>s, <1>w, TickType DEF TickStep, bounds
<1>3. CASE Poll
  <2>1. /\ heard' = IF phase = "AWAITING_VERSION_CONFIRMED" THEN Answer ELSE heard
        /\ UNCHANGED <<deploy, phase, tx, timers, wireBusy, reports, fq, down, localReq,
                       pad, masterBoot, bounds>>
    BY <1>3 DEF Poll
  <2>2. heard' \in [image : Image \cup {"none"}, fresh : BOOLEAN]
    <3>1. CASE phase = "AWAITING_VERSION_CONFIRMED"
      <4>1. Current \in Padawans /\ pad[Current] \in PadType
        BY <3>1 DEF ForwarderType, WriterType, Waiting
      <4>2. Answer \in [image : Image \cup {"none"}, fresh : BOOLEAN]
        BY <4>1 DEF Answer, PadType
      <4> QED
        BY <2>1, <3>1, <4>2
    <3> QED
      BY <2>1, <3>1 DEF ForwarderType
  <2>3. ForwarderType'
    BY <2>1, <2>2 DEF ForwarderType, deploy, Current
  <2> QED
    BY <2>1, <2>3, <1>p, <1>s, <1>w DEF LinkType, bounds
<1>3a. CASE PollingTimerFires
  BY <1>3a, <1>p, <1>s, <1>w, ForwarderSame DEF PollingTimerFires, LinkType, bounds
<1>4. CASE ConfirmVersion
  BY <1>4, <1>p, <1>s, <1>w, CheckVersionType DEF ConfirmVersion, bounds
<1>5. CASE MasterWrite
  <2>1. Msg("LOCAL_FLASH_RESULT", "self", 0, 0) \in Message
        /\ Msg("LOCAL_FLASH_RESULT", "self", 0, 1) \in Message
    BY DEF Msg, Message, Kind
  <2>2. fq' \in Queue
    BY <1>5, <2>1, Posted DEF MasterWrite, LocalFlash, LinkType
  <2> QED
    BY <1>5, <2>2, <1>p, <1>s, ForwarderSame
    DEF MasterWrite, LocalFlash, LinkType, WriterType, Image, bounds
<1>6. ASSUME NEW t \in Timer, DeadlinePasses(t) PROVE TypeInv'
  BY <1>6, <1>p, <1>s, <1>w, TimerType DEF DeadlinePasses, bounds
<1>7. ASSUME NEW p \in Padawans, Write(p) PROVE TypeInv'
  BY <1>7, <1>p, <1>s, ForwarderSame, WriterStepType DEF Write, bounds
<1>8. ASSUME NEW p \in Padawans, WriterGoesIdle(p) PROVE TypeInv'
  <2>1. pad[p] \in PadType
    BY Zenon DEF WriterType
  <2>2. pad' \in [Padawans -> PadType]
    BY <1>8, <2>1, PadUpdates, BecomesType, Zenon DEF WriterGoesIdle, WatchdogFires
  <2> QED
    BY <1>8, <2>2, <1>p, <1>s, ForwarderSame
    DEF WriterGoesIdle, WatchdogFires, LinkType, WriterType, bounds
<1>9. CASE Ask
  <2>1. asked + 1 \in 1 .. Len(agenda) /\ agenda[asked + 1] \in Seq(Entry)
    BY <1>9 DEF Ask, BoundsType
  <2>2. HandleDeployBegin(agenda[asked + 1]) /\ asked' = asked + 1
    BY <1>9 DEF Ask
  <2>3. ForwarderType' /\ LinkType'
    BY <2>1, <2>2, DeployBeginType
  <2> QED
    BY <1>9, <2>1, <2>2, <2>3, <1>p, <1>w DEF Ask, BoundsType
<1>10. CASE LoseReply
  <2>1. fq' \in Queue
    BY <1>10, TakenType DEF LoseReply, LinkType
  <2> QED
    BY <1>10, <2>1, <1>p, <1>s, <1>w, ForwarderSame DEF LoseReply, LinkType
<1>11. ASSUME NEW p \in Padawans, LoseFrame(p) PROVE TypeInv'
  <2>1. down' \in Links
    <3>1. down[p] \in Seq(FrameType) /\ down[p] # <<>>
      BY <1>11 DEF LoseFrame, LinkType, Links
    <3>2. Tail(down[p]) \in Seq(FrameType)
      BY <3>1
    <3> QED
      BY <1>11, <3>2 DEF LoseFrame, LinkType, Links
  <2> QED
    BY <1>11, <2>1, <1>p, <1>s, <1>w, ForwarderSame DEF LoseFrame, LinkType
<1>12. ASSUME NEW p \in Padawans, Crash(p) PROVE TypeInv'
  <2>1. pad[p].boot \in Image
    BY DEF WriterType, PadType
  <2>2. pad' \in [Padawans -> PadType]
    BY <1>12, <2>1, BootedType, BecomesType DEF Crash
  <2>3. down' \in Links
    BY <1>12 DEF Crash, LinkType, Links
  <2> QED
    BY <1>12, <2>2, <2>3, <1>p, <1>s, ForwarderSame DEF Crash, LinkType, WriterType
<1>13. CASE UNCHANGED vars
  <2>1. UNCHANGED <<forwarderVars, fq, down, localReq, pad, masterBoot, agenda, asked>>
    BY <1>13 DEF vars, bounds
  <2> QED
    BY <2>1, <1>p, <1>s, <1>w, ForwarderSame DEF LinkType
<1> QED
  BY <1>1, <1>2, <1>3, <1>3a, <1>4, <1>5, <1>6, <1>7, <1>8, <1>9, <1>10, <1>11, <1>12, <1>13
  DEF Next, System, World

LEMMA TypeAlways == Spec => []TypeInv
<1> QED
  BY InitType, TypeStep, PTL DEF Spec

(* TypeOK: the forwarder's class members, its queues and its timers, the    *)
(* writers and the images hold what they are declared to hold, for every    *)
(* fleet, file, window, fault and order list.                               *)
THEOREM DeployTypeCorrect == Spec => []TypeOK
<1>1. TypeInv => TypeOK
  BY DEF TypeInv, ForwarderType, LinkType, WriterType, BoundsType, PollType, TypeOK, Queue, SenderOK,
         SenderTypeOK, Entry
<1> QED
  BY <1>1, TypeAlways, PTL

-----------------------------------------------------------------------------
(* What a step of the forwarder may be, seen from the deploy: every handler *)
(* leaves it where it is, shifts the phase of the current padawan, or       *)
(* concludes a padawan or the master.                                       *)

Stays ==
  /\ UNCHANGED <<deploy, phase, wireBusy, heard, reports>>
  /\ \/ timers' = timers
     \/ phase # "MASTER_SELF_FLASHING" /\ timers' = timers \ {"masterSelfFlash"}

Shifts(from, to, ts) ==
  /\ phase = from /\ phase' = to
  /\ timers' = ts
  /\ UNCHANGED <<deploy, reports>>

Streams == Shifts("AWAITING_BEGIN_ACK", "STREAMING", {"tick"}) /\ UNCHANGED <<wireBusy, heard>>
EndSent == Shifts("STREAMING", "AWAITING_END_ACK", {"endAck"}) /\ UNCHANGED <<wireBusy, heard>>
Written ==
  Shifts("AWAITING_END_ACK", "AWAITING_FLASH_RESULT", {"flashResult"}) /\ UNCHANGED <<wireBusy, heard>>
Flashed ==
  /\ Shifts("AWAITING_FLASH_RESULT", "AWAITING_VERSION_CONFIRMED", {"versionConfirm", "tick"})
  /\ wireBusy' = FALSE /\ heard' = NotHeard
  /\ Taken.kind = "FLASH_RESULT" /\ Taken.from = Current /\ Taken.arg = 0

Fails(q) == phase \in Waiting /\ \E reason \in Reason : \E d : Finish("FAILED", reason, q, d)

MasterDone(q) ==
  /\ phase = "MASTER_SELF_FLASHING"
  /\ \/ \E reason \in Reason : FinishMaster("FAILED", reason, q)
     \/ /\ Taken.kind = "LOCAL_FLASH_RESULT" /\ Taken.arg = 0
        /\ \E reason \in Reason : FinishMaster("PENDING", reason, q)

(* m ends the wait the forwarder is in.                                     *)
EndsWait(m) ==
  phase \in DOMAIN WaitTimer /\ m.kind = SentinelKind[WaitTimer[phase]] /\ m.from = Master

(* The queue after a handler that was left with q.                          *)
Posts(q) ==
  \/ fq' = q
  \/ \E kind \in {"BEGIN_NAK", "END_ACK"}, n \in Nat :
       fq' = Post(q, Msg(kind, Master, TimeoutId, n))

(* A sentinel carries the id no transfer has.                               *)
SentinelIds(q) ==
  \A i \in DOMAIN q :
    q[i].from = Master /\ q[i].kind \in {"BEGIN_NAK", "END_ACK"} => q[i].xferId = TimeoutId

LEMMA DrainMoves ==
  ASSUME NEW s, NEW ph, NEW ts, NEW q, NEW d, phase \in Waiting, StreamDrain(s, ph, ts, q, d)
  PROVE  \/ /\ phase' = ph /\ timers' = ts /\ fq' = q
            /\ UNCHANGED <<deploy, wireBusy, heard, reports>>
         \/ Fails(q)
<1>1. CASE "read" \in Faults
            /\ \E k \in 0 .. Room(s) - 1 : Abort("firmware_read", q, ToCurrent(d, Chunks(s, k)))
  BY <1>1 DEF Abort, Fails, Reason
<1>2. CASE \E k \in 0 .. Room(s) :
             /\ k < Room(s) => "txFull" \in Faults
             /\ tx' = Sent(s, k)
             /\ down' = ToCurrent(d, Chunks(s, k))
             /\ phase' = ph
             /\ timers' = ts
             /\ fq' = q
             /\ UNCHANGED <<deploy, wireBusy, heard, localReq, reports>>
  BY <1>2
<1> QED
  BY <1>1, <1>2 DEF StreamDrain

(* Which sentinel ends which wait.                                          *)
LEMMA WaitsAre ==
  /\ DOMAIN WaitTimer = {"AWAITING_BEGIN_ACK", "AWAITING_END_ACK", "AWAITING_FLASH_RESULT",
                         "AWAITING_VERSION_CONFIRMED", "MASTER_SELF_FLASHING"}
  /\ WaitTimer["AWAITING_BEGIN_ACK"] = "beginAck" /\ SentinelKind["beginAck"] = "BEGIN_NAK"
  /\ WaitTimer["AWAITING_END_ACK"] = "endAck" /\ SentinelKind["endAck"] = "END_ACK"
  /\ WaitTimer["AWAITING_FLASH_RESULT"] = "flashResult"
  /\ SentinelKind["flashResult"] = "FLASH_RESULT_TIMEOUT"
  /\ WaitTimer["AWAITING_VERSION_CONFIRMED"] = "versionConfirm"
  /\ SentinelKind["versionConfirm"] = "VERSION_CONFIRM_TIMEOUT"
  /\ WaitTimer["MASTER_SELF_FLASHING"] = "masterSelfFlash"
  /\ SentinelKind["masterSelfFlash"] = "MASTER_SELF_FLASH_TIMEOUT"
BY DEF WaitTimer, SentinelKind

(* A message that is dropped ended no wait.                                 *)
LEMMA DropMoves ==
  ASSUME Drop
  PROVE  Stays /\ fq' = Left
BY DEF Drop, Stays, forwarderVars

MessageMoves ==
  \/ Stays /\ fq' = Left /\ ~EndsWait(Taken)
  \/ (Streams \/ EndSent \/ Written \/ Flashed) /\ Posts(Left)
  \/ Fails(Left)
  \/ \E q \in {Left, <<>>} : MasterDone(q)

LEMMA BeginAckMoves ==
  ASSUME HandleBeginAck
  PROVE  MessageMoves
<1>1. ~EndsWait(Taken)
  <2>1. Taken.kind = "BEGIN_ACK"
    BY DEF HandleBeginAck
  <2> QED
    BY <2>1, WaitsAre DEF EndsWait
<1>2. CASE Drop
  BY <1>1, <1>2, DropMoves DEF MessageMoves
<1>3. CASE ~Drop
  <2>1. /\ phase = "AWAITING_BEGIN_ACK"
        /\ StreamDrain(AfterBeginAck(tx, Taken.xferId), "STREAMING", {"tick"}, Left, down)
    BY <1>3 DEF HandleBeginAck
  <2>2. phase \in Waiting
    BY <2>1 DEF Waiting
  <2> QED
    BY <2>1, <2>2, DrainMoves DEF MessageMoves, Streams, Shifts, Posts
<1> QED
  BY <1>2, <1>3

LEMMA BeginNakMoves ==
  ASSUME ForwarderType, fq # <<>>, fq \in Queue, SentinelIds(fq), HandleBeginNak
  PROVE  MessageMoves
<1>0. Taken.kind = "BEGIN_NAK" /\ Taken = fq[1] /\ 1 \in DOMAIN fq
  BY DEF HandleBeginNak, Taken, Queue
<1>1. CASE phase = "AWAITING_BEGIN_ACK" /\ Taken.xferId = TimeoutId
  <2>1. phase \in Waiting /\ Abort("begin_ack_timeout", Left, down)
    BY <1>1 DEF HandleBeginNak, Waiting
  <2> QED
    BY <2>1 DEF Abort, Fails, Reason, MessageMoves
<1>2. CASE phase = "AWAITING_BEGIN_ACK" /\ Taken.xferId # TimeoutId /\ FromCurrent(Taken)
  <2>1. phase \in Waiting /\ Abort("begin_nak", Left, down)
    BY <1>2 DEF HandleBeginNak, Waiting
  <2> QED
    BY <2>1 DEF Abort, Fails, Reason, MessageMoves
<1>3. CASE phase = "AWAITING_BEGIN_ACK" /\ Taken.xferId # TimeoutId /\ ~FromCurrent(Taken)
  <2>1. Drop
    BY <1>3 DEF HandleBeginNak
  <2>2. Taken.from # Master
    BY <1>0, <1>3 DEF SentinelIds
  <2> QED
    BY <2>1, <2>2, DropMoves DEF EndsWait, MessageMoves
<1>4. CASE phase # "AWAITING_BEGIN_ACK"
  <2>1. Drop
    BY <1>4 DEF HandleBeginNak
  <2>2. ~EndsWait(Taken)
    BY <1>0, <1>4, WaitsAre DEF EndsWait
  <2> QED
    BY <2>1, <2>2, DropMoves DEF MessageMoves
<1> QED
  BY <1>1, <1>2, <1>3, <1>4

LEMMA DataAckMoves ==
  ASSUME ForwarderType, HandleDataAck
  PROVE  MessageMoves
<1>1. ~EndsWait(Taken)
  <2>1. Taken.kind = "DATA_ACK"
    BY DEF HandleDataAck
  <2> QED
    BY <2>1, WaitsAre DEF EndsWait
<1> DEFINE after == AfterAck(tx, Taken.xferId, Taken.arg)
<1>2. \/ Drop
      \/ /\ phase \in {"STREAMING", "AWAITING_END_ACK"}
         /\ StreamDrain(after, phase, timers, Left, down)
      \/ /\ phase = "STREAMING" /\ phase' = "AWAITING_END_ACK" /\ timers' = {"endAck"}
         /\ SendEnd(Left)
         /\ UNCHANGED <<deploy, wireBusy, heard, localReq, reports>>
  BY DEF HandleDataAck
<1> HIDE DEF after
<1>3. CASE Drop
  BY <1>1, <1>3, DropMoves DEF MessageMoves
<1>4. CASE /\ phase \in {"STREAMING", "AWAITING_END_ACK"}
           /\ StreamDrain(after, phase, timers, Left, down)
  <2>1. phase \in Waiting
    BY <1>4 DEF Waiting
  <2> QED
    BY <1>1, <1>4, <2>1, DrainMoves DEF MessageMoves, Stays
<1>5. CASE /\ phase = "STREAMING" /\ phase' = "AWAITING_END_ACK" /\ timers' = {"endAck"}
           /\ SendEnd(Left)
           /\ UNCHANGED <<deploy, wireBusy, heard, localReq, reports>>
  <2>1. nextOrderIdx \in Nat
    BY DEF ForwarderType
  <2>2. Posts(Left)
    BY <1>5, <2>1 DEF SendEnd, Posts
  <2> QED
    BY <1>5, <2>2 DEF MessageMoves, EndSent, Shifts
<1> QED
  BY <1>2, <1>3, <1>4, <1>5

LEMMA DataNakMoves ==
  ASSUME HandleDataNak
  PROVE  MessageMoves
<1>1. ~EndsWait(Taken)
  <2>1. Taken.kind = "DATA_NAK"
    BY DEF HandleDataNak
  <2> QED
    BY <2>1, WaitsAre DEF EndsWait
<1>2. CASE Drop
  BY <1>1, <1>2, DropMoves DEF MessageMoves
<1>3. CASE ~Drop
  <2>1. /\ phase = "STREAMING"
        /\ StreamDrain(AfterNak(tx, Taken.xferId, Taken.arg), phase, timers, Left, down)
    BY <1>3 DEF HandleDataNak
  <2>2. phase \in Waiting
    BY <2>1 DEF Waiting
  <2> QED
    BY <1>1, <2>1, <2>2, DrainMoves DEF MessageMoves, Stays
<1> QED
  BY <1>2, <1>3

LEMMA EndAckMoves ==
  ASSUME ForwarderType, fq # <<>>, fq \in Queue, SentinelIds(fq), HandleEndAck
  PROVE  MessageMoves
<1>0. Taken.kind = "END_ACK" /\ Taken = fq[1] /\ 1 \in DOMAIN fq
  BY DEF HandleEndAck, Taken, Queue
<1>1. CASE phase # "AWAITING_END_ACK"
  <2>1. Drop
    BY <1>1 DEF HandleEndAck
  <2>2. ~EndsWait(Taken)
    BY <1>0, <1>1, WaitsAre DEF EndsWait
  <2> QED
    BY <2>1, <2>2, DropMoves DEF MessageMoves
<1>2. CASE phase = "AWAITING_END_ACK" /\ Taken.xferId # TimeoutId /\ ~FromCurrent(Taken)
  <2>1. Drop
    BY <1>2 DEF HandleEndAck
  <2>2. Taken.from # Master
    BY <1>0, <1>2 DEF SentinelIds
  <2> QED
    BY <2>1, <2>2, DropMoves DEF EndsWait, MessageMoves
<1>3. CASE phase = "AWAITING_END_ACK" /\ (Taken.xferId = TimeoutId \/ FromCurrent(Taken))
  <2>1. \/ \E reason \in Reason : Abort(reason, Left, down)
        \/ /\ AwaitFlashResult /\ fq' = Left
           /\ UNCHANGED <<deploy, wireBusy, heard, reports>>
    BY <1>3 DEF HandleEndAck, Reason
  <2>2. phase \in Waiting
    BY <1>3 DEF Waiting
  <2> QED
    BY <1>3, <2>1, <2>2
    DEF Abort, Fails, AwaitFlashResult, MessageMoves, Written, Shifts, Posts
<1> QED
  BY <1>1, <1>2, <1>3

LEMMA FlashResultMoves ==
  ASSUME HandleFlashResult
  PROVE  MessageMoves
<1>1. Taken.kind = "FLASH_RESULT" /\ ~EndsWait(Taken)
  <2>1. Taken.kind = "FLASH_RESULT"
    BY DEF HandleFlashResult
  <2> QED
    BY <2>1, WaitsAre DEF EndsWait
<1>2. CASE Drop
  BY <1>1, <1>2, DropMoves DEF MessageMoves
<1>3. CASE ~Drop
  <2>1. /\ phase = "AWAITING_FLASH_RESULT" /\ Taken.from = Current
        /\ \/ /\ Taken.arg = 0
              /\ phase' = "AWAITING_VERSION_CONFIRMED" /\ timers' = {"versionConfirm", "tick"}
              /\ wireBusy' = FALSE /\ heard' = NotHeard /\ fq' = Left
              /\ UNCHANGED <<deploy, reports>>
           \/ Abort("flash_failed", Left, down)
    BY <1>3 DEF HandleFlashResult, FromCurrent, FreeWire
  <2>2. phase \in Waiting
    BY <2>1 DEF Waiting
  <2> QED
    BY <1>1, <2>1, <2>2 DEF Abort, Fails, Reason, MessageMoves, Flashed, Shifts, Posts
<1> QED
  BY <1>2, <1>3

(* A timeout of its own kind ends the wait it is for and is dropped in any  *)
(* other.                                                                   *)
LEMMA TimeoutMoves ==
  ASSUME HandleFlashResultTimeout \/ HandleVersionConfirmTimeout \/ HandleMasterSelfFlashTimeout
  PROVE  MessageMoves
<1>1. CASE HandleFlashResultTimeout
  <2>1. CASE phase = "AWAITING_FLASH_RESULT"
    BY <1>1, <2>1 DEF HandleFlashResultTimeout, Waiting, Abort, Fails, MessageMoves, Reason
  <2>2. CASE phase # "AWAITING_FLASH_RESULT"
    <3>1. Drop /\ ~EndsWait(Taken)
      BY <1>1, <2>2, WaitsAre DEF HandleFlashResultTimeout, EndsWait
    <3> QED
      BY <3>1, DropMoves DEF MessageMoves
  <2> QED
    BY <2>1, <2>2
<1>2. CASE HandleVersionConfirmTimeout
  <2>1. CASE phase = "AWAITING_VERSION_CONFIRMED"
    BY <1>2, <2>1 DEF HandleVersionConfirmTimeout, Waiting, Abort, Fails, MessageMoves, Reason
  <2>2. CASE phase # "AWAITING_VERSION_CONFIRMED"
    <3>1. Drop /\ ~EndsWait(Taken)
      BY <1>2, <2>2, WaitsAre DEF HandleVersionConfirmTimeout, EndsWait
    <3> QED
      BY <3>1, DropMoves DEF MessageMoves
  <2> QED
    BY <2>1, <2>2
<1>3. CASE HandleMasterSelfFlashTimeout
  <2>1. CASE phase = "MASTER_SELF_FLASHING"
    BY <1>3, <2>1 DEF HandleMasterSelfFlashTimeout, MasterDone, MessageMoves, Reason
  <2>2. CASE phase # "MASTER_SELF_FLASHING"
    <3>1. Drop /\ ~EndsWait(Taken)
      BY <1>3, <2>2, WaitsAre DEF HandleMasterSelfFlashTimeout, EndsWait
    <3> QED
      BY <3>1, DropMoves DEF MessageMoves
  <2> QED
    BY <2>1, <2>2
<1> QED
  BY <1>1, <1>2, <1>3

LEMMA LocalResultMoves ==
  ASSUME HandleLocalFlashResult
  PROVE  MessageMoves
<1>1. Taken.kind = "LOCAL_FLASH_RESULT" /\ ~EndsWait(Taken)
  <2>1. Taken.kind = "LOCAL_FLASH_RESULT"
    BY DEF HandleLocalFlashResult
  <2> QED
    BY <2>1, WaitsAre DEF EndsWait
<1>2. CASE phase = "MASTER_SELF_FLASHING"
  BY <1>1, <1>2 DEF HandleLocalFlashResult, MasterDone, MessageMoves, Reason
<1>3. CASE phase # "MASTER_SELF_FLASHING"
  BY <1>1, <1>3 DEF HandleLocalFlashResult, Stays, MessageMoves
<1> QED
  BY <1>2, <1>3

(* Every message, whatever the forwarder is waiting for.                    *)
LEMMA Moves ==
  ASSUME ForwarderType, fq \in Queue, SentinelIds(fq), HandleMessage
  PROVE  fq # <<>> /\ MessageMoves
<1>1. fq # <<>>
  BY DEF HandleMessage, HandleBeginAck, HandleBeginNak, HandleDataAck, HandleDataNak,
         HandleEndAck, HandleFlashResult, HandleFlashResultTimeout, HandleVersionConfirmTimeout,
         HandleLocalFlashResult, HandleMasterSelfFlashTimeout
<1> QED
  BY <1>1, BeginAckMoves, BeginNakMoves, DataAckMoves, DataNakMoves, EndAckMoves,
     FlashResultMoves, TimeoutMoves, LocalResultMoves
  DEF HandleMessage

(* A tick while streaming sends chunks or gives the padawan up.             *)
LEMMA TickMoves ==
  ASSUME NEW E, HandleTick(E)
  PROVE  (Stays /\ fq' = fq) \/ Fails(fq)
<1>1. phase = "STREAMING" /\ phase \in Waiting
  BY DEF HandleTick, Waiting
<1>2. CASE Exhausted(tx, E)
  BY <1>1, <1>2 DEF HandleTick, Abort, Fails, Reason
<1>3. CASE ~Exhausted(tx, E)
  <2>1. PICK d : \/ StreamDrain(AfterTick(tx, E), phase, timers, fq, d)
                 \/ Abort("firmware_read", fq, d)
    BY <1>3 DEF HandleTick
  <2> QED
    <3>1. ASSUME StreamDrain(AfterTick(tx, E), phase, timers, fq, d)
          PROVE  (Stays /\ fq' = fq) \/ Fails(fq)
      BY <1>1, <3>1, DrainMoves DEF Stays
    <3>2. "firmware_read" \in Reason
      BY DEF Reason
    <3> QED
      BY <1>1, <2>1, <3>1, <3>2 DEF Abort, Fails
<1> QED
  BY <1>2, <1>3

-----------------------------------------------------------------------------
(* Timers, polls and the number of reports.                                 *)

(* How startNextPadawan may go on, left with the queue q.                   *)
Reported(q) ==
  /\ phase' = "IDLE" /\ timers' = {} /\ wireBusy' = FALSE /\ fq' = q
  /\ \E r : reports' = Append(reports, r)

NextBegun(q) ==
  /\ phase' = "AWAITING_BEGIN_ACK" /\ timers' = {"beginAck"} /\ wireBusy' = TRUE
  /\ UNCHANGED reports /\ Posts(q)

MasterBegun(o, q) ==
  /\ phase' = "MASTER_SELF_FLASHING" /\ timers' = {"masterSelfFlash"} /\ fq' = q
  /\ orderList' = o /\ HoldWire
  /\ UNCHANGED reports

Advances(o, q) == Reported(q) \/ NextBegun(q) \/ MasterBegun(o, q)

LEMMA EmitReports ==
  ASSUME NEW o, NEW rs, NEW q, NEW d, EmitDeployDone(o, rs, q, d)
  PROVE  Reported(q)
BY DEF EmitDeployDone, FreeWire, Reported

LEMMA NextAdvances ==
  ASSUME NEW o \in Seq(Entry), NEW i \in 1 .. Len(o) + 1, NEW rs, NEW mr, NEW q, NEW d,
         StartNextPadawan(o, i, rs, mr, q, d)
  PROVE  Advances(o, q)
<1>1. ASSUME NEW j \in 1 .. Len(o), NEW rows, NEW defer, StartPadawan(o, j, rows, defer, q, d)
      PROVE  NextBegun(q)
  <2>1. j \in Nat
    OBVIOUS
  <2> QED
    BY <1>1, <2>1 DEF StartPadawan, NextBegun, Posts
<1>2. ASSUME NEW rows, NEW defer, StartMasterSelfFlash(o, rows, defer, q, d)
      PROVE  Advances(o, q)
  BY <1>2, EmitReports DEF StartMasterSelfFlash, MasterBegun, Advances
<1>3. \/ \E j \in i .. Len(o) : \E rows, defer :
           \/ StartPadawan(o, j, rows, defer, q, d)
           \/ EmitDeployDone(o, rows, q, d)
      \/ \E rows, defer :
           \/ StartMasterSelfFlash(o, rows, defer, q, d)
           \/ EmitDeployDone(o, rows, q, d)
  BY Zenon DEF StartNextPadawan
<1>4. \A j \in i .. Len(o) : j \in 1 .. Len(o)
  OBVIOUS
<1> QED
  BY <1>1, <1>2, <1>3, <1>4, EmitReports DEF Advances

LEMMA FinishAdvances ==
  ASSUME ForwarderType, phase \in Waiting, NEW status, NEW reason, NEW q, NEW d,
         Finish(status, reason, q, d)
  PROVE  Advances(orderList, q)
<1>1. orderList \in Seq(Entry) /\ nextOrderIdx + 1 \in 1 .. Len(orderList) + 1
  BY DEF ForwarderType
<1> QED
  BY <1>1, NextAdvances DEF Finish

LEMMA FailsAdvances ==
  ASSUME ForwarderType, NEW q, Fails(q)
  PROVE  phase \in Waiting /\ Advances(orderList, q)
BY FinishAdvances DEF Fails

LEMMA MasterDoneReports ==
  ASSUME NEW q, MasterDone(q)
  PROVE  phase # "IDLE" /\ Reported(q)
BY EmitReports DEF MasterDone, FinishMaster

(* The forwarder's steps, and what is left of the queue.                    *)
Onward ==
  \/ phase \in Waiting /\ Advances(orderList, fq)
  \/ fq # <<>> /\ phase \in Waiting /\ Advances(orderList, Left)
  \/ fq # <<>> /\ phase # "IDLE" /\ (Reported(Left) \/ Reported(<<>>))
  \/ fq # <<>> /\ (Streams \/ EndSent \/ Written \/ Flashed) /\ Posts(Left)

(* A step of another part of the system: the forwarder's queue may grow.    *)
Apart ==
  /\ UNCHANGED <<forwarderVars, unheard>>
  /\ \/ fq' = fq
     \/ \E m \in Message : m.kind # "BEGIN_NAK" /\ m.kind # "END_ACK" /\ fq' = Post(fq, m)
     \/ \E m \in Message : m.from \in Padawans /\ fq' = Post(fq, m)
     \/ fq # <<>> /\ Taken.from \in Padawans /\ fq' = Left

ForwardStep ==
  /\ UNCHANGED asked
  /\ \/ Recorded /\ Onward
     \/ Recorded /\ fq # <<>> /\ Stays /\ fq' = Left /\ ~EndsWait(Taken)
     \/ Recorded /\ Stays /\ fq' = fq
     \/ UNCHANGED <<deploy, phase, timers, wireBusy, reports, fq, unheard>>
     \/ \E t : TimerFires(t) /\ unheard' = (unheard \/ Len(fq) = QueueLength)

(* A request is refused, or begins a deploy.                                *)
AskStep ==
  /\ asked' = asked + 1
  /\ Recorded
  /\ \/ phase = "IDLE" /\ \E o : Advances(o, fq)
     \/ /\ UNCHANGED <<deploy, phase, timers, wireBusy, fq>>
        /\ \E r : reports' = Append(reports, r)

LEMMA WriterApart ==
  ASSUME LinkType, WriterType, NEW p \in Padawans, WriterStep(p)
  PROVE  fq' = fq \/ \E m \in Message : m.from \in Padawans /\ fq' = Post(fq, m)
<1>1. ASSUME NEW type, Reads(p, type)
      PROVE  Head(down[p]).xferId \in Nat /\ Head(down[p]).seq \in Nat
  BY <1>1, ReadsType DEF FrameType
<1>2. pad[p].rx.xferId \in Nat /\ pad[p].rx.next \in Nat
  BY DEF WriterType, PadType
<1>3. ASSUME NEW kind \in Kind, NEW x \in Nat, NEW arg \in Nat, Reply(p, kind, x, arg)
      PROVE  \E m \in Message : m.from \in Padawans /\ fq' = Post(fq, m)
  <2>1. Msg(kind, p, x, arg) \in Message /\ Msg(kind, p, x, arg).from = p
    BY DEF Msg, Message
  <2> QED
    BY <1>3, <2>1 DEF Reply
<1>4. {"BEGIN_ACK", "BEGIN_NAK", "DATA_ACK", "DATA_NAK", "END_ACK", "FLASH_RESULT"} \subseteq Kind
  BY DEF Kind
<1>5. CASE HandleBegin(p)
  BY <1>1, <1>3, <1>4, <1>5 DEF HandleBegin
<1>6. CASE HandleData(p)
  BY <1>1, <1>2, <1>3, <1>4, <1>6 DEF HandleData
<1>7. CASE HandleEnd(p)
  BY <1>1, <1>3, <1>4, <1>7 DEF HandleEnd
<1>8. CASE FlipBootPartition(p)
  BY <1>2, <1>3, <1>4, <1>8 DEF FlipBootPartition
<1>9. CASE Restart(p) \/ HandleWatchdogFire(p)
  BY <1>9 DEF Restart, HandleWatchdogFire
<1> QED
  BY <1>5, <1>6, <1>7, <1>8, <1>9 DEF WriterStep

LEMMA Steps ==
  ASSUME TypeInv, SentinelIds(fq), [Next]_vars
  PROVE  ForwardStep \/ (Apart /\ UNCHANGED asked) \/ AskStep
<1> USE DEF TypeInv
<1>1. CASE Forward
  <2>1. fq # <<>> /\ MessageMoves /\ UNCHANGED asked /\ Recorded
    BY <1>1, Moves DEF Forward, bounds, LinkType
  <2>2. \A q : Fails(q) => phase \in Waiting /\ Advances(orderList, q)
    BY FailsAdvances
  <2>3. \A q : MasterDone(q) => phase # "IDLE" /\ Reported(q)
    BY MasterDoneReports
  <2> QED
    BY <2>1, <2>2, <2>3 DEF MessageMoves, ForwardStep, Onward
<1>2. CASE TickStep
  <2>1. \E E : HandleTick(E)
    BY <1>2 DEF TickStep
  <2>2. UNCHANGED asked /\ Recorded
    BY <1>2 DEF TickStep, bounds
  <2> QED
    BY <2>1, <2>2, TickMoves, FailsAdvances DEF ForwardStep, Onward
<1>3. CASE Poll
  BY <1>3 DEF Poll, ForwardStep, bounds
<1>3a. CASE PollingTimerFires
  BY <1>3a DEF PollingTimerFires, ForwardStep, forwarderVars, history, bounds
<1>4. CASE ConfirmVersion
  <2>1. phase \in Waiting /\ Finish("OK", "", fq, down) /\ UNCHANGED asked /\ Recorded
    BY <1>4 DEF ConfirmVersion, CheckPeerVersion, Waiting, bounds
  <2> QED
    BY <2>1, FinishAdvances DEF ForwardStep, Onward
<1>5. CASE MasterWrite
  <2>1. ASSUME NEW arg \in {0, 1}
        PROVE  Msg("LOCAL_FLASH_RESULT", "self", 0, arg) \in Message
               /\ Msg("LOCAL_FLASH_RESULT", "self", 0, arg).kind = "LOCAL_FLASH_RESULT"
    BY DEF Msg, Message, Kind
  <2>2. \E arg \in {0, 1} : fq' = Post(fq, Msg("LOCAL_FLASH_RESULT", "self", 0, arg))
    BY <1>5 DEF MasterWrite, LocalFlash
  <2>3. UNCHANGED <<forwarderVars, unheard>> /\ UNCHANGED asked
    BY <1>5 DEF MasterWrite, history, bounds
  <2> QED
    BY <2>1, <2>2, <2>3 DEF Apart
<1>6. ASSUME NEW t \in Timer, DeadlinePasses(t) PROVE ForwardStep
  BY <1>6 DEF DeadlinePasses, ForwardStep, bounds
<1>7. ASSUME NEW p \in Padawans, Write(p) PROVE Apart /\ UNCHANGED asked
  BY <1>7, WriterApart DEF Write, Apart, history, bounds
<1>8. ASSUME NEW p \in Padawans, WriterGoesIdle(p) PROVE Apart /\ UNCHANGED asked
  BY <1>8 DEF WriterGoesIdle, WatchdogFires, Apart, history, bounds
<1>9. CASE Ask
  <2>1. asked' = asked + 1 /\ HandleDeployBegin(agenda[asked + 1])
        /\ agenda[asked + 1] \in Seq(Entry) /\ Recorded
    BY <1>9 DEF Ask, BoundsType
  <2> DEFINE o == agenda[asked + 1]
  <2>2. CASE Refusal(o) = "none"
    <3>1. phase = "IDLE"
      BY <2>2 DEF Refusal
    <3>2. StartNextPadawan(o, 1, <<>>, 0, fq, down) /\ 1 \in 1 .. Len(o) + 1
      BY <2>1, <2>2 DEF HandleDeployBegin
    <3> QED
      BY <2>1, <3>1, <3>2, NextAdvances DEF AskStep
  <2>3. CASE Refusal(o) # "none"
    BY <2>1, <2>3 DEF HandleDeployBegin, AskStep
  <2> QED
    BY <2>2, <2>3
<1>10. CASE LoseReply
  BY <1>10 DEF LoseReply, Apart, history
<1>11. ASSUME NEW p \in Padawans, LoseFrame(p) \/ Crash(p) PROVE Apart /\ UNCHANGED asked
  BY <1>11 DEF LoseFrame, Crash, Apart, history
<1>12. CASE UNCHANGED vars
  BY <1>12 DEF vars, bounds, history, Apart
<1> QED
  BY <1>1, <1>2, <1>3, <1>3a, <1>4, <1>5, <1>6, <1>7, <1>8, <1>9, <1>10, <1>11, <1>12
  DEF Next, System, World

(* The sentinel that ends a wait is in the queue.                           *)
HasSentinel(q, kind) == \E i \in DOMAIN q : q[i].kind = kind /\ q[i].from = Master

(* A poll still to be sent is the first since the wire was taken.           *)
StraysCounted == (~wireBusy => strays = 0) /\ (pollDue => strays = 0)

ControlInv == SentinelIds(fq) /\ NoStrayTimer /\ WaitIsBounded /\ PollsYieldToTransfer
              /\ StraysCounted /\ OneReportPerDeploy

(* Posting keeps what is in the queue, and its sentinels in order.          *)
LEMMA PostKeeps ==
  ASSUME NEW q \in Queue, NEW m \in Message
  PROVE  /\ \A kind : HasSentinel(q, kind) => HasSentinel(Post(q, m), kind)
         /\ /\ SentinelIds(q)
            /\ m.from = Master /\ m.kind \in {"BEGIN_NAK", "END_ACK"} => m.xferId = TimeoutId
            => SentinelIds(Post(q, m))
<1>1. q \in Seq(Message) /\ Len(q) \in Nat
  BY DEF Queue
<1>2. CASE Post(q, m) = q
  BY <1>2
<1>3. CASE Post(q, m) # q
  <2> DEFINE r == Append(q, m)
  <2>1. Post(q, m) = r
    BY <1>3 DEF Post
  <2>2. /\ DOMAIN r = 1 .. Len(q) + 1 /\ DOMAIN q = 1 .. Len(q)
        /\ \A i \in 1 .. Len(q) : r[i] = q[i]
        /\ r[Len(q) + 1] = m
    BY <1>1
  <2> HIDE DEF r
  <2>3. \A i \in DOMAIN r : i \in DOMAIN q \/ i = Len(q) + 1
    BY <1>1, <2>2
  <2>4. \A i \in DOMAIN q : i \in DOMAIN r /\ r[i] = q[i]
    BY <1>1, <2>2
  <2> QED
    BY <2>1, <2>2, <2>3, <2>4 DEF HasSentinel, SentinelIds
<1> QED
  BY <1>2, <1>3

(* A sentinel that finds room is in the queue.                              *)
LEMMA PostAdds ==
  ASSUME NEW q \in Queue, NEW m \in Message, m.from = Master, Len(q) < QueueLength
  PROVE  HasSentinel(Post(q, m), m.kind)
<1>1. q \in Seq(Message) /\ Len(q) \in Nat
  BY DEF Queue
<1>2. Post(q, m) = Append(q, m)
  BY DEF Post
<1>3. Len(q) + 1 \in DOMAIN Append(q, m) /\ Append(q, m)[Len(q) + 1] = m
  BY <1>1
<1> QED
  BY <1>2, <1>3 DEF HasSentinel

(* Taking the head loses at most the head.                                  *)
LEMMA LeftKeeps ==
  ASSUME fq \in Queue, fq # <<>>
  PROVE  /\ \A kind : HasSentinel(fq, kind)
              => HasSentinel(Left, kind) \/ (Taken.kind = kind /\ Taken.from = Master)
         /\ SentinelIds(fq) => SentinelIds(Left)
<1>1. fq \in Seq(Message) /\ Len(fq) \in Nat
  BY DEF Queue
<1>2. /\ DOMAIN fq = 1 .. Len(fq) /\ DOMAIN Left = 1 .. Len(fq) - 1
      /\ \A i \in 1 .. Len(fq) - 1 : Left[i] = fq[i + 1]
      /\ Taken = fq[1]
  BY <1>1 DEF Left, Taken
<1>3. ASSUME NEW i \in 1 .. Len(fq), i # 1
      PROVE  i - 1 \in DOMAIN Left /\ Left[i - 1] = fq[i]
  <2>1. i - 1 \in 1 .. Len(fq) - 1 /\ (i - 1) + 1 = i
    BY <1>1, <1>3
  <2> QED
    BY <1>2, <2>1
<1>4. ASSUME NEW i \in DOMAIN Left PROVE i + 1 \in DOMAIN fq /\ Left[i] = fq[i + 1]
  BY <1>1, <1>2, <1>4
<1>5. ASSUME NEW kind, HasSentinel(fq, kind)
      PROVE  HasSentinel(Left, kind) \/ (Taken.kind = kind /\ Taken.from = Master)
  <2>1. PICK i \in 1 .. Len(fq) : fq[i].kind = kind /\ fq[i].from = Master
    BY <1>2, <1>5 DEF HasSentinel
  <2>2. CASE i = 1
    BY <1>2, <2>1, <2>2
  <2>3. CASE i # 1
    BY <1>3, <2>1, <2>3 DEF HasSentinel
  <2> QED
    BY <2>2, <2>3
<1>6. SentinelIds(fq) => SentinelIds(Left)
  BY <1>4 DEF SentinelIds
<1> QED
  BY <1>5, <1>6

(* What a handler posts is in order.                                        *)
LEMMA PostsKeeps ==
  ASSUME NEW q \in Queue, SentinelIds(q), Posts(q)
  PROVE  SentinelIds(fq')
<1>1. ASSUME NEW kind \in {"BEGIN_NAK", "END_ACK"}, NEW n \in Nat
      PROVE  Msg(kind, Master, TimeoutId, n) \in Message
             /\ Msg(kind, Master, TimeoutId, n).xferId = TimeoutId
  BY DEF Msg, Message, Kind, TimeoutId
<1>2. ASSUME NEW kind \in {"BEGIN_NAK", "END_ACK"}, NEW n \in Nat,
             fq' = Post(q, Msg(kind, Master, TimeoutId, n))
      PROVE  SentinelIds(fq')
  BY <1>1, <1>2, PostKeeps
<1> QED
  BY <1>2 DEF Posts

(* The sentinels in the queue stay in order.                                *)
LEMMA IdsStep ==
  ASSUME ForwarderType, LinkType, SentinelIds(fq),
         ForwardStep \/ (Apart /\ UNCHANGED asked) \/ AskStep
  PROVE  SentinelIds(fq')
<1>1. fq \in Queue /\ <<>> \in Queue /\ SentinelIds(<<>>)
  BY LinkAssumption DEF Queue, SentinelIds, LinkType
<1>2. fq # <<>> => Left \in Queue /\ SentinelIds(Left)
  BY <1>1, TakenType, LeftKeeps
<1>3. ASSUME NEW o, NEW q \in Queue, SentinelIds(q), Advances(o, q) \/ Reported(q)
      PROVE  SentinelIds(fq')
  BY <1>3, PostsKeeps DEF Advances, Reported, NextBegun, MasterBegun, Posts
<1>4. ASSUME NEW t, TimerFires(t) PROVE SentinelIds(fq')
  <2>1. t \in Timer \ {"tick"}
    BY <1>4 DEF TimerFires, ForwarderType
  <2> DEFINE m == Msg(SentinelKind[t], Master, TimeoutId, nextOrderIdx)
  <2>2. m \in Message /\ m.xferId = TimeoutId
    BY <2>1 DEF Msg, Message, Kind, TimeoutId, SentinelKind, Timer, ForwarderType
  <2>3. fq' = Post(fq, m)
    BY <1>4 DEF TimerFires
  <2> HIDE DEF m
  <2> QED
    BY <1>1, <2>2, <2>3, PostKeeps
<1>5. CASE ForwardStep
  BY <1>1, <1>2, <1>3, <1>4, <1>5, PostsKeeps DEF ForwardStep, Onward
<1>6. CASE AskStep
  BY <1>1, <1>3, <1>6 DEF AskStep
<1>7. CASE Apart
  <2>1. ASSUME NEW m \in Message, m.from \in Padawans, fq' = Post(fq, m) PROVE SentinelIds(fq')
    BY <1>1, <2>1, PostKeeps, ForwarderAssumption
  <2>2. ASSUME NEW m \in Message, m.kind # "BEGIN_NAK", m.kind # "END_ACK", fq' = Post(fq, m)
        PROVE  SentinelIds(fq')
    BY <1>1, <2>2, PostKeeps
  <2> QED
    BY <1>2, <1>7, <2>1, <2>2 DEF Apart
<1> QED
  BY <1>5, <1>6, <1>7

(* One poll at most gets out while the wire is taken.                       *)
LEMMA StraysStep ==
  ASSUME PollType, StraysCounted, strays <= 1, HistoryStep
  PROVE  StraysCounted' /\ strays' <= 1
<1>1. CASE Recorded
  BY <1>1 DEF Recorded, PollType, StraysCounted
<1>2. CASE PollStep
  BY <1>2 DEF PollStep, history, PollType, StraysCounted
<1>3. CASE UNCHANGED <<wireBusy, pollDue, strays>>
  BY <1>3 DEF StraysCounted
<1> QED
  BY <1>1, <1>2, <1>3 DEF HistoryStep

(* Polls wait for a transfer, and for nothing else.                         *)
LEMMA PollsStep ==
  ASSUME ForwarderType, PollsYieldToTransfer, strays' <= 1,
         ForwardStep \/ (Apart /\ UNCHANGED asked) \/ AskStep
  PROVE  PollsYieldToTransfer'
<1>1. ASSUME NEW o, NEW q, Advances(o, q), phase = "IDLE" PROVE PollsYieldToTransfer'
  BY <1>1 DEF Advances, Reported, NextBegun, MasterBegun, HoldWire, PollsYieldToTransfer
<1>2. ASSUME NEW q, Advances(orderList, q), phase \in Waiting PROVE PollsYieldToTransfer'
  <2>1. nextOrderIdx \in DOMAIN orderList /\ orderList[nextOrderIdx] # Master
    BY <1>2, ForwarderAssumption DEF ForwarderType, Current
  <2> QED
    BY <1>2, <2>1 DEF Advances, Reported, NextBegun, MasterBegun, PollsYieldToTransfer
<1>3. ASSUME NEW q, Reported(q) PROVE PollsYieldToTransfer'
  BY <1>3 DEF Reported, PollsYieldToTransfer
<1>4. ASSUME UNCHANGED <<phase, wireBusy, orderList>> PROVE PollsYieldToTransfer'
  BY <1>4 DEF PollsYieldToTransfer
<1>5. ASSUME Streams \/ EndSent \/ Written \/ Flashed PROVE PollsYieldToTransfer'
  BY <1>5 DEF Streams, EndSent, Written, Flashed, Shifts, PollsYieldToTransfer
<1>6. CASE ForwardStep
  BY <1>2, <1>3, <1>4, <1>5, <1>6 DEF ForwardStep, Onward, Stays, TimerFires, deploy
<1>7. CASE Apart \/ AskStep
  BY <1>1, <1>4, <1>7 DEF Apart, AskStep, forwarderVars, deploy
<1> QED
  BY <1>6, <1>7

(* A timer that runs is the timer of the wait.                              *)
LEMMA TimersStep ==
  ASSUME NoStrayTimer, ForwardStep \/ (Apart /\ UNCHANGED asked) \/ AskStep
  PROVE  NoStrayTimer'
<1> USE WaitsAre
<1>1. ASSUME NEW o, NEW q, Advances(o, q) \/ Reported(q) PROVE NoStrayTimer'
  BY <1>1 DEF Advances, Reported, NextBegun, MasterBegun, NoStrayTimer
<1>2. ASSUME UNCHANGED phase, timers' \subseteq timers PROVE NoStrayTimer'
  BY <1>2 DEF NoStrayTimer
<1>3. ASSUME Streams \/ EndSent \/ Written \/ Flashed PROVE NoStrayTimer'
  BY <1>3 DEF Streams, EndSent, Written, Flashed, Shifts, NoStrayTimer
<1>4. CASE ForwardStep
  BY <1>1, <1>2, <1>3, <1>4 DEF ForwardStep, Onward, Stays, TimerFires
<1>5. CASE Apart \/ AskStep
  BY <1>1, <1>2, <1>5 DEF Apart, AskStep, forwarderVars
<1> QED
  BY <1>4, <1>5

(* A wait keeps its timer until the timer's sentinel is queued, and the     *)
(* sentinel until the forwarder takes it and the wait ends.                 *)
LEMMA WaitStep ==
  ASSUME ForwarderType, LinkType, NoStrayTimer, WaitIsBounded,
         ForwardStep \/ (Apart /\ UNCHANGED asked) \/ AskStep
  PROVE  WaitIsBounded'
<1> DEFINE Bounded(ph, ts, q, lost) ==
      ph \in DOMAIN WaitTimer =>
        WaitTimer[ph] \in ts \/ HasSentinel(q, SentinelKind[WaitTimer[ph]]) \/ lost
<1>0. /\ Bounded(phase, timers, fq, unheard) /\ fq \in Queue
      /\ Bounded(phase', timers', fq', unheard') => WaitIsBounded'
  BY DEF WaitIsBounded, HasSentinel, LinkType
<1>r. ASSUME Recorded, UNCHANGED <<deploy, phase>> PROVE unheard => unheard'
  BY <1>r DEF Recorded, deploy
<1>1. ASSUME NEW o, NEW q, Advances(o, q) \/ Reported(q) PROVE Bounded(phase', timers', fq', unheard')
  BY <1>1, WaitsAre DEF Advances, Reported, NextBegun, MasterBegun
<1>2. ASSUME Streams \/ EndSent \/ Written \/ Flashed PROVE Bounded(phase', timers', fq', unheard')
  BY <1>2, WaitsAre DEF Streams, EndSent, Written, Flashed, Shifts
<1>3. ASSUME Recorded, fq # <<>>, Stays, fq' = Left, ~EndsWait(Taken)
      PROVE  Bounded(phase', timers', fq', unheard')
  <2>1. phase' = phase /\ (phase \in DOMAIN WaitTimer /\ WaitTimer[phase] \in timers
                             => WaitTimer[phase] \in timers')
    BY <1>3, WaitsAre DEF Stays
  <2>2. phase \in DOMAIN WaitTimer /\ HasSentinel(fq, SentinelKind[WaitTimer[phase]])
          => HasSentinel(fq', SentinelKind[WaitTimer[phase]])
    BY <1>0, <1>3, LeftKeeps DEF EndsWait
  <2>3. unheard => unheard'
    BY <1>3, <1>r DEF Stays
  <2> QED
    BY <1>0, <2>1, <2>2, <2>3
<1>4. ASSUME Recorded, Stays, fq' = fq PROVE Bounded(phase', timers', fq', unheard')
  BY <1>0, <1>4, <1>r, WaitsAre DEF Stays
<1>5. ASSUME UNCHANGED <<phase, timers>>, unheard => unheard',
             fq' = fq \/ \E m \in Message : fq' = Post(fq, m)
      PROVE  Bounded(phase', timers', fq', unheard')
  BY <1>0, <1>5, PostKeeps
<1>6. ASSUME fq # <<>>, Taken.from \in Padawans, fq' = Left,
             UNCHANGED <<phase, timers, unheard>>
      PROVE  Bounded(phase', timers', fq', unheard')
  <2>1. ~EndsWait(Taken)
    BY <1>6, ForwarderAssumption DEF EndsWait
  <2> QED
    BY <1>0, <1>6, <2>1, LeftKeeps DEF EndsWait
<1>7. ASSUME NEW t, TimerFires(t), unheard' = (unheard \/ Len(fq) = QueueLength)
      PROVE  Bounded(phase', timers', fq', unheard')
  <2>1. phase' = phase /\ t \in Timer \ {"tick"}
    BY <1>7 DEF TimerFires, ForwarderType
  <2>2. phase \in DOMAIN WaitTimer => t = WaitTimer[phase]
    BY <1>7 DEF TimerFires, NoStrayTimer
  <2>3. CASE Len(fq) < QueueLength
    <3> DEFINE m == Msg(SentinelKind[t], Master, TimeoutId, nextOrderIdx)
    <3>1. m \in Message /\ m.from = Master /\ m.kind = SentinelKind[t]
      BY <2>1 DEF Msg, Message, Kind, TimeoutId, SentinelKind, Timer, ForwarderType
    <3>2. fq' = Post(fq, m)
      BY <1>7 DEF TimerFires
    <3> HIDE DEF m
    <3>3. HasSentinel(fq', SentinelKind[t])
      BY <1>0, <2>3, <3>1, <3>2, PostAdds
    <3> QED
      BY <2>1, <2>2, <3>3
  <2>4. CASE ~(Len(fq) < QueueLength)
    <3>1. Len(fq) = QueueLength
      BY <1>0, <2>4, LinkAssumption DEF Queue
    <3> QED
      BY <1>7, <3>1
  <2> QED
    BY <2>3, <2>4
<1> HIDE DEF Bounded
<1>8. CASE ForwardStep
  BY <1>0, <1>1, <1>2, <1>3, <1>4, <1>5, <1>7, <1>8 DEF ForwardStep, Onward
<1>9. CASE Apart
  BY <1>0, <1>5, <1>6, <1>9 DEF Apart, forwarderVars
<1>10. CASE AskStep
  BY <1>0, <1>1, <1>5, <1>r, <1>10 DEF AskStep
<1> QED
  BY <1>8, <1>9, <1>10

(* A report for each deploy asked for, but the one under way.               *)
LEMMA ReportsStep ==
  ASSUME ForwarderType, BoundsType, OneReportPerDeploy,
         ForwardStep \/ (Apart /\ UNCHANGED asked) \/ AskStep
  PROVE  OneReportPerDeploy'
<1>0. asked \in Nat /\ Len(reports) \in Nat
  BY DEF BoundsType, ForwarderType
<1>1. ASSUME NEW r, reports' = Append(reports, r) PROVE Len(reports') = Len(reports) + 1
  BY <1>1 DEF ForwarderType
<1>2. ASSUME NEW o, NEW q, Advances(o, q) \/ Reported(q)
      PROVE  Len(reports') + (IF phase' = "IDLE" THEN 0 ELSE 1) = Len(reports) + 1
  BY <1>0, <1>1, <1>2 DEF Advances, Reported, NextBegun, MasterBegun
<1>3. ASSUME Streams \/ EndSent \/ Written \/ Flashed
      PROVE  UNCHANGED reports /\ phase # "IDLE" /\ phase' # "IDLE"
  BY <1>3 DEF Streams, EndSent, Written, Flashed, Shifts
<1>4. CASE ForwardStep
  BY <1>0, <1>2, <1>3, <1>4
  DEF ForwardStep, Onward, Stays, TimerFires, OneReportPerDeploy, Waiting
<1>5. CASE Apart /\ UNCHANGED asked
  BY <1>5 DEF Apart, forwarderVars, OneReportPerDeploy
<1>6. CASE AskStep
  BY <1>0, <1>1, <1>2, <1>6 DEF AskStep, OneReportPerDeploy
<1> QED
  BY <1>4, <1>5, <1>6

LEMMA ControlInit == Init => ControlInv
<1> SUFFICES ASSUME Init PROVE ControlInv
  OBVIOUS
<1>1. /\ phase = "IDLE" /\ timers = {} /\ wireBusy = FALSE /\ reports = <<>>
      /\ fq = <<>> /\ asked = 0 /\ strays = 0
  BY DEF Init, ForwarderInit, LinkInit
<1> QED
  BY <1>1, WaitsAre
  DEF ControlInv, SentinelIds, NoStrayTimer, WaitIsBounded, PollsYieldToTransfer,
      StraysCounted, OneReportPerDeploy

LEMMA ControlStep == TypeInv /\ ControlInv /\ [Next]_vars => ControlInv'
<1> SUFFICES ASSUME TypeInv, ControlInv, [Next]_vars PROVE ControlInv'
  OBVIOUS
<1> USE DEF TypeInv, ControlInv
<1>1. ForwardStep \/ (Apart /\ UNCHANGED asked) \/ AskStep
  BY Steps
<1>2. StraysCounted' /\ strays' <= 1
  BY HistorySteps, StraysStep DEF PollsYieldToTransfer
<1> QED
  BY <1>1, <1>2, IdsStep, PollsStep, TimersStep, WaitStep, ReportsStep

LEMMA ControlAlways == Spec => []ControlInv
<1> QED
  BY TypeAlways, ControlInit, ControlStep, PTL DEF Spec

(* OneReportPerDeploy: every deploy asked for is answered by one report, a   *)
(* refused one at once, whatever the operator asks for while one is under   *)
(* way.                                                                     *)
THEOREM DeployReportsOnce == Spec => []OneReportPerDeploy
<1>1. ControlInv => OneReportPerDeploy
  BY DEF ControlInv
<1> QED
  BY <1>1, ControlAlways, PTL

(* NoStrayTimer: stopping and starting of the deadlines in the handlers     *)
(* never leaves one running for a wait that is over.                        *)
THEOREM DeployTimersMatch == Spec => []NoStrayTimer
<1>1. ControlInv => NoStrayTimer
  BY DEF ControlInv
<1> QED
  BY <1>1, ControlAlways, PTL

(* WaitIsBounded: each wait of the forwarder has its deadline running or    *)
(* its sentinel in the queue, however late answers and old sentinels mix    *)
(* there, unless the deadline passed while the queue was full.              *)
THEOREM DeployWaitsBounded == Spec => []WaitIsBounded
<1>1. ControlInv => WaitIsBounded
  BY DEF ControlInv
<1> QED
  BY <1>1, ControlAlways, PTL

(* PollsYieldToTransfer: the polls are off the air during a transfer, but   *)
(* for one whose timer looked just before, and back for the wait that reads *)
(* their answers; a deploy of the master alone suspends them too.           *)
THEOREM DeployPollsYield == Spec => []PollsYieldToTransfer
<1>1. ControlInv => PollsYieldToTransfer
  BY DEF ControlInv
<1> QED
  BY <1>1, ControlAlways, PTL

-----------------------------------------------------------------------------
(* What a report says of a padawan and of the master is so.  With a         *)
(* bootloader that rolls back, a padawan reported OK may lose its image in  *)
(* a later deploy; without it, a boot partition once flipped stays so.      *)

Real(row) ==
  /\ row.status = "OK" => row.id \in Padawans /\ pad[row.id].image = "new"
  /\ row.status = "PENDING" => row.id = Master /\ masterBoot = "new"
RealRow == {row \in RowType : Real(row)}

(* A result in the queue is one of an image that will boot.                 *)
Sound(m) ==
  /\ m.kind = "FLASH_RESULT" /\ m.arg = 0 => m.from \in Padawans /\ pad[m.from].boot = "new"
  /\ m.kind = "LOCAL_FLASH_RESULT" /\ m.arg = 0 => masterBoot = "new"
SoundMessage == {m \in Message : Sound(m)}

(* A padawan that has restarted since its result runs what it would boot.   *)
PadSound(w) ==
  /\ w.image = "new" \/ w.mode = "restarting" => w.boot = "new"
  /\ w.fresh => w.image = w.boot

ConfirmSound ==
  phase = "AWAITING_VERSION_CONFIRMED" =>
    pad[Current].boot = "new" /\ (heard.fresh => pad[Current].image = "new")

SuccessInv ==
  /\ \A p \in Padawans : PadSound(pad[p])
  /\ fq \in Seq(SoundMessage)
  /\ ConfirmSound
  /\ results \in Seq(RealRow)
  /\ \A i \in DOMAIN reports : reports[i].rows \in Seq(RealRow)

(* Rows of failures are rows of any set that holds them all.                *)
HoldsFailures(R) ==
  \A id \in Entry \cup {"unknown"}, reason \in Reason : Row(id, "FAILED", reason) \in R

LEMMA FailedIn ==
  ASSUME NEW R, HoldsFailures(R), NEW ids \in Seq(Entry), NEW reason \in Reason
  PROVE  Failed(ids, reason) \in Seq(R)
<1>1. \A i \in DOMAIN ids : Row(ids[i], "FAILED", reason) \in R
  BY DEF HoldsFailures
<1>2. DOMAIN ids = 1 .. Len(ids) /\ Len(ids) \in Nat
  OBVIOUS
<1> QED
  BY <1>1, <1>2 DEF Failed

LEMMA WithMasterRowIn ==
  ASSUME NEW R, NEW rs \in Seq(R), NEW mr \in Nat \ {0}, NEW status, NEW reason,
         Row(Master, status, reason) \in R
  PROVE  WithMasterRow(rs, mr, status, reason) \in Seq(R)
<1> DEFINE i == IF mr - 1 < Len(rs) THEN mr - 1 ELSE Len(rs)
<1>1. i \in 0 .. Len(rs) /\ Len(rs) \in Nat
  OBVIOUS
<1>2. <<Row(Master, status, reason)>> \in Seq(R)
  OBVIOUS
<1> HIDE DEF i
<1>3. SubSeq(rs, 1, i) \in Seq(R) /\ SubSeq(rs, i + 1, Len(rs)) \in Seq(R)
  BY <1>1
<1>4. SubSeq(rs, 1, i) \o <<Row(Master, status, reason)>> \o SubSeq(rs, i + 1, Len(rs)) \in Seq(R)
  BY <1>2, <1>3
<1> QED
  BY <1>4 DEF WithMasterRow, i

(* The rows stay in R, and so do those of a report.                         *)
RowsIn(R) ==
  /\ results' \in Seq(R)
  /\ \/ UNCHANGED reports
     \/ \E o, rows : rows \in Seq(R) /\ reports' = Append(reports, [order |-> o, rows |-> rows])

LEMMA EmitIn ==
  ASSUME NEW R, NEW o, NEW rs \in Seq(R), NEW q, NEW d, EmitDeployDone(o, rs, q, d)
  PROVE  RowsIn(R) /\ phase' # "AWAITING_VERSION_CONFIRMED"
<1>1. <<>> \in Seq(R)
  OBVIOUS
<1> QED
  BY <1>1 DEF EmitDeployDone, RowsIn

LEMMA NextIn ==
  ASSUME NEW R, HoldsFailures(R), NEW o \in Seq(Entry), NEW i \in 1 .. Len(o) + 1,
         NEW rs \in Seq(R), NEW mr \in 0 .. Len(o), NEW q, NEW d,
         StartNextPadawan(o, i, rs, mr, q, d)
  PROVE  RowsIn(R) /\ phase' # "AWAITING_VERSION_CONFIRMED"
<1>0. i \in Nat \ {0} /\ Len(o) \in Nat
  OBVIOUS
<1>1. ASSUME NEW j \in Int, j <= Len(o)
      PROVE  /\ rs \o Failed(PadawansIn(o, i, j), "setup_failed") \in Seq(R)
             /\ DeferMaster(o, i, j, mr) \in 0 .. Len(o)
  <2>1. PadawansIn(o, i, j) \in Seq(Entry)
    <3>1. PadawansIn(o, i, j) \in Seq(Padawans)
      BY <1>0, <1>1, PadawansInType
    <3> QED
      BY <3>1 DEF Entry
  <2>2. Failed(PadawansIn(o, i, j), "setup_failed") \in Seq(R)
    BY <2>1, FailedIn DEF Reason
  <2>3. DeferMaster(o, i, j, mr) \in 0 .. Len(o)
    BY <1>0, <1>1, DeferMasterType
  <2> QED
    BY <2>2, <2>3
<1>2. ASSUME NEW j \in i .. Len(o), NEW rows \in Seq(R), NEW defer,
             StartPadawan(o, j, rows, defer, q, d)
      PROVE  RowsIn(R) /\ phase' # "AWAITING_VERSION_CONFIRMED"
  BY <1>2 DEF StartPadawan, RowsIn
<1>3. ASSUME NEW j \in i .. Len(o), NEW rows \in Seq(R),
             EmitDeployDone(o, rows \o Failed(SubSeq(o, j, Len(o)), "no_firmware"), q, d)
      PROVE  RowsIn(R) /\ phase' # "AWAITING_VERSION_CONFIRMED"
  <2>1. SubSeq(o, j, Len(o)) \in Seq(Entry)
    <3>1. j \in 1 .. Len(o)
      OBVIOUS
    <3> QED
      BY <3>1
  <2>2. Failed(SubSeq(o, j, Len(o)), "no_firmware") \in Seq(R)
    BY <2>1, FailedIn DEF Reason
  <2>3. rows \o Failed(SubSeq(o, j, Len(o)), "no_firmware") \in Seq(R)
    BY <2>2
  <2> QED
    BY <1>3, <2>3, EmitIn
<1>4. ASSUME NEW rows \in Seq(R), NEW defer \in 1 .. Len(o),
             StartMasterSelfFlash(o, rows, defer, q, d)
      PROVE  RowsIn(R) /\ phase' # "AWAITING_VERSION_CONFIRMED"
  <2>1. "self_flash_setup" \in Reason /\ Master \in Entry /\ defer \in Nat \ {0}
    BY DEF Reason, Entry
  <2>2. WithMasterRow(rows, defer, "FAILED", "self_flash_setup") \in Seq(R)
    BY <2>1, WithMasterRowIn DEF HoldsFailures
  <2> QED
    BY <1>4, <2>2, EmitIn DEF StartMasterSelfFlash, RowsIn
<1>5. ASSUME NEW j \in i .. Len(o),
             LET skipped == PadawansIn(o, i, j - 1) IN
             /\ o[j] # Master
             /\ skipped # <<>> => "setup" \in Faults
             /\ \/ StartPadawan(o, j, rs \o Failed(skipped, "setup_failed"),
                                DeferMaster(o, i, j - 1, mr), q, d)
                \/ /\ "unstaged" \in Faults
                   /\ EmitDeployDone(o, rs \o Failed(skipped, "setup_failed")
                                           \o Failed(SubSeq(o, j, Len(o)), "no_firmware"), q, d)
                   /\ UNCHANGED localReq
      PROVE  RowsIn(R) /\ phase' # "AWAITING_VERSION_CONFIRMED"
  <2> DEFINE rows == rs \o Failed(PadawansIn(o, i, j - 1), "setup_failed")
             defer == DeferMaster(o, i, j - 1, mr)
  <2>1. rows \in Seq(R)
    <3>1. j - 1 \in Int /\ j - 1 <= Len(o)
      OBVIOUS
    <3> QED
      BY <3>1, <1>1
  <2>2. \/ StartPadawan(o, j, rows, defer, q, d)
        \/ EmitDeployDone(o, rows \o Failed(SubSeq(o, j, Len(o)), "no_firmware"), q, d)
    BY <1>5
  <2> HIDE DEF rows, defer
  <2> QED
    BY <2>1, <2>2, <1>2, <1>3
<1>6. ASSUME LET skipped == PadawansIn(o, i, Len(o))
                 deferred == DeferMaster(o, i, Len(o), mr)
                 rows == rs \o Failed(skipped, "setup_failed") IN
             /\ skipped # <<>> => "setup" \in Faults
             /\ IF deferred # 0
                THEN StartMasterSelfFlash(o, rows, deferred, q, d)
                ELSE EmitDeployDone(o, rows, q, d) /\ UNCHANGED localReq
      PROVE  RowsIn(R) /\ phase' # "AWAITING_VERSION_CONFIRMED"
  <2> DEFINE deferred == DeferMaster(o, i, Len(o), mr)
             rows == rs \o Failed(PadawansIn(o, i, Len(o)), "setup_failed")
  <2>1. rows \in Seq(R) /\ deferred \in 0 .. Len(o)
    <3>1. Len(o) \in Int /\ Len(o) <= Len(o)
      BY <1>0
    <3> HIDE DEF rows, deferred
    <3> QED
      BY <3>1, <1>1 DEF rows, deferred
  <2>2. IF deferred # 0
        THEN StartMasterSelfFlash(o, rows, deferred, q, d)
        ELSE EmitDeployDone(o, rows, q, d)
    BY <1>6
  <2> HIDE DEF rows, deferred
  <2>3. deferred = 0 \/ deferred \in 1 .. Len(o)
    BY <1>0, <2>1
  <2> QED
    BY <2>1, <2>2, <2>3, <1>4, EmitIn
<1> QED
  BY <1>5, <1>6 DEF StartNextPadawan

LEMMA FinishIn ==
  ASSUME ForwarderType, phase \in Waiting, NEW R, HoldsFailures(R), results \in Seq(R),
         NEW status, NEW reason, Row(Current, status, reason) \in R, NEW q, NEW d,
         Finish(status, reason, q, d)
  PROVE  RowsIn(R) /\ phase' # "AWAITING_VERSION_CONFIRMED"
<1>1. /\ orderList \in Seq(Entry) /\ nextOrderIdx + 1 \in 1 .. Len(orderList) + 1
      /\ masterRow \in 0 .. Len(orderList)
  BY DEF ForwarderType
<1>2. Append(results, Row(Current, status, reason)) \in Seq(R)
  OBVIOUS
<1> QED
  BY <1>1, <1>2, NextIn DEF Finish

LEMMA MasterDoneIn ==
  ASSUME ForwarderType, NEW R, HoldsFailures(R), results \in Seq(R), NEW q, MasterDone(q),
         /\ Taken.kind = "LOCAL_FLASH_RESULT" /\ Taken.arg = 0
         => \A reason \in Reason : Row(Master, "PENDING", reason) \in R
  PROVE  RowsIn(R) /\ phase' # "AWAITING_VERSION_CONFIRMED"
<1>1. masterRow \in Nat \ {0} /\ Master \in Entry
  BY DEF ForwarderType, MasterDone, Entry
<1>2. ASSUME NEW status, NEW reason \in Reason, Row(Master, status, reason) \in R,
             FinishMaster(status, reason, q)
      PROVE  RowsIn(R) /\ phase' # "AWAITING_VERSION_CONFIRMED"
  <2>1. WithMasterRow(results, masterRow, status, reason) \in Seq(R)
    BY <1>1, <1>2, WithMasterRowIn
  <2> QED
    BY <1>2, <2>1, EmitIn DEF FinishMaster
<1>3. \A reason \in Reason : Row(Master, "FAILED", reason) \in R
  BY <1>1 DEF HoldsFailures
<1> QED
  BY <1>2, <1>3 DEF MasterDone

(* A failure is real whatever the images are.                               *)
LEMMA FailuresReal == HoldsFailures(RealRow)
BY DEF HoldsFailures, RealRow, Real, Row, RowType, Entry

(* What a padawan will boot stays new, and so does what it runs.            *)
Grows(v, w) ==
  /\ PadSound(w)
  /\ v.boot = "new" => w.boot = "new"
  /\ v.image = "new" => w.image = "new"

WriterSound(p, w) ==
  /\ pad' = [pad EXCEPT ![p] = w]
  /\ Grows(pad[p], w)
  /\ UNCHANGED masterBoot
  /\ \/ fq' = fq
     \/ \E m \in Message :
          /\ fq' = Post(fq, m)
          /\ m.kind # "LOCAL_FLASH_RESULT"
          /\ m.kind = "FLASH_RESULT" /\ m.arg = 0 => m.from = p /\ w.boot = "new"

LEMMA PadSame ==
  ASSUME WriterType, NEW p \in Padawans
  PROVE  pad = [pad EXCEPT ![p] = pad[p]]
BY DEF WriterType

(* Changing neither the images nor the restart leaves a padawan sound.      *)
LEMMA Harmless ==
  ASSUME NEW v \in PadType, PadSound(v), NEW r
  PROVE  /\ Grows(v, v)
         /\ Grows(v, Released(v))
         /\ Grows(v, [v EXCEPT !.watchdog = TRUE])
         /\ Grows(v, [v EXCEPT !.rx = r, !.watchdog = TRUE])
         /\ Grows(v, [v EXCEPT !.mode = "flipping", !.watchdog = FALSE])
         /\ Grows(v, [Released(v) EXCEPT !.mode = "up"])
         /\ Grows(v, [v EXCEPT !.watchdog = FALSE, !.fired = TRUE])
         /\ Grows(v, [v EXCEPT !.fired = FALSE])
         /\ Grows(v, [Released(v) EXCEPT !.fired = FALSE])
BY DEF Grows, PadSound, Released, PadType

LEMMA BootSound ==
  ASSUME NEW v \in PadType, PadSound(v)
  PROVE  /\ Grows(v, Booted(v.boot))
         /\ Grows(v, [Released(v) EXCEPT !.boot = "new", !.mode = "restarting", !.fresh = FALSE])
         /\ [Released(v) EXCEPT !.boot = "new", !.mode = "restarting", !.fresh = FALSE].boot = "new"
BY DEF Grows, PadSound, Released, PadType, Booted, Factory

LEMMA WriterStepSound ==
  ASSUME LinkType, WriterType, "rollback" \notin WriterFaults, NEW p \in Padawans,
         PadSound(pad[p]), WriterStep(p)
  PROVE  \E w : WriterSound(p, w)
<1> DEFINE v == pad[p]
<1>1. v \in PadType /\ PadSound(v) /\ pad = [pad EXCEPT ![p] = v]
  BY PadSame DEF WriterType
<1>2. ASSUME NEW type, Reads(p, type)
      PROVE  /\ Head(down[p]).xferId \in Nat /\ Head(down[p]).seq \in Nat
             /\ UNCHANGED masterBoot
  BY <1>2, ReadsType DEF FrameType, Reads
<1>3. v.rx.xferId \in Nat /\ v.rx.next \in Nat
  BY <1>1 DEF PadType
<1>4. ASSUME NEW kind \in {"BEGIN_ACK", "BEGIN_NAK", "DATA_ACK", "DATA_NAK", "END_ACK"},
             NEW x \in Nat, NEW arg \in Nat, Reply(p, kind, x, arg)
      PROVE  \E m \in Message :
               /\ fq' = Post(fq, m)
               /\ m.kind # "LOCAL_FLASH_RESULT" /\ m.kind # "FLASH_RESULT"
  <2>1. Msg(kind, p, x, arg) \in Message /\ Msg(kind, p, x, arg).kind = kind
    BY DEF Msg, Message, Kind
  <2> QED
    BY <1>4, <2>1 DEF Reply
<1> HIDE DEF v
<1>5. ASSUME NEW w, Grows(v, w), pad' = [pad EXCEPT ![p] = w], UNCHANGED masterBoot,
             \/ fq' = fq
             \/ \E m \in Message : /\ fq' = Post(fq, m)
                                   /\ m.kind # "LOCAL_FLASH_RESULT" /\ m.kind # "FLASH_RESULT"
      PROVE  \E u : WriterSound(p, u)
  BY <1>5 DEF WriterSound, v
<1>6. CASE HandleBegin(p)
  <2> DEFINE m == Head(down[p])
             begun == BeginReceiver(m.xferId, m.seq, TRUE)
  <2>1. \/ Reply(p, "BEGIN_NAK", m.xferId, 0) /\ UNCHANGED pad
        \/ /\ Becomes(p, [v EXCEPT !.rx = begun, !.watchdog = TRUE])
           /\ Reply(p, "BEGIN_ACK", m.xferId, 0)
    BY <1>6 DEF HandleBegin, v
  <2>2. m.xferId \in Nat /\ UNCHANGED masterBoot
    BY <1>2, <1>6 DEF HandleBegin
  <2> HIDE DEF m, begun
  <2>3. \E n \in Message : /\ fq' = Post(fq, n)
                           /\ n.kind # "LOCAL_FLASH_RESULT" /\ n.kind # "FLASH_RESULT"
    BY <1>4, <2>1, <2>2, Zenon
  <2>4. \E w : Grows(v, w) /\ pad' = [pad EXCEPT ![p] = w]
    BY <1>1, <2>1, Harmless, Zenon DEF Becomes
  <2> QED
    BY <1>5, <2>2, <2>3, <2>4
<1>7. CASE HandleData(p)
  <2> DEFINE m == Head(down[p])
             next == AfterChunk(v.rx, m.xferId, m.seq, TRUE)
  <2>1. \/ Reply(p, "DATA_NAK", m.xferId, 0) /\ UNCHANGED pad
        \/ Reply(p, "DATA_NAK", m.xferId, v.rx.next) /\ Becomes(p, [v EXCEPT !.watchdog = TRUE])
        \/ Reply(p, "DATA_NAK", m.xferId, 0) /\ Becomes(p, Released(v))
        \/ /\ Reply(p, "DATA_ACK", m.xferId, m.seq)
           /\ Becomes(p, [v EXCEPT !.rx = next, !.watchdog = TRUE])
    BY <1>7 DEF HandleData, v
  <2>2. m.xferId \in Nat /\ m.seq \in Nat /\ UNCHANGED masterBoot
    BY <1>2, <1>7 DEF HandleData
  <2> HIDE DEF m, next
  <2>3. \E n \in Message : /\ fq' = Post(fq, n)
                           /\ n.kind # "LOCAL_FLASH_RESULT" /\ n.kind # "FLASH_RESULT"
    BY <1>3, <1>4, <2>1, <2>2, Zenon
  <2>4. \E w : Grows(v, w) /\ pad' = [pad EXCEPT ![p] = w]
    BY <1>1, <2>1, Harmless, Zenon DEF Becomes
  <2> QED
    BY <1>5, <2>2, <2>3, <2>4
<1>8. CASE HandleEnd(p)
  <2> DEFINE m == Head(down[p])
  <2>1. \/ UNCHANGED <<pad, fq>>
        \/ /\ Reply(p, "END_ACK", m.xferId, 2)
           /\ Becomes(p, Released(v)) \/ Becomes(p, v)
        \/ /\ Reply(p, "END_ACK", m.xferId, 0)
           /\ Becomes(p, [v EXCEPT !.mode = "flipping", !.watchdog = FALSE])
    BY <1>8 DEF HandleEnd, v
  <2>2. m.xferId \in Nat /\ UNCHANGED masterBoot
    BY <1>2, <1>8 DEF HandleEnd
  <2> HIDE DEF m
  <2>3. \/ fq' = fq
        \/ \E n \in Message : /\ fq' = Post(fq, n)
                              /\ n.kind # "LOCAL_FLASH_RESULT" /\ n.kind # "FLASH_RESULT"
    BY <1>4, <2>1, <2>2, Zenon
  <2>4. \E w : Grows(v, w) /\ pad' = [pad EXCEPT ![p] = w]
    BY <1>1, <2>1, Harmless, Zenon DEF Becomes
  <2> QED
    BY <1>5, <2>2, <2>3, <2>4
<1>9. CASE FlipBootPartition(p)
  <2> DEFINE ok == Msg("FLASH_RESULT", p, v.rx.xferId, 0)
             bad == Msg("FLASH_RESULT", p, v.rx.xferId, 1)
             flipped == [Released(v) EXCEPT !.boot = "new", !.mode = "restarting", !.fresh = FALSE]
  <2>1. UNCHANGED masterBoot
    BY <1>9 DEF FlipBootPartition
  <2>2. /\ ok \in Message /\ ok.kind = "FLASH_RESULT" /\ ok.from = p
        /\ bad \in Message /\ bad.kind = "FLASH_RESULT" /\ bad.arg = 1
    BY <1>3 DEF Msg, Message, Kind
  <2>3. \/ fq' = Post(fq, ok) /\ pad' = [pad EXCEPT ![p] = flipped]
        \/ fq' = Post(fq, bad) /\ pad' = [pad EXCEPT ![p] = [Released(v) EXCEPT !.mode = "up"]]
    BY <1>9, Zenon DEF FlipBootPartition, Reply, Becomes, v
  <2>4. Grows(v, flipped) /\ flipped.boot = "new" /\ Grows(v, [Released(v) EXCEPT !.mode = "up"])
    BY <1>1, BootSound, Harmless, Zenon
  <2> HIDE DEF ok, bad, flipped
  <2> QED
    BY <2>1, <2>2, <2>3, <2>4 DEF WriterSound, v
<1>10. CASE Restart(p)
  <2>1. pad' = [pad EXCEPT ![p] = Booted(v.boot)] /\ fq' = fq /\ UNCHANGED masterBoot
    BY <1>10, Zenon DEF Restart, Becomes, v
  <2> QED
    BY <1>1, <1>5, <2>1, BootSound
<1>11. CASE HandleWatchdogFire(p)
  <2>1. /\ fq' = fq /\ UNCHANGED masterBoot
        /\ \/ pad' = [pad EXCEPT ![p] = [Released(v) EXCEPT !.fired = FALSE]]
           \/ pad' = [pad EXCEPT ![p] = [v EXCEPT !.fired = FALSE]]
    BY <1>11 DEF HandleWatchdogFire, Becomes, v
  <2> QED
    BY <1>1, <1>5, <2>1, Harmless, Zenon
<1> QED
  BY <1>6, <1>7, <1>8, <1>9, <1>10, <1>11 DEF WriterStep

(* The images of the whole system only become new.                          *)
ImagesGrow ==
  /\ \A p \in Padawans : PadSound(pad'[p])
  /\ \A p \in Padawans : /\ pad[p].boot = "new" => pad'[p].boot = "new"
                         /\ pad[p].image = "new" => pad'[p].image = "new"
  /\ masterBoot = "new" => masterBoot' = "new"

(* What was real or sound stays so.                                         *)
LEMMA StaysReal ==
  ASSUME ImagesGrow
  PROVE  RealRow \subseteq RealRow' /\ SoundMessage \subseteq SoundMessage'
<1>1. RealRow \subseteq RealRow'
  BY DEF ImagesGrow, RealRow, Real
<1>2. SoundMessage \subseteq SoundMessage'
  BY DEF ImagesGrow, SoundMessage, Sound
<1> QED
  BY <1>1, <1>2

LEMMA PostIn ==
  ASSUME NEW S, NEW q \in Seq(S), NEW m \in S
  PROVE  Post(q, m) \in Seq(S)
<1>1. Append(q, m) \in Seq(S)
  OBVIOUS
<1> QED
  BY <1>1 DEF Post

(* The queue after a step of the forwarder, in any set of messages that     *)
(* holds the sentinels the forwarder posts itself.                          *)
HoldsSentinels(M) ==
  \A kind \in {"BEGIN_NAK", "END_ACK"}, n \in Nat : Msg(kind, Master, TimeoutId, n) \in M

LEMMA PostsIn ==
  ASSUME NEW M, HoldsSentinels(M), NEW q \in Seq(M), Posts(q)
  PROVE  fq' \in Seq(M)
<1>1. ASSUME NEW kind \in {"BEGIN_NAK", "END_ACK"}, NEW n \in Nat,
             fq' = Post(q, Msg(kind, Master, TimeoutId, n))
      PROVE  fq' \in Seq(M)
  <2>1. Msg(kind, Master, TimeoutId, n) \in M
    BY DEF HoldsSentinels
  <2> QED
    BY <1>1, <2>1, PostIn
<1> QED
  BY <1>1 DEF Posts

LEMMA AdvancesIn ==
  ASSUME NEW M, HoldsSentinels(M), NEW o, NEW q \in Seq(M), Advances(o, q)
  PROVE  fq' \in Seq(M)
BY PostsIn DEF Advances, Reported, NextBegun, MasterBegun

LEMMA TakenIn ==
  ASSUME NEW M, fq \in Seq(M), fq # <<>>
  PROVE  Taken \in M /\ Left \in Seq(M)
<1>1. Head(fq) \in M /\ Tail(fq) \in Seq(M)
  OBVIOUS
<1> QED
  BY <1>1 DEF Taken, Left

(* A forwarder that waits for a version was doing so before, or has just    *)
(* taken the padawan's result.                                              *)
Confirms ==
  phase' = "AWAITING_VERSION_CONFIRMED" =>
    /\ Current' = Current
    /\ \/ phase = "AWAITING_VERSION_CONFIRMED" /\ heard' = heard
       \/ fq # <<>> /\ Flashed

(* What the forwarder does with rows in R and messages in M.                *)
ForwarderGives(R, M) ==
  /\ fq' \in Seq(M)
  /\ RowsIn(R) \/ UNCHANGED <<results, reports>>
  /\ Confirms

LEMMA ForwardGives ==
  ASSUME TypeInv, ControlInv, HandleMessage,
         NEW R, HoldsFailures(R), results \in Seq(R),
         NEW M, HoldsSentinels(M), fq \in Seq(M),
         fq # <<>> /\ Taken.kind = "LOCAL_FLASH_RESULT" /\ Taken.arg = 0
         => \A reason \in Reason : Row(Master, "PENDING", reason) \in R
  PROVE  ForwarderGives(R, M)
<1> USE DEF TypeInv
<1>1. fq # <<>> /\ MessageMoves
  BY Moves DEF LinkType, ControlInv
<1>2. Left \in Seq(M) /\ <<>> \in Seq(M)
  BY <1>1, TakenIn
<1>3. CASE Stays /\ fq' = Left
  BY <1>2, <1>3 DEF Stays, Confirms, ForwarderGives, deploy, Current
<1>4. CASE (Streams \/ EndSent \/ Written \/ Flashed) /\ Posts(Left)
  <2>1. fq' \in Seq(M)
    BY <1>2, <1>4, PostsIn
  <2> QED
    BY <1>1, <1>4, <2>1
    DEF Streams, EndSent, Written, Flashed, Shifts, Confirms, ForwarderGives, deploy, Current
<1>5. CASE Fails(Left)
  <2>1. PICK reason \in Reason : \E d : Finish("FAILED", reason, Left, d)
    BY <1>5 DEF Fails
  <2>2. phase \in Waiting /\ Row(Current, "FAILED", reason) \in R
    BY <1>5 DEF Fails, HoldsFailures, ForwarderType, Entry
  <2>3. RowsIn(R) /\ phase' # "AWAITING_VERSION_CONFIRMED" /\ Advances(orderList, Left)
    BY <2>1, <2>2, FinishIn, FinishAdvances
  <2> QED
    BY <1>2, <2>3, AdvancesIn DEF ForwarderGives, Confirms
<1>6. ASSUME NEW q \in {Left, <<>>}, MasterDone(q) PROVE ForwarderGives(R, M)
  <2>1. Advances(orderList, q) /\ q \in Seq(M)
    BY <1>2, <1>6, MasterDoneReports DEF Advances
  <2>2. RowsIn(R) /\ phase' # "AWAITING_VERSION_CONFIRMED"
    BY <1>1, <1>6, MasterDoneIn
  <2> QED
    BY <2>1, <2>2, AdvancesIn DEF ForwarderGives, Confirms
<1> QED
  BY <1>1, <1>3, <1>4, <1>5, <1>6 DEF MessageMoves

LEMMA TickGives ==
  ASSUME TypeInv, NEW E, HandleTick(E),
         NEW R, HoldsFailures(R), results \in Seq(R),
         NEW M, HoldsSentinels(M), fq \in Seq(M)
  PROVE  ForwarderGives(R, M)
<1> USE DEF TypeInv
<1>1. CASE Stays /\ fq' = fq
  BY <1>1 DEF Stays, Confirms, ForwarderGives, deploy, Current
<1>2. CASE Fails(fq)
  <2>1. PICK reason \in Reason : \E d : Finish("FAILED", reason, fq, d)
    BY <1>2 DEF Fails
  <2>2. phase \in Waiting /\ Row(Current, "FAILED", reason) \in R
    BY <1>2 DEF Fails, HoldsFailures, ForwarderType, Entry
  <2>3. RowsIn(R) /\ phase' # "AWAITING_VERSION_CONFIRMED" /\ Advances(orderList, fq)
    BY <2>1, <2>2, FinishIn, FinishAdvances
  <2> QED
    BY <2>3, AdvancesIn DEF ForwarderGives, Confirms
<1> QED
  BY <1>1, <1>2, TickMoves

LEMMA ConfirmGives ==
  ASSUME TypeInv, CheckPeerVersion,
         NEW R, HoldsFailures(R), results \in Seq(R), Row(Current, "OK", "") \in R,
         NEW M, HoldsSentinels(M), fq \in Seq(M)
  PROVE  ForwarderGives(R, M)
<1> USE DEF TypeInv
<1>1. phase \in Waiting /\ Finish("OK", "", fq, down)
  BY DEF CheckPeerVersion, Waiting
<1>2. RowsIn(R) /\ phase' # "AWAITING_VERSION_CONFIRMED" /\ Advances(orderList, fq)
  BY <1>1, FinishIn, FinishAdvances
<1> QED
  BY <1>2, AdvancesIn DEF ForwarderGives, Confirms

LEMMA AskGives ==
  ASSUME TypeInv, NEW o \in Seq(Entry), HandleDeployBegin(o),
         NEW R, HoldsFailures(R), results \in Seq(R),
         NEW M, HoldsSentinels(M), fq \in Seq(M)
  PROVE  ForwarderGives(R, M)
<1> USE DEF TypeInv
<1>1. CASE Refusal(o) = "none"
  <2>1. StartNextPadawan(o, 1, <<>>, 0, fq, down)
    BY <1>1 DEF HandleDeployBegin
  <2>2. <<>> \in Seq(R) /\ 1 \in 1 .. Len(o) + 1 /\ 0 \in 0 .. Len(o)
    OBVIOUS
  <2>3. RowsIn(R) /\ phase' # "AWAITING_VERSION_CONFIRMED" /\ Advances(o, fq)
    BY <2>1, <2>2, NextIn, NextAdvances
  <2> QED
    BY <2>3, AdvancesIn DEF ForwarderGives, Confirms
<1>2. CASE Refusal(o) # "none"
  <2> DEFINE rows == IF o = <<>> THEN <<Row("unknown", "FAILED", Refusal(o))>>
                     ELSE Failed(o, Refusal(o))
  <2>1. Refusal(o) \in Reason
    BY <1>2 DEF Refusal, Reason
  <2>2. rows \in Seq(R)
    <3>1. <<Row("unknown", "FAILED", Refusal(o))>> \in Seq(R)
      <4>1. Row("unknown", "FAILED", Refusal(o)) \in R
        BY <2>1 DEF HoldsFailures
      <4> QED
        BY <4>1
    <3>2. Failed(o, Refusal(o)) \in Seq(R)
      BY <2>1, FailedIn
    <3> QED
      BY <3>1, <3>2
  <2>3. /\ reports' = Append(reports, [order |-> o, rows |-> rows])
        /\ UNCHANGED <<fq, phase, deploy, heard>>
    BY <1>2 DEF HandleDeployBegin
  <2> HIDE DEF rows
  <2>4. results' \in Seq(R) /\ Confirms
    BY <2>3 DEF deploy, Confirms, Current
  <2> QED
    BY <2>2, <2>3, <2>4 DEF ForwarderGives, RowsIn
<1> QED
  BY <1>1, <1>2

(* The rows of the reports after such a step.                               *)
LEMMA RowsStayIn ==
  ASSUME ForwarderType, NEW R, RowsIn(R),
         \A i \in DOMAIN reports : reports[i].rows \in Seq(R)
  PROVE  \A i \in DOMAIN reports' : reports'[i].rows \in Seq(R)
<1>2. reports \in Seq(Report) /\ Len(reports) \in Nat
  BY DEF ForwarderType
<1>3. ASSUME NEW o, NEW rows \in Seq(R),
             reports' = Append(reports, [order |-> o, rows |-> rows]),
             NEW i \in DOMAIN reports'
      PROVE  reports'[i].rows \in Seq(R)
  <2>1. DOMAIN reports' = 1 .. Len(reports) + 1 /\ DOMAIN reports = 1 .. Len(reports)
        /\ reports'[Len(reports) + 1] = [order |-> o, rows |-> rows]
        /\ \A k \in 1 .. Len(reports) : reports'[k] = reports[k]
    BY <1>2, <1>3
  <2>2. CASE i = Len(reports) + 1
    BY <2>1, <2>2
  <2>3. CASE i # Len(reports) + 1
    <3>1. i \in 1 .. Len(reports)
      BY <1>2, <1>3, <2>1, <2>3
    <3> QED
      BY <2>1, <3>1
  <2> QED
    BY <2>2, <2>3
<1>4. CASE UNCHANGED reports
  BY <1>4
<1>5. CASE \E o, rows : rows \in Seq(R) /\ reports' = Append(reports, [order |-> o, rows |-> rows])
  BY <1>3, <1>5
<1> QED
  BY <1>4, <1>5 DEF RowsIn

LEMMA SuccessInit == Init => SuccessInv
<1> SUFFICES ASSUME Init PROVE SuccessInv
  OBVIOUS
<1>1. \A p \in Padawans : PadSound(pad[p])
  BY DEF Init, WriterInit, Factory, PadSound
<1>2. /\ fq = <<>> /\ phase = "IDLE" /\ results = <<>> /\ reports = <<>>
      /\ <<>> \in Seq(SoundMessage) /\ <<>> \in Seq(RealRow)
  BY DEF Init, LinkInit, ForwarderInit
<1> QED
  BY <1>1, <1>2 DEF SuccessInv, ConfirmSound

(* The forwarder's steps, which leave the images alone.                     *)
LEMMA SentinelsSound == HoldsSentinels(SoundMessage)
BY DEF HoldsSentinels, Msg, Message, Kind, TimeoutId, SoundMessage, Sound

LEMMA ForwarderKeepsSuccess ==
  ASSUME TypeInv, SuccessInv, ForwarderGives(RealRow, SoundMessage), UNCHANGED <<pad, masterBoot>>
  PROVE  SuccessInv'
<1>1. RealRow' = RealRow /\ SoundMessage' = SoundMessage
  BY DEF RealRow, Real, SoundMessage, Sound
<1>2. \A p \in Padawans : PadSound(pad'[p])
  BY DEF SuccessInv
<1>3. ConfirmSound'
  <2>1. CASE fq # <<>> /\ Flashed
    <3>1. Taken \in SoundMessage
      BY <2>1, TakenIn DEF SuccessInv
    <3>2. Taken.kind = "FLASH_RESULT" /\ Taken.from = Current /\ Taken.arg = 0 /\ ~heard'.fresh
      BY <2>1 DEF Flashed, NotHeard
    <3> QED
      BY <3>1, <3>2 DEF SoundMessage, Sound, ForwarderGives, Confirms, ConfirmSound
  <2>2. CASE ~(fq # <<>> /\ Flashed)
    BY <2>2 DEF ForwarderGives, Confirms, ConfirmSound, SuccessInv
  <2> QED
    BY <2>1, <2>2
<1>4. results' \in Seq(RealRow) /\ \A i \in DOMAIN reports' : reports'[i].rows \in Seq(RealRow)
  <2>1. CASE RowsIn(RealRow)
    <3>1. \A i \in DOMAIN reports' : reports'[i].rows \in Seq(RealRow)
      BY <2>1, RowsStayIn DEF TypeInv, SuccessInv
    <3> QED
      BY <2>1, <3>1 DEF RowsIn
  <2>2. CASE UNCHANGED <<results, reports>>
    BY <2>2 DEF SuccessInv
  <2> QED
    BY <2>1, <2>2 DEF ForwarderGives
<1> QED
  BY <1>1, <1>2, <1>3, <1>4 DEF SuccessInv, ForwarderGives

LEMMA ForwardKeepsSuccess ==
  ASSUME TypeInv, ControlInv, SuccessInv, HandleMessage, UNCHANGED <<pad, masterBoot>>
  PROVE  SuccessInv'
<1>1. fq # <<>> /\ Taken.kind = "LOCAL_FLASH_RESULT" /\ Taken.arg = 0
      => \A reason \in Reason : Row(Master, "PENDING", reason) \in RealRow
  <2> SUFFICES ASSUME fq # <<>>, Taken.kind = "LOCAL_FLASH_RESULT", Taken.arg = 0
               PROVE  masterBoot = "new"
    BY DEF RealRow, Real, Row, RowType
  <2>1. Taken \in SoundMessage
    BY TakenIn DEF SuccessInv
  <2> QED
    BY <2>1 DEF SoundMessage, Sound
<1>2. ForwarderGives(RealRow, SoundMessage)
  BY <1>1, FailuresReal, SentinelsSound, ForwardGives DEF SuccessInv
<1> QED
  BY <1>2, ForwarderKeepsSuccess

(* The other steps, which leave the forwarder alone.                        *)
LEMMA ApartKeepsSuccess ==
  ASSUME TypeInv, SuccessInv, ImagesGrow, UNCHANGED forwarderVars,
         \/ fq' = fq
         \/ \E m \in SoundMessage' : fq' = Post(fq, m)
         \/ fq # <<>> /\ fq' = Left
  PROVE  SuccessInv'
<1>1. RealRow \subseteq RealRow' /\ SoundMessage \subseteq SoundMessage'
  BY StaysReal
<1>2. /\ UNCHANGED <<phase, results, reports, heard, deploy>> /\ Current' = Current
  BY DEF forwarderVars, deploy, Current
<1>3. fq \in Seq(SoundMessage')
  BY <1>1 DEF SuccessInv
<1>4. fq' \in Seq(SoundMessage')
  <2>1. CASE fq' = fq
    BY <1>3, <2>1
  <2>2. CASE \E m \in SoundMessage' : fq' = Post(fq, m)
    BY <1>3, <2>2, PostIn
  <2>3. CASE fq # <<>> /\ fq' = Left
    BY <1>3, <2>3 DEF Left
  <2> QED
    BY <2>1, <2>2, <2>3
<1>5. ConfirmSound'
  <2>1. phase = "AWAITING_VERSION_CONFIRMED" => Current \in Padawans
    BY DEF TypeInv, ForwarderType, Waiting
  <2> QED
    BY <1>2, <2>1 DEF ConfirmSound, SuccessInv, ImagesGrow
<1>6. results \in Seq(RealRow') /\ \A i \in DOMAIN reports : reports[i].rows \in Seq(RealRow')
  BY <1>1 DEF SuccessInv
<1> QED
  BY <1>2, <1>4, <1>5, <1>6 DEF SuccessInv, ImagesGrow

(* One padawan changes, and the others do not.                              *)
LEMMA OneGrows ==
  ASSUME WriterType, SuccessInv, NEW p \in Padawans, NEW w, Grows(pad[p], w),
         pad' = [pad EXCEPT ![p] = w], UNCHANGED masterBoot
  PROVE  ImagesGrow /\ pad'[p] = w
BY DEF WriterType, SuccessInv, ImagesGrow, Grows

LEMMA SuccessStep ==
  ASSUME "rollback" \notin WriterFaults
  PROVE  TypeInv /\ ControlInv /\ SuccessInv /\ [Next]_vars => SuccessInv'
<1> SUFFICES ASSUME TypeInv, ControlInv, SuccessInv, [Next]_vars PROVE SuccessInv'
  OBVIOUS
<1>0. UNCHANGED <<pad, masterBoot>> => ImagesGrow
  BY DEF ImagesGrow, SuccessInv
<1>0a. /\ HoldsFailures(RealRow) /\ HoldsSentinels(SoundMessage)
       /\ results \in Seq(RealRow) /\ fq \in Seq(SoundMessage)
  BY FailuresReal, SentinelsSound DEF SuccessInv
<1>1. CASE Forward
  BY <1>1, ForwardKeepsSuccess DEF Forward
<1>2. CASE TickStep
  <2>1. \E E : HandleTick(E)
    BY <1>2 DEF TickStep
  <2> QED
    BY <1>0a, <1>2, <2>1, TickGives, ForwarderKeepsSuccess DEF TickStep
<1>3. CASE Poll
  <2>1. /\ phase = "AWAITING_VERSION_CONFIRMED" => heard' = Answer
        /\ UNCHANGED <<deploy, phase, results, reports, fq, pad, masterBoot>>
    BY <1>3 DEF Poll, deploy
  <2>2. Current' = Current /\ (phase = "AWAITING_VERSION_CONFIRMED" => Current \in Padawans)
    BY <2>1 DEF TypeInv, ForwarderType, Waiting, deploy, Current
  <2>3. ConfirmSound'
    BY <2>1, <2>2 DEF ConfirmSound, SuccessInv, PadSound, Answer
  <2>4. RealRow' = RealRow /\ SoundMessage' = SoundMessage
    BY <2>1 DEF RealRow, Real, SoundMessage, Sound
  <2> QED
    BY <2>1, <2>3, <2>4 DEF SuccessInv
<1>3a. CASE PollingTimerFires
  BY <1>0, <1>3a, ApartKeepsSuccess DEF PollingTimerFires
<1>4. CASE ConfirmVersion
  <2>1. Row(Current, "OK", "") \in RealRow
    BY <1>4 DEF ConfirmVersion, CheckPeerVersion, VersionConfirmed, SuccessInv, ConfirmSound,
                RealRow, Real, Row, RowType, Reason, TypeInv, ForwarderType, Waiting
  <2> QED
    BY <1>0a, <1>4, <2>1, ConfirmGives, ForwarderKeepsSuccess DEF ConfirmVersion
<1>5. CASE MasterWrite
  <2>1. UNCHANGED <<forwarderVars, pad>>
    BY <1>5 DEF MasterWrite, LocalFlash
  <2>2. \/ masterBoot' = "new" /\ fq' = Post(fq, Msg("LOCAL_FLASH_RESULT", "self", 0, 0))
        \/ masterBoot' = masterBoot /\ fq' = Post(fq, Msg("LOCAL_FLASH_RESULT", "self", 0, 1))
    BY <1>5 DEF MasterWrite, LocalFlash
  <2>3. ImagesGrow
    BY <2>1, <2>2 DEF ImagesGrow, SuccessInv
  <2>4. \E m \in SoundMessage' : fq' = Post(fq, m)
    <3>1. Msg("LOCAL_FLASH_RESULT", "self", 0, 1) \in SoundMessage'
      BY DEF Msg, Message, Kind, SoundMessage, Sound
    <3>2. masterBoot' = "new" => Msg("LOCAL_FLASH_RESULT", "self", 0, 0) \in SoundMessage'
      BY DEF Msg, Message, Kind, SoundMessage, Sound
    <3> QED
      BY <2>2, <3>1, <3>2
  <2> QED
    BY <2>1, <2>3, <2>4, ApartKeepsSuccess
<1>6. ASSUME NEW t \in Timer, DeadlinePasses(t) PROVE SuccessInv'
  <2>1. /\ t \in Timer \ {"tick"} /\ UNCHANGED <<deploy, phase, heard, reports, pad, masterBoot>>
        /\ fq' = Post(fq, Msg(SentinelKind[t], Master, TimeoutId, nextOrderIdx))
    BY <1>6 DEF DeadlinePasses, TimerFires
  <2>2. Msg(SentinelKind[t], Master, TimeoutId, nextOrderIdx) \in SoundMessage
    BY <2>1 DEF Msg, Message, Kind, TimeoutId, SentinelKind, Timer, SoundMessage, Sound,
                TypeInv, ForwarderType
  <2>3. fq' \in Seq(SoundMessage)
    BY <2>1, <2>2, PostIn DEF SuccessInv
  <2>4. Confirms /\ UNCHANGED <<results, reports>>
    BY <2>1 DEF Confirms, deploy, Current
  <2> QED
    BY <2>1, <2>3, <2>4, ForwarderKeepsSuccess DEF ForwarderGives
<1>7. ASSUME NEW p \in Padawans, Write(p) PROVE SuccessInv'
  <2>1. PICK w : WriterSound(p, w)
    BY <1>7, WriterStepSound DEF Write, TypeInv, SuccessInv
  <2>2. ImagesGrow /\ pad'[p] = w
    BY <2>1, OneGrows DEF WriterSound, TypeInv
  <2>3. fq' = fq \/ \E m \in SoundMessage' : fq' = Post(fq, m)
    BY <2>1, <2>2 DEF WriterSound, SoundMessage, Sound
  <2> QED
    BY <1>7, <2>2, <2>3, ApartKeepsSuccess DEF Write
<1>8. ASSUME NEW p \in Padawans, WriterGoesIdle(p) PROVE SuccessInv'
  <2>1. /\ pad' = [pad EXCEPT ![p] = [pad[p] EXCEPT !.watchdog = FALSE, !.fired = TRUE]]
        /\ UNCHANGED <<forwarderVars, fq, masterBoot>>
    BY <1>8 DEF WriterGoesIdle, WatchdogFires, Becomes
  <2>2. pad[p] \in PadType /\ PadSound(pad[p])
    BY Zenon DEF TypeInv, WriterType, SuccessInv
  <2>3. ImagesGrow
    BY <2>1, <2>2, Harmless, OneGrows, Zenon DEF TypeInv
  <2> QED
    BY <2>1, <2>3, ApartKeepsSuccess
<1>9. CASE Ask
  <2>1. HandleDeployBegin(agenda[asked + 1]) /\ agenda[asked + 1] \in Seq(Entry)
    BY <1>9 DEF Ask, TypeInv, BoundsType
  <2> QED
    BY <1>0a, <1>9, <2>1, AskGives, ForwarderKeepsSuccess DEF Ask
<1>10. CASE LoseReply
  BY <1>0, <1>10, ApartKeepsSuccess DEF LoseReply
<1>11. ASSUME NEW p \in Padawans, LoseFrame(p) PROVE SuccessInv'
  BY <1>0, <1>11, ApartKeepsSuccess DEF LoseFrame
<1>12. ASSUME NEW p \in Padawans, Crash(p) PROVE SuccessInv'
  <2>1. pad' = [pad EXCEPT ![p] = Booted(pad[p].boot)] /\ UNCHANGED <<forwarderVars, fq, masterBoot>>
    BY <1>12 DEF Crash, Becomes
  <2>2. pad[p] \in PadType /\ PadSound(pad[p])
    BY DEF TypeInv, WriterType, SuccessInv
  <2>3. ImagesGrow
    BY <2>1, <2>2, BootSound, OneGrows DEF TypeInv
  <2> QED
    BY <2>1, <2>3, ApartKeepsSuccess
<1>13. CASE UNCHANGED vars
  BY <1>0, <1>13, ApartKeepsSuccess DEF vars
<1> QED
  BY <1>1, <1>2, <1>3, <1>3a, <1>4, <1>5, <1>6, <1>7, <1>8, <1>9, <1>10, <1>11, <1>12, <1>13
  DEF Next, System, World

(* SuccessIsReal: while no bootloader rolls an image back, a padawan that   *)
(* any report calls OK runs the new image, and a master called PENDING will *)
(* boot it, through stale and lost replies, late results, power cuts and    *)
(* repeated deploys.                                                        *)
THEOREM DeploySuccessIsReal ==
  ASSUME "rollback" \notin WriterFaults
  PROVE  Spec => []SuccessIsReal
<1>1. SuccessInv => SuccessIsReal
  <2> SUFFICES ASSUME SuccessInv, NEW i \in DOMAIN reports, NEW j \in DOMAIN reports[i].rows
               PROVE  Real(reports[i].rows[j])
    BY DEF SuccessIsReal, Real
  <2>1. reports[i].rows \in Seq(RealRow)
    BY DEF SuccessInv
  <2>2. reports[i].rows[j] \in RealRow
    BY <2>1
  <2> QED
    BY <2>2 DEF RealRow
<1>2. TypeInv /\ ControlInv /\ SuccessInv /\ [Next]_vars => SuccessInv'
  BY SuccessStep
<1> QED
  BY <1>1, <1>2, TypeAlways, ControlAlways, SuccessInit, PTL DEF Spec

-----------------------------------------------------------------------------
(* With a bootloader that rolls back, an update is only lost by asking for  *)
(* the padawan again.  Where every padawan is asked for once, a BEGIN       *)
(* reaches each at most once, so that a padawan whose turn is over and that *)
(* rests stays as it is.                                                    *)

(* No padawan is in two places of an agenda.                                *)
AskedOnce(a) ==
  \A d, e \in DOMAIN a : \A k \in DOMAIN a[d], l \in DOMAIN a[e] :
    a[d][k] = a[e][l] /\ a[d][k] # Master => d = e /\ k = l

(* The turn of p is still to come.                                          *)
AskedLater(p) == \E e \in asked + 1 .. Len(agenda) : \E k \in DOMAIN agenda[e] : agenda[e][k] = p
InLine(p) == phase # "IDLE" /\ \E k \in nextOrderIdx + 1 .. Len(orderList) : orderList[k] = p
Pending(p) == AskedLater(p) \/ InLine(p)

NoBegin(f) == \A i \in DOMAIN f : f[i].type # "BEGIN"
BeginFirst(f) == \A i \in DOMAIN f : f[i].type = "BEGIN" => i = 1

Over(p) == ~Pending(p) /\ NoBegin(down[p])
Rests(w) == ~w.rx.active /\ w.mode = "up"

InTurn(p) ==
  /\ Pending(p) => down[p] = <<>>
  /\ BeginFirst(down[p])
  /\ ~Rests(pad[p]) => Over(p)

(* No entry of the order list under way is a second one.                    *)
Distinct ==
  phase # "IDLE" =>
    /\ \A k, l \in DOMAIN orderList :
         orderList[k] = orderList[l] /\ orderList[k] # Master => k = l
    /\ \A k \in DOMAIN orderList : orderList[k] # Master => ~AskedLater(orderList[k])

(* What the forwarder does to the frames on their way: it sends only to the *)
(* current padawan and no BEGIN, unless it goes on to the next.             *)
Extends(f, g) == \A i \in DOMAIN g : g[i].type = "BEGIN" => i \in DOMAIN f /\ f[i].type = "BEGIN"

Feeds(d) ==
  /\ d \in Links
  /\ \A p \in Padawans :
       /\ Extends(down[p], d[p])
       /\ d[p] = down[p] \/ (phase \in Waiting /\ p = Current)

Keeps ==
  /\ Feeds(down')
  /\ phase' # "IDLE" => phase # "IDLE" /\ UNCHANGED <<orderList, nextOrderIdx>>

Goes(o, i, d) ==
  \/ phase' = "IDLE" /\ down' = d
  \/ /\ orderList' = o /\ nextOrderIdx' \in i .. Len(o) + 1
     /\ down' = d
  \/ \E j \in i .. Len(o) :
       /\ orderList' = o /\ nextOrderIdx' = j /\ o[j] # Master
       /\ down' = [d EXCEPT ![o[j]] = Deliver(d[o[j]], <<Frame("BEGIN", j, TotalChunks)>>)]

ForwardLinks ==
  \/ Keeps
  \/ phase \in Waiting /\ \E d : Feeds(d) /\ Goes(orderList, nextOrderIdx + 1, d)

LEMMA DeliveredExtends ==
  ASSUME NEW f \in Seq(FrameType), NEW fs \in Seq(FrameType), NoBegin(fs)
  PROVE  Extends(f, Deliver(f, fs))
<1> DEFINE all == f \o fs
           n == IF Len(all) < WriterQueueLength THEN Len(all) ELSE WriterQueueLength
<1>1. /\ all \in Seq(FrameType) /\ Len(all) = Len(f) + Len(fs)
      /\ \A i \in 1 .. Len(f) : all[i] = f[i]
      /\ \A i \in 1 .. Len(fs) : all[Len(f) + i] = fs[i]
  OBVIOUS
<1>2. n \in 0 .. Len(all)
  BY <1>1, LinkAssumption
<1> HIDE DEF all, n
<1>3. DOMAIN SubSeq(all, 1, n) = 1 .. n /\ \A i \in 1 .. n : SubSeq(all, 1, n)[i] = all[i]
  BY <1>1, <1>2
<1>4. ASSUME NEW i \in 1 .. n, all[i].type = "BEGIN" PROVE i \in DOMAIN f /\ f[i].type = "BEGIN"
  <2>1. DOMAIN f = 1 .. Len(f) /\ DOMAIN fs = 1 .. Len(fs) /\ Len(f) \in Nat /\ Len(fs) \in Nat
    OBVIOUS
  <2>2. CASE i \in 1 .. Len(f)
    BY <1>1, <1>4, <2>1, <2>2
  <2>3. CASE i \notin 1 .. Len(f)
    <3>1. i - Len(f) \in 1 .. Len(fs) /\ i = Len(f) + (i - Len(f))
      BY <1>1, <1>2, <2>1, <2>3
    <3>2. all[i] = fs[i - Len(f)]
      BY <1>1, <3>1
    <3> QED
      BY <1>4, <2>1, <3>1, <3>2 DEF NoBegin
  <2> QED
    BY <2>2, <2>3
<1> QED
  BY <1>3, <1>4 DEF Deliver, Extends, all, n

LEMMA CurrentFed ==
  ASSUME phase \in Waiting, Current \in Padawans, NEW d, Feeds(d), NEW fs \in Seq(FrameType), NoBegin(fs)
  PROVE  Feeds(ToCurrent(d, fs))
<1>1. d \in Links /\ d[Current] \in Seq(FrameType)
  BY DEF Feeds, Links
<1>2. ToCurrent(d, fs) \in Links
  BY <1>1, ToCurrentType
<1>3. Extends(d[Current], Deliver(d[Current], fs))
  BY <1>1, DeliveredExtends
<1>4. Extends(down[Current], Deliver(d[Current], fs))
  BY <1>3 DEF Feeds, Extends
<1>5. \A p \in Padawans :
        ToCurrent(d, fs)[p] = IF p = Current THEN Deliver(d[Current], fs) ELSE d[p]
  BY <1>1 DEF ToCurrent, Links
<1> QED
  BY <1>2, <1>4, <1>5 DEF Feeds

LEMMA NothingFed ==
  ASSUME LinkType
  PROVE  Feeds(down)
BY DEF LinkType, Feeds, Extends

LEMMA NextGoes ==
  ASSUME NEW o \in Seq(Entry), NEW i \in 1 .. Len(o) + 1, NEW rs, NEW mr, NEW q, NEW d,
         StartNextPadawan(o, i, rs, mr, q, d)
  PROVE  Goes(o, i, d)
<1>1. \/ \E j \in i .. Len(o) : \E rows, defer :
           /\ o[j] # Master
           /\ \/ StartPadawan(o, j, rows, defer, q, d)
              \/ EmitDeployDone(o, rows, q, d)
      \/ \E rows, defer :
           \/ StartMasterSelfFlash(o, rows, defer, q, d)
           \/ EmitDeployDone(o, rows, q, d)
  BY Zenon DEF StartNextPadawan
<1>2. ASSUME NEW rows, EmitDeployDone(o, rows, q, d) PROVE Goes(o, i, d)
  BY <1>2 DEF EmitDeployDone, Goes
<1>3. ASSUME NEW rows, NEW defer, StartMasterSelfFlash(o, rows, defer, q, d) PROVE Goes(o, i, d)
  <2>1. CASE orderList' = o /\ nextOrderIdx' = Len(o) + 1 /\ down' = d
    <3>1. Len(o) + 1 \in i .. Len(o) + 1
      OBVIOUS
    <3> QED
      BY <2>1, <3>1 DEF Goes
  <2> QED
    BY <1>2, <1>3, <2>1 DEF StartMasterSelfFlash
<1>4. ASSUME NEW j \in i .. Len(o), NEW rows, NEW defer, o[j] # Master,
             StartPadawan(o, j, rows, defer, q, d)
      PROVE  Goes(o, i, d)
  <2>1. orderList' = o /\ nextOrderIdx' = j
    BY <1>4 DEF StartPadawan
  <2>2. CASE down' = d
    <3>1. j \in i .. Len(o) + 1
      OBVIOUS
    <3> QED
      BY <2>1, <2>2, <3>1 DEF Goes
  <2>3. CASE down' = [d EXCEPT ![o[j]] = Deliver(d[o[j]], <<Frame("BEGIN", j, TotalChunks)>>)]
    BY <1>4, <2>1, <2>3 DEF Goes
  <2> QED
    BY <1>4, <2>2, <2>3 DEF StartPadawan
<1> QED
  BY <1>1, <1>2, <1>3, <1>4

LEMMA FinishFeeds ==
  ASSUME ForwarderType, phase \in Waiting, NEW status, NEW reason, NEW q, NEW d, Feeds(d),
         Finish(status, reason, q, d)
  PROVE  ForwardLinks
<1>1. orderList \in Seq(Entry) /\ nextOrderIdx + 1 \in 1 .. Len(orderList) + 1
  BY DEF ForwarderType
<1> QED
  BY <1>1, NextGoes DEF Finish, ForwardLinks

LEMMA ChunksCalm ==
  ASSUME NEW s, NEW k \in Nat
  PROVE  NoBegin(Chunks(s, k))
BY DEF NoBegin, Chunks, Frame

LEMMA DrainFeeds ==
  ASSUME ForwarderType, phase \in Waiting, NEW s, SenderOK(s), NEW ph, NEW ts, NEW q,
         NEW d, Feeds(d), StreamDrain(s, ph, ts, q, d)
  PROVE  ForwardLinks
<1>1. Room(s) \in Nat /\ Current \in Padawans /\ phase # "IDLE"
  BY RoomIs DEF ForwarderType, Waiting
<1>2. ASSUME NEW k \in Nat PROVE Feeds(ToCurrent(d, Chunks(s, k)))
  BY <1>1, ChunksType, ChunksCalm, CurrentFed
<1>3. ASSUME NEW k \in 0 .. Room(s), down' = ToCurrent(d, Chunks(s, k)), UNCHANGED deploy
      PROVE  ForwardLinks
  <2>1. k \in Nat
    BY <1>1
  <2> QED
    BY <1>1, <1>2, <1>3, <2>1 DEF ForwardLinks, Keeps, deploy
<1>4. ASSUME NEW k \in 0 .. Room(s) - 1, Abort("firmware_read", q, ToCurrent(d, Chunks(s, k)))
      PROVE  ForwardLinks
  <2>1. k \in Nat
    BY <1>1
  <2> QED
    BY <1>2, <1>4, <2>1, FinishFeeds DEF Abort
<1> QED
  BY <1>3, <1>4 DEF StreamDrain

LEMMA DropFeeds ==
  ASSUME LinkType, Drop
  PROVE  ForwardLinks
BY NothingFed DEF Drop, forwarderVars, deploy, ForwardLinks, Keeps

LEMMA EndSentFeeds ==
  ASSUME ForwarderType, LinkType, phase \in Waiting, NEW q, SendEnd(q)
  PROVE  Feeds(down')
<1>1. Feeds(down) /\ Current \in Padawans
  BY NothingFed DEF ForwarderType
<1>2. CASE down' = ToCurrent(down, <<Frame("END", tx.xferId, TotalChunks)>>)
  <2> DEFINE fs == <<Frame("END", tx.xferId, TotalChunks)>>
  <2>1. fs \in Seq(FrameType) /\ NoBegin(fs)
    BY ForwarderAssumption DEF Frame, FrameType, ForwarderType, SenderOK, SenderType, NoBegin
  <2> HIDE DEF fs
  <2> QED
    BY <1>1, <1>2, <2>1, CurrentFed DEF fs
<1> QED
  BY <1>1, <1>2 DEF SendEnd

LEMMA MessageFeeds ==
  ASSUME ForwarderType, LinkType, HandleMessage
  PROVE  ForwardLinks
<1>1. Feeds(down)
  BY NothingFed
<1>2. \A reason, q : phase \in Waiting /\ Abort(reason, q, down) => ForwardLinks
  BY <1>1, FinishFeeds DEF Abort
<1>3. UNCHANGED <<orderList, nextOrderIdx, down>> /\ phase # "IDLE" => ForwardLinks
  BY <1>1 DEF ForwardLinks, Keeps
<1>4. Drop => ForwardLinks
  BY DropFeeds
<1>5. CASE HandleBeginAck /\ ~Drop
  <2>1. /\ phase \in Waiting
        /\ StreamDrain(AfterBeginAck(tx, Taken.xferId), "STREAMING", {"tick"}, Left, down)
    BY <1>5 DEF HandleBeginAck, Waiting
  <2>2. SenderOK(AfterBeginAck(tx, Taken.xferId))
    BY BeginAckOK DEF ForwarderType
  <2> QED
    BY <1>1, <2>1, <2>2, DrainFeeds
<1>6. CASE HandleBeginNak /\ ~Drop
  BY <1>2, <1>6 DEF HandleBeginNak, Waiting
<1>7. CASE HandleDataAck /\ ~Drop
  <2> DEFINE x == Taken.xferId
             q == Taken.arg
  <2>1. /\ phase \in {"STREAMING", "AWAITING_END_ACK"}
        /\ \/ SendEnd(Left) /\ UNCHANGED deploy
           \/ StreamDrain(AfterAck(tx, x, q), phase, timers, Left, down)
    BY <1>7 DEF HandleDataAck
  <2>2. phase \in Waiting /\ Current \in Padawans /\ phase # "IDLE"
    BY <2>1 DEF Waiting, ForwarderType
  <2>3. SenderOK(AfterAck(tx, x, q))
    <3>1. Taken \in Message
      BY <1>7, TakenType DEF LinkType, HandleDataAck
    <3> QED
      BY <3>1, AckOK DEF ForwarderType, Message
  <2> HIDE DEF x, q
  <2>4. CASE SendEnd(Left) /\ UNCHANGED deploy
    BY <2>2, <2>4, EndSentFeeds DEF ForwardLinks, Keeps, deploy
  <2>5. CASE StreamDrain(AfterAck(tx, x, q), phase, timers, Left, down)
    BY <1>1, <2>2, <2>3, <2>5, DrainFeeds
  <2> QED
    BY <2>1, <2>4, <2>5
<1>8. CASE HandleDataNak /\ ~Drop
  <2>1. /\ phase \in Waiting
        /\ StreamDrain(AfterNak(tx, Taken.xferId, Taken.arg), phase, timers, Left, down)
    BY <1>8 DEF HandleDataNak, Waiting
  <2>2. SenderOK(AfterNak(tx, Taken.xferId, Taken.arg))
    <3>1. Taken \in Message
      BY <1>8, TakenType DEF LinkType, HandleDataNak
    <3> QED
      BY <3>1, NakOK DEF ForwarderType, Message
  <2> QED
    BY <1>1, <2>1, <2>2, DrainFeeds
<1>9. CASE HandleEndAck /\ ~Drop
  <2>1. phase = "AWAITING_END_ACK"
    BY <1>9 DEF HandleEndAck
  <2>2. \/ UNCHANGED <<down, deploy>>
        \/ \E reason, q : Abort(reason, q, down)
    BY <1>9, Zenon DEF HandleEndAck
  <2> QED
    BY <1>2, <1>3, <2>1, <2>2 DEF Waiting, deploy
<1>10. CASE HandleFlashResult /\ ~Drop
  BY <1>2, <1>3, <1>10 DEF HandleFlashResult, Waiting, deploy
<1>11. CASE (HandleFlashResultTimeout \/ HandleVersionConfirmTimeout) /\ ~Drop
  BY <1>2, <1>11 DEF HandleFlashResultTimeout, HandleVersionConfirmTimeout, Waiting
<1>12. CASE (HandleLocalFlashResult \/ HandleMasterSelfFlashTimeout) /\ ~Drop
  <2>1. \/ UNCHANGED <<down, deploy, phase>>
        \/ \E o, rs, q : EmitDeployDone(o, rs, q, down)
    BY <1>12, Zenon DEF HandleLocalFlashResult, HandleMasterSelfFlashTimeout, FinishMaster
  <2> QED
    BY <1>1, <2>1 DEF EmitDeployDone, ForwardLinks, Keeps, deploy
<1> QED
  BY <1>4, <1>5, <1>6, <1>7, <1>8, <1>9, <1>10, <1>11, <1>12 DEF HandleMessage

LEMMA TickFeeds ==
  ASSUME ForwarderType, LinkType, NEW E \in SUBSET tx.inFlight, HandleTick(E)
  PROVE  ForwardLinks
<1>1. phase = "STREAMING" /\ phase \in Waiting /\ Current \in Padawans /\ Feeds(down)
  BY NothingFed DEF HandleTick, Waiting, ForwarderType
<1>2. CASE Exhausted(tx, E)
  BY <1>1, <1>2, FinishFeeds DEF HandleTick, Abort
<1>3. CASE ~Exhausted(tx, E)
  <2>1. PICK s \in [1 .. Cardinality(E) -> {e.seq : e \in E}] :
          LET again == [i \in DOMAIN s |-> Frame("DATA", tx.xferId, s[i])] IN
          \/ StreamDrain(AfterTick(tx, E), phase, timers, fq, ToCurrent(down, again))
          \/ \E k \in 0 .. Len(again) - 1 :
               Abort("firmware_read", fq, ToCurrent(down, SubSeq(again, 1, k)))
    BY <1>3 DEF HandleTick
  <2> DEFINE again == [i \in DOMAIN s |-> Frame("DATA", tx.xferId, s[i])]
  <2>2. again \in Seq(FrameType)
    BY AgainType
  <2>3. NoBegin(again)
    BY DEF NoBegin, Frame
  <2>4. \/ StreamDrain(AfterTick(tx, E), phase, timers, fq, ToCurrent(down, again))
        \/ \E k \in 0 .. Len(again) - 1 :
             Abort("firmware_read", fq, ToCurrent(down, SubSeq(again, 1, k)))
    BY <2>1
  <2> HIDE DEF again
  <2>5. CASE StreamDrain(AfterTick(tx, E), phase, timers, fq, ToCurrent(down, again))
    <3>1. Feeds(ToCurrent(down, again))
      BY <1>1, <2>2, <2>3, CurrentFed
    <3>2. SenderOK(AfterTick(tx, E))
      BY TickOK DEF ForwarderType
    <3> QED
      BY <1>1, <2>5, <3>1, <3>2, DrainFeeds
  <2>6. ASSUME NEW k \in 0 .. Len(again) - 1,
               Abort("firmware_read", fq, ToCurrent(down, SubSeq(again, 1, k)))
        PROVE  ForwardLinks
    <3>1. SubSeq(again, 1, k) \in Seq(FrameType) /\ NoBegin(SubSeq(again, 1, k))
      BY <2>2, <2>3 DEF NoBegin
    <3>2. Feeds(ToCurrent(down, SubSeq(again, 1, k)))
      BY <1>1, <3>1, CurrentFed
    <3> QED
      BY <1>1, <2>6, <3>2, FinishFeeds DEF Abort
  <2> QED
    BY <2>4, <2>5, <2>6
<1> QED
  BY <1>2, <1>3

(* What such a step leaves: nobody's turn comes back, and nothing is sent   *)
(* to a padawan whose turn is still to come.                                *)
TurnsKept ==
  /\ \A p \in Padawans : Pending(p)' => Pending(p) /\ down'[p] = down[p]
  /\ \A p \in Padawans : Over(p) => Over(p)'
  /\ \A p \in Padawans : BeginFirst(down'[p])

(* Requests made are not made again.                                        *)
Asking == agenda' = agenda /\ asked' \in {asked, asked + 1}

LEMMA LaterIsLater ==
  ASSUME BoundsType, Asking, NEW p
  PROVE  AskedLater(p)' => AskedLater(p)
<1>1. asked \in Nat /\ Len(agenda) \in Nat
  BY DEF BoundsType
<1>2. asked' \in Nat /\ asked <= asked'
  BY <1>1 DEF Asking
<1>3. \A m, n, l \in Nat : m <= n => \A e \in n + 1 .. l : e \in m + 1 .. l
  OBVIOUS
<1>4. \A e \in asked' + 1 .. Len(agenda) : e \in asked + 1 .. Len(agenda)
  BY <1>1, <1>2, <1>3, Zenon
<1> QED
  BY <1>4 DEF Asking, AskedLater

LEMMA CurrentNotPending ==
  ASSUME ForwarderType, Distinct, phase \in Waiting
  PROVE  ~Pending(Current)
<1>1. /\ nextOrderIdx \in DOMAIN orderList /\ Current \in Padawans /\ phase # "IDLE"
      /\ Current # Master
  BY ForwarderAssumption DEF ForwarderType, Waiting
<1>2. \A k \in nextOrderIdx + 1 .. Len(orderList) : k \in DOMAIN orderList /\ k # nextOrderIdx
  BY DEF ForwarderType
<1>3. \A k \in nextOrderIdx + 1 .. Len(orderList) : orderList[k] # Current
  BY <1>1, <1>2 DEF Distinct, Current
<1>4. ~AskedLater(Current)
  BY <1>1 DEF Distinct, Current
<1> QED
  BY <1>3, <1>4 DEF Pending, InLine

LEMMA ExtendsKeeps ==
  ASSUME NEW f, NEW g, Extends(f, g)
  PROVE  (NoBegin(f) => NoBegin(g)) /\ (BeginFirst(f) => BeginFirst(g))
BY DEF Extends, NoBegin, BeginFirst

LEMMA KeepsTurns ==
  ASSUME TypeInv, Distinct, \A p \in Padawans : InTurn(p), Keeps, Asking
  PROVE  TurnsKept /\ Distinct'
<1> USE DEF TypeInv
<1>1. \A p : Pending(p)' => Pending(p)
  BY LaterIsLater DEF Pending, InLine, Keeps
<1>2. \A p \in Padawans : Pending(p) => down'[p] = down[p]
  BY CurrentNotPending DEF Keeps, Feeds
<1>3. \A p \in Padawans : /\ NoBegin(down[p]) => NoBegin(down'[p])
                          /\ BeginFirst(down'[p])
  BY ExtendsKeeps DEF Keeps, Feeds, InTurn
<1>4. Distinct'
  BY LaterIsLater DEF Distinct, Keeps
<1> QED
  BY <1>1, <1>2, <1>3, <1>4 DEF TurnsKept, Over

LEMMA BeginDelivered ==
  ASSUME NEW m
  PROVE  BeginFirst(Deliver(<<>>, <<m>>))
<1>1. <<>> \o <<m>> = <<m>>
  OBVIOUS
<1> DEFINE n == IF 1 < WriterQueueLength THEN 1 ELSE WriterQueueLength
<1>2. n \in 0 .. 1
  BY LinkAssumption
<1>3. Deliver(<<>>, <<m>>) = SubSeq(<<m>>, 1, n)
  BY <1>1 DEF Deliver
<1> HIDE DEF n
<1>4. DOMAIN SubSeq(<<m>>, 1, n) = 1 .. n
  BY <1>2
<1> QED
  BY <1>2, <1>3, <1>4 DEF BeginFirst

LEMMA GoesTurns ==
  ASSUME TypeInv, \A p \in Padawans : InTurn(p), Asking,
         NEW o \in Seq(Entry), NEW i \in 1 .. Len(o) + 1, NEW d, Feeds(d), Goes(o, i, d),
         \A k, l \in DOMAIN o : o[k] = o[l] /\ o[k] # Master => k = l,
         \A p \in Padawans : (\E k \in DOMAIN o : o[k] = p) => ~AskedLater(p)',
         \A k \in i .. Len(o) : Pending(o[k]),
         phase \in Waiting => ~Pending(Current)
  PROVE  TurnsKept /\ Distinct'
<1> USE DEF TypeInv
<1>1. \A p \in Padawans : Pending(p) => d[p] = down[p] /\ down[p] = <<>>
  BY DEF Feeds, InTurn
<1>2. \A p \in Padawans : (NoBegin(down[p]) => NoBegin(d[p])) /\ BeginFirst(d[p])
  BY ExtendsKeeps DEF Feeds, InTurn
<1>3. Distinct'
  <2>1. \A k \in DOMAIN o : o[k] # Master => o[k] \in Padawans
    BY DEF Entry
  <2> QED
    BY <2>1 DEF Distinct, Goes
<1>4. CASE phase' = "IDLE" /\ down' = d
  <2>1. \A p : Pending(p)' => Pending(p)
    BY <1>4, LaterIsLater DEF Pending, InLine
  <2> QED
    BY <1>1, <1>2, <1>3, <1>4, <2>1 DEF TurnsKept, Over
<1>5. ASSUME NEW j \in i .. Len(o) + 1, orderList' = o, nextOrderIdx' = j
      PROVE  \A p : Pending(p)' => Pending(p)
  <2>1. \A k \in j + 1 .. Len(o) : k \in i .. Len(o)
    OBVIOUS
  <2> QED
    BY <1>5, <2>1, LaterIsLater DEF Pending, InLine
<1>6. CASE orderList' = o /\ nextOrderIdx' \in i .. Len(o) + 1 /\ down' = d
  BY <1>1, <1>2, <1>3, <1>5, <1>6 DEF TurnsKept, Over
<1>7. ASSUME NEW j \in i .. Len(o), orderList' = o, nextOrderIdx' = j, o[j] # Master,
             down' = [d EXCEPT ![o[j]] = Deliver(d[o[j]], <<Frame("BEGIN", j, TotalChunks)>>)]
      PROVE  TurnsKept
  <2>1. j \in DOMAIN o /\ o[j] \in Padawans /\ j \in i .. Len(o) + 1
    BY <1>7 DEF Entry
  <2>2. \A p : Pending(p)' => Pending(p)
    BY <1>5, <1>7, <2>1
  <2>3. ~Pending(o[j])'
    <3>1. \A k \in j + 1 .. Len(o) : k \in DOMAIN o /\ k # j
      OBVIOUS
    <3>2. \A k \in j + 1 .. Len(o) : o[k] # o[j]
      BY <1>7, <2>1, <3>1
    <3> QED
      BY <1>7, <2>1, <3>2 DEF Pending, InLine
  <2>4. Pending(o[j]) /\ d[o[j]] = <<>>
    BY <1>1, <2>1
  <2>5. \A p \in Padawans :
          down'[p] = IF p = o[j] THEN Deliver(<<>>, <<Frame("BEGIN", j, TotalChunks)>>) ELSE d[p]
    BY <1>7, <2>1, <2>4 DEF Feeds, Links
  <2>6. \A p \in Padawans : BeginFirst(down'[p])
    BY <1>2, <2>5, BeginDelivered
  <2>7. \A p \in Padawans : Over(p) => Over(p)'
    BY <1>2, <2>2, <2>4, <2>5 DEF Over
  <2>8. \A p \in Padawans : Pending(p)' => down'[p] = down[p]
    BY <1>1, <2>2, <2>3, <2>5
  <2> QED
    BY <2>2, <2>6, <2>7, <2>8 DEF TurnsKept
<1> QED
  BY <1>3, <1>4, <1>6, <1>7 DEF Goes

LEMMA ForwardTurns ==
  ASSUME TypeInv, Distinct, \A p \in Padawans : InTurn(p), ForwardLinks,
         UNCHANGED <<agenda, asked>>
  PROVE  TurnsKept /\ Distinct'
<1> USE DEF TypeInv
<1>0. Asking
  BY DEF Asking
<1>1. CASE Keeps
  BY <1>0, <1>1, KeepsTurns
<1>2. ASSUME phase \in Waiting, NEW d, Feeds(d), Goes(orderList, nextOrderIdx + 1, d)
      PROVE  TurnsKept /\ Distinct'
  <2>1. /\ orderList \in Seq(Entry) /\ nextOrderIdx + 1 \in 1 .. Len(orderList) + 1
        /\ phase # "IDLE"
    BY <1>2 DEF ForwarderType, Waiting
  <2>2. \A k \in nextOrderIdx + 1 .. Len(orderList) : Pending(orderList[k])
    BY <2>1 DEF Pending, InLine
  <2>3. \A p : AskedLater(p)' => AskedLater(p)
    BY <1>0, LaterIsLater
  <2>4. /\ \A k, l \in DOMAIN orderList :
             orderList[k] = orderList[l] /\ orderList[k] # Master => k = l
        /\ \A p \in Padawans : (\E k \in DOMAIN orderList : orderList[k] = p) => ~AskedLater(p)'
    BY <2>1, <2>3, ForwarderAssumption DEF Distinct
  <2>5. ~Pending(Current)
    BY <1>2, CurrentNotPending
  <2> QED
    BY <1>0, <1>2, <2>1, <2>2, <2>4, <2>5, GoesTurns
<1> QED
  BY <1>1, <1>2 DEF ForwardLinks

LEMMA AskTurns ==
  ASSUME TypeInv, Distinct, \A p \in Padawans : InTurn(p), AskedOnce(agenda), Ask
  PROVE  TurnsKept /\ Distinct'
<1> USE DEF TypeInv
<1> DEFINE o == agenda[asked + 1]
<1>0. /\ Asking /\ asked' = asked + 1 /\ HandleDeployBegin(o) /\ UNCHANGED pad
      /\ o \in Seq(Entry) /\ asked + 1 \in DOMAIN agenda
  BY DEF Ask, Asking, BoundsType
<1>1. Feeds(down)
  BY NothingFed
<1>2. CASE Refusal(o) # "none"
  <2>1. Keeps
    BY <1>0, <1>1, <1>2 DEF HandleDeployBegin, Keeps, deploy, Feeds
  <2> QED
    BY <1>0, <2>1, KeepsTurns
<1>3. CASE Refusal(o) = "none"
  <2>1. phase = "IDLE" /\ phase \notin Waiting
    BY <1>3 DEF Refusal, Waiting
  <2>2. StartNextPadawan(o, 1, <<>>, 0, fq, down) /\ 1 \in 1 .. Len(o) + 1
    BY <1>0, <1>3 DEF HandleDeployBegin
  <2>3. Goes(o, 1, down)
    BY <1>0, <2>2, NextGoes
  <2>4. \A k, l \in DOMAIN o : o[k] = o[l] /\ o[k] # Master => k = l
    BY <1>0 DEF AskedOnce
  <2>5. \A p \in Padawans : (\E k \in DOMAIN o : o[k] = p) => ~AskedLater(p)'
    <3>1. \A e \in asked + 1 + 1 .. Len(agenda) : e \in DOMAIN agenda /\ e # asked + 1
      BY DEF BoundsType
    <3>2. \A e \in asked + 1 + 1 .. Len(agenda) : \A k \in DOMAIN o, l \in DOMAIN agenda[e] :
            o[k] \in Padawans => agenda[e][l] # o[k]
      BY <1>0, <3>1, ForwarderAssumption DEF AskedOnce
    <3>3. agenda' = agenda /\ asked' = asked + 1
      BY <1>0 DEF Asking
    <3> HIDE DEF o
    <3> QED
      BY <3>2, <3>3 DEF AskedLater
  <2>6. \A k \in 1 .. Len(o) : Pending(o[k])
    <3>1. asked + 1 \in asked + 1 .. Len(agenda) /\ DOMAIN o = 1 .. Len(o)
      BY <1>0 DEF BoundsType
    <3> QED
      BY <3>1 DEF Pending, AskedLater
  <2> HIDE DEF o
  <2> QED
    BY <1>0, <1>1, <2>1, <2>2, <2>3, <2>4, <2>5, <2>6, GoesTurns
<1> QED
  BY <1>2, <1>3

(* A padawan between two restarts runs what it would boot, and one that     *)
(* restarts receives nothing and has not been seen since its result.        *)
PadRuns(w) ==
  /\ w.mode # "restarting" => w.image = w.boot
  /\ w.mode = "restarting" => ~w.fresh /\ ~w.rx.active

(* p becomes w and g is left of its frames: at rest it stays so, except     *)
(* that it may take a BEGIN.                                                *)
PadStep(p, w, g) ==
  /\ pad' = [pad EXCEPT ![p] = w]
  /\ down' = [down EXCEPT ![p] = g]
  /\ g = <<>> \/ g = down[p] \/ (down[p] # <<>> /\ g = Tail(down[p]))
  /\ PadRuns(w)
  /\ pad[p].mode = "restarting" => w.mode = "restarting" \/ Rests(w)
  /\ \/ Rests(pad[p]) => Rests(w) /\ w.image = pad[p].image
     \/ down[p] # <<>> /\ Head(down[p]).type = "BEGIN" /\ g = Tail(down[p])

(* Whose turn is over, and what lasts from then on.                         *)
Settled(p) == Over(p) /\ Rests(pad[p])
Through(p) == Over(p) /\ (pad[p].mode = "restarting" \/ Rests(pad[p]))

Lasting ==
  /\ \A p \in Padawans : Through(p) => Through(p)'
  /\ \A p \in Padawans : Settled(p) => Settled(p)' /\ pad'[p].image = pad[p].image
  /\ masterBoot = "new" => masterBoot' = "new"

Turns == \A p \in Padawans : InTurn(p) /\ PadRuns(pad[p])

LEMMA TurnsLast ==
  ASSUME Turns, TurnsKept, UNCHANGED <<pad, masterBoot>>
  PROVE  Turns' /\ Lasting
<1>1. \A p \in Padawans : PadRuns(pad'[p])
  BY DEF Turns
<1>2. \A p \in Padawans : InTurn(p)'
  BY DEF Turns, TurnsKept, InTurn
<1>3. Lasting
  BY DEF TurnsKept, Lasting, Through, Settled
<1> QED
  BY <1>1, <1>2, <1>3 DEF Turns

LEMMA TailFrames ==
  ASSUME NEW f \in Seq(FrameType), NEW g, g = <<>> \/ g = f \/ (f # <<>> /\ g = Tail(f)),
         BeginFirst(f)
  PROVE  /\ BeginFirst(g)
         /\ NoBegin(f) => NoBegin(g)
         /\ f # <<>> /\ g = Tail(f) => NoBegin(g)
         /\ f = <<>> => g = <<>>
<1>1. CASE f # <<>> /\ g = Tail(f)
  <2>1. /\ DOMAIN f = 1 .. Len(f) /\ Len(f) \in Nat \ {0} /\ DOMAIN g = 1 .. Len(f) - 1
        /\ \A i \in 1 .. Len(f) - 1 : g[i] = f[i + 1]
    BY <1>1
  <2>2. \A i \in DOMAIN g : i + 1 \in DOMAIN f /\ i + 1 # 1
    BY <2>1
  <2>3. NoBegin(g)
    BY <2>1, <2>2 DEF NoBegin, BeginFirst
  <2> QED
    BY <1>1, <2>3 DEF NoBegin, BeginFirst
<1>2. CASE ~(f # <<>> /\ g = Tail(f))
  BY <1>2 DEF NoBegin, BeginFirst
<1> QED
  BY <1>1, <1>2

LEMMA PadStepLasts ==
  ASSUME TypeInv, Turns, NEW p \in Padawans, NEW w, NEW g, PadStep(p, w, g),
         UNCHANGED <<phase, orderList, nextOrderIdx, agenda, asked>>,
         masterBoot' = masterBoot
  PROVE  /\ Turns' /\ Lasting /\ pad'[p] = w
         /\ ~Rests(pad[p]) => Over(p)'
<1>1. \A r : Pending(r)' = Pending(r)
  BY DEF Pending, AskedLater, InLine
<1>2. /\ \A r \in Padawans : pad'[r] = IF r = p THEN w ELSE pad[r]
      /\ \A r \in Padawans : down'[r] = IF r = p THEN g ELSE down[r]
  BY DEF PadStep, TypeInv, LinkType, Links, WriterType
<1>3. /\ BeginFirst(g)
      /\ NoBegin(down[p]) => NoBegin(g)
      /\ down[p] # <<>> /\ g = Tail(down[p]) => NoBegin(g)
      /\ down[p] = <<>> => g = <<>>
  <2>1. down[p] \in Seq(FrameType) /\ BeginFirst(down[p])
    BY DEF TypeInv, LinkType, Links, Turns, InTurn
  <2> QED
    BY <2>1, TailFrames DEF PadStep
<1>4. Over(p) => Over(p)'
  BY <1>1, <1>2, <1>3 DEF Over
<1>5. CASE Rests(pad[p]) => Rests(w) /\ w.image = pad[p].image
  <2>1. InTurn(p)'
    BY <1>1, <1>2, <1>3, <1>4, <1>5 DEF InTurn, Turns
  <2>2. (Through(p) => Through(p)') /\ (Settled(p) => Settled(p)' /\ pad'[p].image = pad[p].image)
    BY <1>2, <1>4, <1>5 DEF Through, Settled, PadStep
  <2> QED
    BY <1>4, <2>1, <2>2, <1>1, <1>2 DEF Turns, Lasting, InTurn, Over, Through, Settled, PadStep
<1>6. CASE down[p] # <<>> /\ Head(down[p]).type = "BEGIN" /\ g = Tail(down[p])
  <2>1. ~NoBegin(down[p])
    <3>1. 1 \in DOMAIN down[p] /\ Head(down[p]) = down[p][1]
      BY <1>6 DEF TypeInv, LinkType, Links
    <3> QED
      BY <1>6, <3>1 DEF NoBegin
  <2>2. ~Pending(p) /\ NoBegin(g)
    BY <1>3, <1>6 DEF Turns, InTurn
  <2>3. InTurn(p)' /\ Over(p)'
    BY <1>1, <1>2, <1>3, <2>2 DEF InTurn, Over
  <2>4. ~Over(p)
    BY <2>1 DEF Over
  <2> QED
    BY <2>3, <2>4, <1>1, <1>2 DEF Turns, Lasting, InTurn, Over, Through, Settled, PadStep
<1> QED
  BY <1>5, <1>6 DEF PadStep

(* Every step of a writer is one of these, and its results are of padawans  *)
(* whose turn is over.                                                      *)
WriterPosts(p, w) ==
  \/ fq' = fq
  \/ \E m \in Message :
       /\ fq' = Post(fq, m)
       /\ m.kind # "LOCAL_FLASH_RESULT"
       /\ m.kind = "FLASH_RESULT" /\ m.arg = 0 =>
            m.from = p /\ ~Rests(pad[p]) /\ w.mode = "restarting"

LEMMA CalmUpdates ==
  ASSUME NEW v \in PadType, PadRuns(v)
  PROVE  /\ PadRuns([v EXCEPT !.watchdog = FALSE, !.fired = TRUE])
         /\ Rests(v) => Rests([v EXCEPT !.watchdog = FALSE, !.fired = TRUE])
         /\ v.mode # "restarting" =>
              /\ \A w \in {Released(v), [v EXCEPT !.watchdog = TRUE], [v EXCEPT !.fired = FALSE],
                           [Released(v) EXCEPT !.fired = FALSE],
                           [Released(v) EXCEPT !.mode = "up"]} :
                   PadRuns(w) /\ (Rests(v) => Rests(w)) /\ w.image = v.image
              /\ \A r \in RxType : PadRuns([v EXCEPT !.rx = r, !.watchdog = TRUE])
              /\ PadRuns([v EXCEPT !.mode = "flipping", !.watchdog = FALSE])
BY DEF PadRuns, Rests, Released, PadType, IdleReceiver

LEMMA BootUpdates ==
  ASSUME NEW v \in PadType, NEW b \in Image
  PROVE  /\ PadRuns(Booted(b)) /\ Rests(Booted(b)) /\ Booted(b).image = b
         /\ LET w == [Released(v) EXCEPT !.boot = "new", !.mode = "restarting", !.fresh = FALSE] IN
            PadRuns(w) /\ w.mode = "restarting"
BY DEF PadRuns, Rests, Released, PadType, IdleReceiver, Booted, Factory

LEMMA ReplyPosts ==
  ASSUME NEW p \in Padawans, NEW w, NEW x \in Nat, NEW arg \in Nat,
         NEW kind \in {"BEGIN_ACK", "BEGIN_NAK", "DATA_ACK", "DATA_NAK", "END_ACK"},
         Reply(p, kind, x, arg)
  PROVE  WriterPosts(p, w)
<1>1. Msg(kind, p, x, arg) \in Message /\ Msg(kind, p, x, arg).kind = kind
  BY DEF Msg, Message, Kind
<1> QED
  BY <1>1 DEF Reply, WriterPosts

(* Whatever is written to an idle writer is a transfer begun.               *)
LEMMA BusyWriters ==
  ASSUME NEW v \in PadType
  PROVE  /\ \A x, q : Accepts(v.rx, x, q, TRUE) => ~Rests(v)
         /\ \A x, n : EndResult(v.rx, x, n) = "OK" => ~Rests(v)
         /\ v.mode # "up" => ~Rests(v)
BY DEF Accepts, EndResult, Rests

LEMMA WriterStepTurn ==
  ASSUME TypeInv, NEW p \in Padawans, PadRuns(pad[p]), WriterStep(p)
  PROVE  /\ UNCHANGED masterBoot
         /\ \E w, g : PadStep(p, w, g) /\ WriterPosts(p, w)
<1> DEFINE v == pad[p]
<1>1. v \in PadType /\ PadRuns(v) /\ pad = [pad EXCEPT ![p] = v] /\ down = [down EXCEPT ![p] = down[p]]
  BY PadSame DEF TypeInv, WriterType, LinkType, Links
<1>2. v.rx.xferId \in Nat /\ v.rx.next \in Nat
  BY <1>1 DEF PadType
<1>3. ASSUME NEW type, Reads(p, type)
      PROVE  /\ Head(down[p]).xferId \in Nat /\ Head(down[p]).seq \in Nat
             /\ v.mode = "up" /\ v.mode # "restarting" /\ down[p] # <<>> /\ Head(down[p]).type = type
             /\ down' = [down EXCEPT ![p] = Tail(down[p])] /\ UNCHANGED masterBoot
  BY <1>3, ReadsType DEF TypeInv, FrameType, Reads
<1> HIDE DEF v
<1>5. ASSUME NEW type, Reads(p, type), NEW w, pad' = [pad EXCEPT ![p] = w], PadRuns(w),
             (Rests(v) => Rests(w) /\ w.image = v.image) \/ type = "BEGIN",
             WriterPosts(p, w)
      PROVE  \E u, g : PadStep(p, u, g) /\ WriterPosts(p, u)
  <2>1. PadStep(p, w, Tail(down[p]))
    BY <1>3, <1>5 DEF PadStep, v
  <2> QED
    BY <1>5, <2>1
<1>6. CASE HandleBegin(p)
  <2> DEFINE m == Head(down[p])
             begun == BeginReceiver(m.xferId, m.seq, TRUE)
  <2>1. Reads(p, "BEGIN")
    BY <1>6 DEF HandleBegin
  <2>2. \/ Reply(p, "BEGIN_NAK", m.xferId, 0) /\ pad' = [pad EXCEPT ![p] = v]
        \/ /\ pad' = [pad EXCEPT ![p] = [v EXCEPT !.rx = begun, !.watchdog = TRUE]]
           /\ Reply(p, "BEGIN_ACK", m.xferId, 0)
    BY <1>1, <1>6 DEF HandleBegin, Becomes, v
  <2>3. begun \in RxType /\ m.xferId \in Nat
    BY <1>3, <2>1 DEF BeginReceiver, IdleReceiver, RxType
  <2>4. PadRuns([v EXCEPT !.rx = begun, !.watchdog = TRUE])
    BY <1>1, <1>3, <2>1, <2>3, CalmUpdates
  <2> HIDE DEF m, begun
  <2>5. \A w : WriterPosts(p, w)
    BY <2>2, <2>3, ReplyPosts
  <2> QED
    BY <1>1, <1>3, <1>5, <2>1, <2>2, <2>4, <2>5
<1>7. CASE HandleData(p)
  <2> DEFINE m == Head(down[p])
             next == AfterChunk(v.rx, m.xferId, m.seq, TRUE)
  <2>1. Reads(p, "DATA")
    BY <1>7 DEF HandleData
  <2>2. /\ \/ Reply(p, "DATA_NAK", m.xferId, 0)
           \/ Reply(p, "DATA_NAK", m.xferId, v.rx.next)
           \/ Reply(p, "DATA_ACK", m.xferId, m.seq)
        /\ \/ \E w \in {v, [v EXCEPT !.watchdog = TRUE], Released(v)} : pad' = [pad EXCEPT ![p] = w]
           \/ /\ Accepts(v.rx, m.xferId, m.seq, TRUE)
              /\ pad' = [pad EXCEPT ![p] = [v EXCEPT !.rx = next, !.watchdog = TRUE]]
    BY <1>1, <1>7 DEF HandleData, Becomes, v
  <2>3. m.xferId \in Nat /\ m.seq \in Nat /\ v.mode # "restarting"
    BY <1>3, <2>1
  <2>4. next \in RxType
    BY <1>1, <2>3 DEF AfterChunk, Accepts, RxType, PadType
  <2>5. PadRuns([v EXCEPT !.rx = next, !.watchdog = TRUE])
    BY <1>1, <2>3, <2>4, CalmUpdates
  <2>6. Accepts(v.rx, m.xferId, m.seq, TRUE) => ~Rests(v)
    BY <1>1, BusyWriters
  <2>7. \A w \in {v, [v EXCEPT !.watchdog = TRUE], Released(v)} :
          PadRuns(w) /\ (Rests(v) => Rests(w) /\ w.image = v.image)
    BY <1>1, <2>3, CalmUpdates
  <2> HIDE DEF m, next
  <2>8. \A w : WriterPosts(p, w)
    BY <1>2, <2>2, <2>3, ReplyPosts
  <2>9. PICK w : pad' = [pad EXCEPT ![p] = w] /\ PadRuns(w) /\ (Rests(v) => Rests(w) /\ w.image = v.image)
    BY <2>2, <2>5, <2>6, <2>7, Zenon
  <2> QED
    <3>1. WriterPosts(p, w)
      BY <2>8
    <3> QED
      BY <1>3, <1>5, <2>1, <2>9, <3>1
<1>8. CASE HandleEnd(p)
  <2> DEFINE m == Head(down[p])
             flipping == [v EXCEPT !.mode = "flipping", !.watchdog = FALSE]
  <2>1. Reads(p, "END")
    BY <1>8 DEF HandleEnd
  <2>2. /\ \/ fq' = fq
           \/ \E arg \in {0, 2} : Reply(p, "END_ACK", m.xferId, arg)
        /\ \/ \E w \in {v, Released(v)} : pad' = [pad EXCEPT ![p] = w]
           \/ EndResult(v.rx, m.xferId, m.seq) = "OK" /\ pad' = [pad EXCEPT ![p] = flipping]
    BY <1>1, <1>8 DEF HandleEnd, Becomes, v
  <2>3. m.xferId \in Nat /\ v.mode # "restarting"
    BY <1>3, <2>1
  <2>4. PadRuns(flipping) /\ (EndResult(v.rx, m.xferId, m.seq) = "OK" => ~Rests(v))
    <3>1. PadRuns(flipping)
      BY <1>1, <2>3, CalmUpdates
    <3>2. \A x, n : EndResult(v.rx, x, n) = "OK" => ~Rests(v)
      BY <1>1, BusyWriters
    <3> HIDE DEF m, flipping
    <3> QED
      BY <3>1, <3>2
  <2>5. \A w \in {v, Released(v)} : PadRuns(w) /\ (Rests(v) => Rests(w) /\ w.image = v.image)
    BY <1>1, <2>3, CalmUpdates
  <2> HIDE DEF m, flipping
  <2>6. \A w : WriterPosts(p, w)
    <3>1. CASE fq' = fq
      BY <3>1 DEF WriterPosts
    <3>2. ASSUME NEW arg \in {0, 2}, Reply(p, "END_ACK", m.xferId, arg), NEW w
          PROVE  WriterPosts(p, w)
      BY <2>3, <3>2, ReplyPosts
    <3> QED
      BY <2>2, <3>1, <3>2
  <2>7. PICK w : pad' = [pad EXCEPT ![p] = w] /\ PadRuns(w) /\ (Rests(v) => Rests(w) /\ w.image = v.image)
    BY <2>2, <2>4, <2>5, Zenon
  <2> QED
    <3>1. WriterPosts(p, w)
      BY <2>6
    <3> QED
      BY <1>3, <1>5, <2>1, <2>7, <3>1
<1>9. CASE FlipBootPartition(p)
  <2> DEFINE ok == Msg("FLASH_RESULT", p, v.rx.xferId, 0)
             bad == Msg("FLASH_RESULT", p, v.rx.xferId, 1)
             flipped == [Released(v) EXCEPT !.boot = "new", !.mode = "restarting", !.fresh = FALSE]
             kept == [Released(v) EXCEPT !.mode = "up"]
  <2>1. UNCHANGED masterBoot /\ v.mode = "flipping" /\ down' = [down EXCEPT ![p] = down[p]]
    BY <1>1, <1>9 DEF FlipBootPartition, v
  <2>2. /\ ok \in Message /\ ok.kind = "FLASH_RESULT" /\ ok.from = p
        /\ bad \in Message /\ bad.kind = "FLASH_RESULT" /\ bad.arg = 1
    BY <1>2 DEF Msg, Message, Kind
  <2>3. \/ fq' = Post(fq, ok) /\ pad' = [pad EXCEPT ![p] = flipped]
        \/ fq' = Post(fq, bad) /\ pad' = [pad EXCEPT ![p] = kept]
    BY <1>9, Zenon DEF FlipBootPartition, Reply, Becomes, v
  <2>4. PadRuns(flipped) /\ flipped.mode = "restarting" /\ PadRuns(kept) /\ ~Rests(v)
    BY <1>1, <2>1, BootUpdates, CalmUpdates, BusyWriters DEF Image
  <2> HIDE DEF ok, bad, flipped, kept
  <2>5. \A w \in {flipped, kept} : pad' = [pad EXCEPT ![p] = w] => PadStep(p, w, down[p])
    BY <2>1, <2>4 DEF PadStep, v
  <2>6. fq' = Post(fq, ok) => WriterPosts(p, flipped)
    BY <2>2, <2>4 DEF WriterPosts, v
  <2>7. fq' = Post(fq, bad) => WriterPosts(p, kept)
    BY <2>2 DEF WriterPosts
  <2> QED
    BY <2>1, <2>3, <2>5, <2>6, <2>7
<1>10. CASE Restart(p)
  <2>1. \E b \in Image : pad' = [pad EXCEPT ![p] = Booted(b)]
    BY <1>1, <1>10 DEF Restart, Becomes, v, Image, PadType
  <2>2. /\ v.mode = "restarting" /\ fq' = fq /\ UNCHANGED masterBoot
        /\ down' = [down EXCEPT ![p] = <<>>]
    BY <1>10 DEF Restart, v
  <2>3. ~Rests(v)
    BY <1>1, <2>2, BusyWriters
  <2>4. \A b \in Image : PadRuns(Booted(b)) /\ Rests(Booted(b))
    BY <1>1, BootUpdates
  <2> QED
    BY <2>1, <2>2, <2>3, <2>4 DEF PadStep, WriterPosts, v
<1>11. CASE HandleWatchdogFire(p)
  <2>1. /\ fq' = fq /\ UNCHANGED masterBoot /\ v.mode = "up" /\ down' = [down EXCEPT ![p] = down[p]]
        /\ \E w \in {[v EXCEPT !.fired = FALSE], [Released(v) EXCEPT !.fired = FALSE]} :
             pad' = [pad EXCEPT ![p] = w]
    BY <1>1, <1>11 DEF HandleWatchdogFire, Becomes, v
  <2>2. \A w \in {[v EXCEPT !.fired = FALSE], [Released(v) EXCEPT !.fired = FALSE]} :
          PadRuns(w) /\ (Rests(v) => Rests(w) /\ w.image = v.image)
    BY <1>1, <2>1, CalmUpdates
  <2> QED
    BY <2>1, <2>2 DEF PadStep, WriterPosts, v
<1> QED
  BY <1>3, <1>6, <1>7, <1>8, <1>9, <1>10, <1>11
  DEF WriterStep, HandleBegin, HandleData, HandleEnd, FlipBootPartition, Restart, HandleWatchdogFire

(* What a row and a result say of a padawan is so for good.                 *)
Final(row) ==
  /\ row.status = "OK" =>
       row.id \in Padawans /\ Settled(row.id) /\ pad[row.id].image = "new"
  /\ row.status = "PENDING" => row.id = Master /\ masterBoot = "new"
FinalRow == {row \in RowType : Final(row)}

Earned(m) ==
  /\ m.kind = "FLASH_RESULT" /\ m.arg = 0 => m.from \in Padawans /\ Through(m.from)
  /\ m.kind = "LOCAL_FLASH_RESULT" /\ m.arg = 0 => masterBoot = "new"
EarnedMessage == {m \in Message : Earned(m)}

ConfirmEarned ==
  phase = "AWAITING_VERSION_CONFIRMED" =>
    /\ Through(Current)
    /\ heard.fresh => Settled(Current) /\ heard.image = pad[Current].image

OnceInv ==
  /\ agenda \in Agendas
  /\ Distinct
  /\ Turns
  /\ fq \in Seq(EarnedMessage)
  /\ ConfirmEarned
  /\ results \in Seq(FinalRow)
  /\ \A i \in DOMAIN reports : reports[i].rows \in Seq(FinalRow)

LEMMA FailuresFinal == HoldsFailures(FinalRow)
BY DEF HoldsFailures, FinalRow, Final, Row, RowType, Entry

LEMMA SentinelsEarned == HoldsSentinels(EarnedMessage)
BY DEF HoldsSentinels, Msg, Message, Kind, TimeoutId, EarnedMessage, Earned

LEMMA EarnedLasts ==
  ASSUME Lasting
  PROVE  FinalRow \subseteq FinalRow' /\ EarnedMessage \subseteq EarnedMessage'
<1>1. FinalRow \subseteq FinalRow'
  BY DEF Lasting, FinalRow, Final
<1>2. EarnedMessage \subseteq EarnedMessage'
  BY DEF Lasting, EarnedMessage, Earned
<1> QED
  BY <1>1, <1>2

(* The forwarder's steps.                                                   *)
LEMMA ForwarderKeepsOnce ==
  ASSUME TypeInv, OnceInv, Lasting, Turns', Distinct', agenda' = agenda, UNCHANGED pad,
         ForwarderGives(FinalRow, EarnedMessage)
  PROVE  OnceInv'
<1>1. FinalRow \subseteq FinalRow' /\ EarnedMessage \subseteq EarnedMessage'
  BY EarnedLasts
<1>2. ConfirmEarned'
  <2> SUFFICES ASSUME phase' = "AWAITING_VERSION_CONFIRMED"
               PROVE  /\ Through(Current)'
                      /\ heard'.fresh => Settled(Current)' /\ heard'.image = pad[Current].image
    BY DEF ConfirmEarned, ForwarderGives, Confirms
  <2>0. Current' = Current
    BY DEF ForwarderGives, Confirms
  <2>1. CASE fq # <<>> /\ Flashed
    <3>1. Taken \in EarnedMessage
      BY <2>1, TakenIn DEF OnceInv
    <3>2. Taken.kind = "FLASH_RESULT" /\ Taken.from = Current /\ Taken.arg = 0 /\ ~heard'.fresh
      BY <2>1 DEF Flashed, NotHeard
    <3>3. Current \in Padawans /\ Through(Current)
      BY <3>1, <3>2 DEF EarnedMessage, Earned
    <3> QED
      BY <2>0, <3>2, <3>3 DEF Lasting
  <2>2. CASE phase = "AWAITING_VERSION_CONFIRMED" /\ heard' = heard
    <3>1. /\ Current \in Padawans /\ Through(Current)
          /\ heard.fresh => Settled(Current) /\ heard.image = pad[Current].image
      BY <2>2 DEF OnceInv, ConfirmEarned, TypeInv, ForwarderType, Waiting
    <3> QED
      BY <2>0, <2>2, <3>1 DEF Lasting
  <2> QED
    BY <2>1, <2>2 DEF ForwarderGives, Confirms
<1>3. results' \in Seq(FinalRow) /\ \A i \in DOMAIN reports' : reports'[i].rows \in Seq(FinalRow)
  <2>1. CASE RowsIn(FinalRow)
    <3>1. \A i \in DOMAIN reports' : reports'[i].rows \in Seq(FinalRow)
      BY <2>1, RowsStayIn DEF TypeInv, OnceInv
    <3> QED
      BY <2>1, <3>1 DEF RowsIn
  <2>2. CASE UNCHANGED <<results, reports>>
    BY <2>2 DEF OnceInv
  <2> QED
    BY <2>1, <2>2 DEF ForwarderGives
<1>4. results' \in Seq(FinalRow') /\ \A i \in DOMAIN reports' : reports'[i].rows \in Seq(FinalRow')
  BY <1>1, <1>3
<1>5. fq' \in Seq(EarnedMessage')
  BY <1>1 DEF ForwarderGives
<1> QED
  BY <1>2, <1>4, <1>5 DEF OnceInv

LEMMA ForwardKeepsOnce ==
  ASSUME TypeInv, ControlInv, OnceInv, ForwardLinks,
         UNCHANGED <<pad, masterBoot, agenda, asked>>,
         ForwarderGives(FinalRow, EarnedMessage)
  PROVE  OnceInv'
<1>1. TurnsKept /\ Distinct'
  BY ForwardTurns DEF OnceInv, Turns
<1>2. Turns' /\ Lasting
  BY <1>1, TurnsLast DEF OnceInv
<1> QED
  BY <1>1, <1>2, ForwarderKeepsOnce

(* The steps of the others.                                                 *)
LEMMA ApartKeepsOnce ==
  ASSUME TypeInv, OnceInv, Lasting, Turns', UNCHANGED <<forwarderVars, agenda, asked>>,
         \/ fq' = fq
         \/ \E m \in EarnedMessage' : fq' = Post(fq, m)
         \/ fq # <<>> /\ fq' = Left
  PROVE  OnceInv'
<1>1. FinalRow \subseteq FinalRow' /\ EarnedMessage \subseteq EarnedMessage'
  BY EarnedLasts
<1>2. /\ UNCHANGED <<phase, results, reports, heard, orderList, nextOrderIdx>> /\ Current' = Current
  BY DEF forwarderVars, deploy, Current
<1>3. fq \in Seq(EarnedMessage')
  BY <1>1 DEF OnceInv
<1>4. fq' \in Seq(EarnedMessage')
  <2>1. CASE \E m \in EarnedMessage' : fq' = Post(fq, m)
    BY <1>3, <2>1, PostIn
  <2>2. CASE fq # <<>> /\ fq' = Left
    BY <1>3, <2>2 DEF Left
  <2> QED
    BY <1>3, <2>1, <2>2
<1>5. ConfirmEarned'
  <2> SUFFICES ASSUME phase = "AWAITING_VERSION_CONFIRMED"
               PROVE  /\ Through(Current)'
                      /\ heard.fresh => Settled(Current)' /\ heard.image = pad'[Current].image
    BY <1>2 DEF ConfirmEarned
  <2>1. /\ Current \in Padawans /\ Through(Current)
        /\ heard.fresh => Settled(Current) /\ heard.image = pad[Current].image
    BY DEF OnceInv, ConfirmEarned, TypeInv, ForwarderType, Waiting
  <2> QED
    BY <1>2, <2>1 DEF Lasting
<1>6. results \in Seq(FinalRow') /\ \A i \in DOMAIN reports : reports[i].rows \in Seq(FinalRow')
  BY <1>1 DEF OnceInv
<1>7. Distinct'
  BY <1>2 DEF Distinct, OnceInv, AskedLater
<1>8. agenda' \in Agendas
  BY DEF OnceInv
<1> QED
  BY <1>2, <1>4, <1>5, <1>6, <1>7, <1>8 DEF OnceInv

LEMMA PadStepKeepsOnce ==
  ASSUME TypeInv, OnceInv, NEW p \in Padawans, NEW w, NEW g, PadStep(p, w, g),
         UNCHANGED <<forwarderVars, agenda, asked, masterBoot>>, WriterPosts(p, w)
  PROVE  OnceInv'
<1>1. /\ Turns' /\ Lasting /\ pad'[p] = w
      /\ ~Rests(pad[p]) => Over(p)'
  BY PadStepLasts DEF OnceInv, forwarderVars, deploy
<1>2. fq' = fq \/ \E m \in EarnedMessage' : fq' = Post(fq, m)
  <2> SUFFICES ASSUME NEW m \in Message, m.kind # "LOCAL_FLASH_RESULT",
                      m.kind = "FLASH_RESULT" /\ m.arg = 0 =>
                        m.from = p /\ ~Rests(pad[p]) /\ w.mode = "restarting"
               PROVE  m \in EarnedMessage'
    BY DEF WriterPosts
  <2> QED
    BY <1>1 DEF EarnedMessage, Earned, Through
<1> QED
  BY <1>1, <1>2, ApartKeepsOnce

LEMMA OnceInit == Init => OnceInv
<1> SUFFICES ASSUME Init PROVE OnceInv
  OBVIOUS
<1>1. phase = "IDLE" /\ results = <<>> /\ reports = <<>> /\ fq = <<>> /\ agenda \in Agendas
  BY DEF Init, ForwarderInit, LinkInit
<1>2. Turns
  <2> SUFFICES ASSUME NEW p \in Padawans PROVE InTurn(p) /\ PadRuns(pad[p])
    BY DEF Turns
  <2>1. down[p] = <<>> /\ pad[p] = Factory
    BY DEF Init, LinkInit, WriterInit
  <2>2. BeginFirst(<<>>)
    BY DEF BeginFirst
  <2>3. Rests(Factory) /\ PadRuns(Factory)
    BY DEF Factory, IdleReceiver, Rests, PadRuns
  <2> QED
    BY <2>1, <2>2, <2>3 DEF InTurn
<1>3. <<>> \in Seq(EarnedMessage) /\ <<>> \in Seq(FinalRow)
  OBVIOUS
<1> QED
  BY <1>1, <1>2, <1>3 DEF OnceInv, Distinct, ConfirmEarned

LEMMA OnceStep ==
  ASSUME SameVersion = FALSE, \A a \in Agendas : AskedOnce(a)
  PROVE  TypeInv /\ ControlInv /\ OnceInv /\ [Next]_vars => OnceInv'
<1> SUFFICES ASSUME TypeInv, ControlInv, OnceInv, [Next]_vars PROVE OnceInv'
  OBVIOUS
<1>0. /\ HoldsFailures(FinalRow) /\ HoldsSentinels(EarnedMessage)
      /\ results \in Seq(FinalRow) /\ fq \in Seq(EarnedMessage)
  BY FailuresFinal, SentinelsEarned DEF OnceInv
<1>a. ForwarderType /\ LinkType
  BY DEF TypeInv
<1>b. UNCHANGED <<down, pad, phase, orderList, nextOrderIdx, agenda, asked>> => Turns'
  BY DEF OnceInv, Turns, InTurn, Over, Pending, AskedLater, InLine
<1>c. UNCHANGED <<down, pad, phase, orderList, nextOrderIdx, agenda, asked>>
      /\ (masterBoot = "new" => masterBoot' = "new") => Lasting
  BY DEF Lasting, Through, Settled, Over, Pending, AskedLater, InLine
<1>d. UNCHANGED <<down, orderList, nextOrderIdx, phase>> => ForwardLinks
  BY <1>a, NothingFed DEF ForwardLinks, Keeps
<1>1. CASE Forward
  <2>1. HandleMessage /\ UNCHANGED <<pad, masterBoot, agenda, asked>>
    BY <1>1 DEF Forward, bounds
  <2>2. fq # <<>> /\ Taken.kind = "LOCAL_FLASH_RESULT" /\ Taken.arg = 0
        => \A reason \in Reason : Row(Master, "PENDING", reason) \in FinalRow
    <3> SUFFICES ASSUME fq # <<>>, Taken.kind = "LOCAL_FLASH_RESULT", Taken.arg = 0
                 PROVE  masterBoot = "new"
      BY DEF FinalRow, Final, Row, RowType
    <3>1. Taken \in EarnedMessage
      BY <1>0, TakenIn
    <3> QED
      BY <3>1 DEF EarnedMessage, Earned
  <2>3. ForwarderGives(FinalRow, EarnedMessage)
    BY <1>0, <2>1, <2>2, ForwardGives
  <2>4. ForwardLinks
    BY <1>a, <2>1, MessageFeeds
  <2> QED
    BY <2>1, <2>3, <2>4, ForwardKeepsOnce
<1>2. CASE TickStep
  <2>1. /\ UNCHANGED <<pad, masterBoot, agenda, asked>>
        /\ \E E \in SUBSET tx.inFlight : HandleTick(E)
    BY <1>2 DEF TickStep, bounds
  <2>2. ForwarderGives(FinalRow, EarnedMessage)
    BY <1>0, <2>1, TickGives
  <2>3. ForwardLinks
    BY <1>a, <2>1, TickFeeds
  <2> QED
    BY <2>1, <2>2, <2>3, ForwardKeepsOnce
<1>3. CASE Poll
  <2>1. /\ phase = "AWAITING_VERSION_CONFIRMED" => heard' = Answer
        /\ UNCHANGED <<orderList, nextOrderIdx, phase, results, reports, fq, down, pad, masterBoot,
                       agenda, asked>>
    BY <1>3 DEF Poll, deploy, bounds
  <2>2. /\ Current' = Current
        /\ phase = "AWAITING_VERSION_CONFIRMED" =>
             Current \in Padawans /\ Through(Current) /\ PadRuns(pad[Current])
    BY <2>1 DEF TypeInv, ForwarderType, Waiting, Current, OnceInv, ConfirmEarned, Turns
  <2>3. Turns' /\ Lasting /\ Distinct'
    BY <1>b, <1>c, <2>1 DEF OnceInv, Distinct, AskedLater
  <2>4. FinalRow \subseteq FinalRow' /\ EarnedMessage \subseteq EarnedMessage'
    BY <2>3, EarnedLasts
  <2>5. ASSUME phase = "AWAITING_VERSION_CONFIRMED"
        PROVE  Through(Current)' /\ (pad[Current].fresh => Settled(Current)')
    <3>1. pad[Current].fresh => Settled(Current)
      BY <2>2, <2>5 DEF PadRuns, Through, Settled
    <3> QED
      BY <2>2, <2>3, <2>5, <3>1 DEF Lasting
  <2>6. ConfirmEarned'
    BY <2>1, <2>2, <2>5 DEF ConfirmEarned, Answer
  <2>7. /\ fq' \in Seq(EarnedMessage') /\ results' \in Seq(FinalRow')
        /\ \A i \in DOMAIN reports' : reports'[i].rows \in Seq(FinalRow')
    BY <2>1, <2>4 DEF OnceInv
  <2> QED
    BY <2>1, <2>3, <2>6, <2>7 DEF OnceInv
<1>3a. CASE PollingTimerFires
  <2>1. UNCHANGED <<forwarderVars, fq, pad, down, agenda, asked, masterBoot, phase, orderList,
                    nextOrderIdx>>
    BY <1>3a DEF PollingTimerFires, bounds, forwarderVars, deploy
  <2>2. Turns' /\ Lasting
    BY <1>b, <1>c, <2>1
  <2> QED
    BY <2>1, <2>2, ApartKeepsOnce
<1>4. CASE ConfirmVersion
  <2>1. /\ CheckPeerVersion /\ phase \in Waiting /\ Finish("OK", "", fq, down)
        /\ UNCHANGED <<pad, masterBoot, agenda, asked>>
    BY <1>4 DEF ConfirmVersion, CheckPeerVersion, Waiting, bounds
  <2>2. Row(Current, "OK", "") \in FinalRow
    <3>1. /\ Current \in Padawans
          /\ Settled(Current) /\ pad[Current].image = "new"
      BY <2>1 DEF CheckPeerVersion, VersionConfirmed, OnceInv, ConfirmEarned, TypeInv, ForwarderType
    <3> QED
      BY <3>1 DEF FinalRow, Final, Row, RowType, Reason
  <2>3. ForwarderGives(FinalRow, EarnedMessage)
    BY <1>0, <2>1, <2>2, ConfirmGives
  <2>4. ForwardLinks
    BY <1>a, <2>1, NothingFed, FinishFeeds
  <2> QED
    BY <2>1, <2>3, <2>4, ForwardKeepsOnce
<1>5. CASE MasterWrite
  <2>1. UNCHANGED <<forwarderVars, pad, down, agenda, asked, phase, orderList, nextOrderIdx>>
    BY <1>5 DEF MasterWrite, LocalFlash, bounds, forwarderVars, deploy
  <2>2. \/ masterBoot' = "new" /\ fq' = Post(fq, Msg("LOCAL_FLASH_RESULT", "self", 0, 0))
        \/ masterBoot' = masterBoot /\ fq' = Post(fq, Msg("LOCAL_FLASH_RESULT", "self", 0, 1))
    BY <1>5 DEF MasterWrite, LocalFlash
  <2>3. \E m \in EarnedMessage' : fq' = Post(fq, m)
    <3>1. Msg("LOCAL_FLASH_RESULT", "self", 0, 1) \in EarnedMessage'
      BY DEF Msg, Message, Kind, EarnedMessage, Earned
    <3>2. masterBoot' = "new" => Msg("LOCAL_FLASH_RESULT", "self", 0, 0) \in EarnedMessage'
      BY DEF Msg, Message, Kind, EarnedMessage, Earned
    <3> QED
      BY <2>2, <3>1, <3>2
  <2>4. Turns' /\ Lasting
    BY <1>b, <1>c, <2>1, <2>2
  <2> QED
    BY <2>1, <2>3, <2>4, ApartKeepsOnce
<1>6. ASSUME NEW t \in Timer, DeadlinePasses(t) PROVE OnceInv'
  <2>1. /\ t \in Timer \ {"tick"}
        /\ UNCHANGED <<deploy, phase, heard, reports, down, pad, masterBoot, agenda, asked>>
        /\ fq' = Post(fq, Msg(SentinelKind[t], Master, TimeoutId, nextOrderIdx))
    BY <1>6 DEF DeadlinePasses, TimerFires, bounds
  <2>2. Msg(SentinelKind[t], Master, TimeoutId, nextOrderIdx) \in EarnedMessage
    BY <2>1 DEF Msg, Message, Kind, TimeoutId, SentinelKind, Timer, EarnedMessage, Earned,
                TypeInv, ForwarderType
  <2>3. ForwarderGives(FinalRow, EarnedMessage)
    BY <1>0, <2>1, <2>2, PostIn DEF ForwarderGives, Confirms, deploy, Current
  <2>4. ForwardLinks
    BY <1>d, <2>1 DEF deploy
  <2> QED
    BY <2>1, <2>3, <2>4, ForwardKeepsOnce
<1>7. ASSUME NEW p \in Padawans, Write(p) PROVE OnceInv'
  <2>1. WriterStep(p) /\ UNCHANGED <<forwarderVars, agenda, asked>> /\ PadRuns(pad[p])
    BY <1>7 DEF Write, bounds, OnceInv, Turns
  <2>2. UNCHANGED masterBoot /\ \E w, g : PadStep(p, w, g) /\ WriterPosts(p, w)
    BY <2>1, WriterStepTurn
  <2> QED
    BY <2>1, <2>2, PadStepKeepsOnce
<1>8. ASSUME NEW p \in Padawans, WriterGoesIdle(p) PROVE OnceInv'
  <2> DEFINE w == [pad[p] EXCEPT !.watchdog = FALSE, !.fired = TRUE]
  <2>1. /\ pad' = [pad EXCEPT ![p] = w] /\ down' = [down EXCEPT ![p] = down[p]]
        /\ UNCHANGED <<forwarderVars, fq, masterBoot, agenda, asked>>
    BY <1>8, <1>a DEF WriterGoesIdle, WatchdogFires, Becomes, bounds, LinkType, Links
  <2>2. pad[p] \in PadType /\ PadRuns(pad[p])
    BY Zenon DEF TypeInv, WriterType, OnceInv, Turns
  <2>3. /\ PadRuns(w) /\ (Rests(pad[p]) => Rests(w))
        /\ w.image = pad[p].image /\ w.mode = pad[p].mode
    BY <2>2, CalmUpdates DEF PadType
  <2> HIDE DEF w
  <2>4. PadStep(p, w, down[p]) /\ WriterPosts(p, w)
    BY <2>1, <2>3 DEF PadStep, WriterPosts
  <2> QED
    BY <2>1, <2>4, PadStepKeepsOnce
<1>9. CASE Ask
  <2>1. /\ HandleDeployBegin(agenda[asked + 1]) /\ agenda[asked + 1] \in Seq(Entry)
        /\ UNCHANGED <<pad, masterBoot>> /\ agenda' = agenda
    BY <1>9 DEF Ask, TypeInv, BoundsType
  <2>2. ForwarderGives(FinalRow, EarnedMessage)
    BY <1>0, <2>1, AskGives
  <2>3. TurnsKept /\ Distinct'
    BY <1>9, AskTurns DEF OnceInv, Turns
  <2>4. Turns' /\ Lasting
    BY <2>1, <2>3, TurnsLast DEF OnceInv
  <2> QED
    BY <2>1, <2>2, <2>3, <2>4, ForwarderKeepsOnce
<1>10. CASE LoseReply
  <2>1. /\ UNCHANGED <<forwarderVars, pad, down, agenda, asked, masterBoot, phase, orderList,
                       nextOrderIdx>>
        /\ fq # <<>> /\ fq' = Left
    BY <1>10 DEF LoseReply, forwarderVars, deploy
  <2>2. Turns' /\ Lasting
    BY <1>b, <1>c, <2>1
  <2> QED
    BY <2>1, <2>2, ApartKeepsOnce
<1>11. ASSUME NEW p \in Padawans, LoseFrame(p) PROVE OnceInv'
  <2>1. /\ pad' = [pad EXCEPT ![p] = pad[p]] /\ down' = [down EXCEPT ![p] = Tail(down[p])]
        /\ down[p] # <<>> /\ UNCHANGED <<forwarderVars, fq, masterBoot, agenda, asked>>
    BY <1>11, PadSame DEF LoseFrame, TypeInv
  <2>2. PadStep(p, pad[p], Tail(down[p])) /\ WriterPosts(p, pad[p])
    BY <2>1 DEF PadStep, WriterPosts, OnceInv, Turns
  <2> QED
    BY <2>1, <2>2, PadStepKeepsOnce
<1>12. ASSUME NEW p \in Padawans, Crash(p) PROVE OnceInv'
  <2> DEFINE w == Booted(pad[p].boot)
  <2>1. /\ pad' = [pad EXCEPT ![p] = w] /\ down' = [down EXCEPT ![p] = <<>>]
        /\ pad[p].mode # "restarting"
        /\ UNCHANGED <<forwarderVars, fq, masterBoot, agenda, asked>>
    BY <1>12 DEF Crash, Becomes
  <2>2. pad[p] \in PadType /\ PadRuns(pad[p])
    BY Zenon DEF TypeInv, WriterType, OnceInv, Turns
  <2>3. PadRuns(w) /\ Rests(w) /\ w.image = pad[p].boot
    BY <2>2, BootUpdates DEF PadType
  <2>4. w.image = pad[p].image
    BY <2>1, <2>2, <2>3 DEF PadRuns
  <2> HIDE DEF w
  <2>5. PadStep(p, w, <<>>) /\ WriterPosts(p, w)
    BY <2>1, <2>3, <2>4 DEF PadStep, WriterPosts
  <2> QED
    BY <2>1, <2>5, PadStepKeepsOnce
<1>13. CASE UNCHANGED vars
  <2>1. UNCHANGED <<forwarderVars, fq, pad, down, agenda, asked, masterBoot, phase, orderList,
                    nextOrderIdx>>
    BY <1>13 DEF vars, bounds, forwarderVars, deploy
  <2>2. Turns' /\ Lasting
    BY <1>b, <1>c, <2>1
  <2> QED
    BY <2>1, <2>2, ApartKeepsOnce
<1> QED
  BY <1>1, <1>2, <1>3, <1>3a, <1>4, <1>5, <1>6, <1>7, <1>8, <1>9, <1>10, <1>11, <1>12, <1>13
  DEF Next, System, World

(* SuccessIsReal, with a bootloader that rolls back what it finds unfit, as *)
(* long as no padawan is asked for twice and the staged version differs     *)
(* from the one that runs: then the version a padawan reports tells an      *)
(* update from a rollback, and nothing reaches it after its turn.           *)
THEOREM DeploySurvivesRollback ==
  ASSUME SameVersion = FALSE, \A a \in Agendas : AskedOnce(a)
  PROVE  Spec => []SuccessIsReal
<1>1. OnceInv => SuccessIsReal
  <2> SUFFICES ASSUME OnceInv, NEW i \in DOMAIN reports, NEW j \in DOMAIN reports[i].rows
               PROVE  Final(reports[i].rows[j])
    BY DEF SuccessIsReal, Final
  <2>1. reports[i].rows \in Seq(FinalRow)
    BY DEF OnceInv
  <2>2. reports[i].rows[j] \in FinalRow
    BY <2>1
  <2> QED
    BY <2>2 DEF FinalRow
<1>2. TypeInv /\ ControlInv /\ OnceInv /\ [Next]_vars => OnceInv'
  BY OnceStep
<1> QED
  BY <1>1, <1>2, TypeAlways, ControlAlways, OnceInit, PTL DEF Spec

-----------------------------------------------------------------------------
(* A report has the rows of its order list.                                 *)

(* The padawans of no entry at all.                                         *)
LEMMA PadawansNone ==
  ASSUME NEW o \in Seq(Entry), NEW i \in Nat
  PROVE  PadawansIn(o, i, i - 1) = <<>>
<1> DEFINE V == {k \in i .. i - 1 : o[k] # Master}
<1>1. V = {} /\ V \in SUBSET (1 .. 1)
  OBVIOUS
<1>2. Cardinality(V) = 0
  BY <1>1, FS_EmptySet
<1>3. Enumerates(Ascending(V), V)
  BY <1>1, AscendingIs
<1>4. DOMAIN Ascending(V) = {}
  <2>1. DOMAIN Ascending(V) = 1 .. Cardinality(V)
    BY <1>3 DEF Enumerates
  <2> QED
    BY <1>2, <2>1
<1>5. PadawansIn(o, i, i - 1) = [n \in DOMAIN Ascending(V) |-> o[Ascending(V)[n]]]
  BY DEF PadawansIn
<1> HIDE DEF V
<1> QED
  BY <1>4, <1>5

(* The padawans of a list, one entry at a time.                             *)
LEMMA PadawansOneMore ==
  ASSUME NEW o \in Seq(Entry), NEW i \in 1 .. Len(o), NEW j \in i .. Len(o)
  PROVE  /\ o[j] = Master => PadawansIn(o, i, j) = PadawansIn(o, i, j - 1)
         /\ o[j] # Master => PadawansIn(o, i, j) = Append(PadawansIn(o, i, j - 1), o[j])
<1> DEFINE U == {k \in i .. j - 1 : o[k] # Master}
           T == {k \in i .. j : o[k] # Master}
           f == Ascending(U)
           c == Cardinality(U)
<1>0. /\ Len(o) \in Nat /\ i \in Nat /\ j \in Nat \ {0} /\ j - 1 \in Nat
      /\ U \in SUBSET (1 .. j - 1) /\ T \in SUBSET (1 .. j)
  OBVIOUS
<1>1. PadawansIn(o, i, j - 1) = [n \in DOMAIN f |-> o[f[n]]]
      /\ PadawansIn(o, i, j) = [n \in DOMAIN Ascending(T) |-> o[Ascending(T)[n]]]
  BY DEF PadawansIn
<1>3. CASE o[j] = Master
  <2>1. T = U
    BY <1>0, <1>3
  <2> QED
    BY <1>1, <1>3, <2>1
<1>4. CASE o[j] # Master
  <2> DEFINE g == [x \in 1 .. c + 1 |-> IF x = c + 1 THEN j ELSE f[x]]
  <2>1. T = U \cup {j}
    BY <1>0, <1>4
  <2>2. Enumerates(f, U) /\ Enumerates(Ascending(T), T) /\ c \in Nat
    BY <1>0, AscendingIs
  <2>3. Enumerates(g, T)
    <3> HIDE DEF U, T, f
    <3> QED
      BY <1>0, <2>1, <2>2, AscendingExtended
  <2>4. Ascending(T) = g
    <3> HIDE DEF U, T, f, g
    <3> QED
      BY <1>0, <2>2, <2>3, AscendingUnique
  <2>5. DOMAIN f = 1 .. c /\ \A n \in 1 .. c : f[n] \in 1 .. Len(o)
    <3>1. f \in [1 .. c -> U] /\ U \subseteq 1 .. Len(o)
      BY <1>0, <2>2 DEF Enumerates
    <3> HIDE DEF U, f, c
    <3> QED
      BY <3>1
  <2> DEFINE s == [n \in 1 .. c |-> o[f[n]]]
             r == [n \in 1 .. c + 1 |-> o[g[n]]]
  <2>6. PadawansIn(o, i, j - 1) = s
    BY <1>1, <2>5
  <2>7. PadawansIn(o, i, j) = r
    <3>1. DOMAIN g = 1 .. c + 1
      OBVIOUS
    <3> HIDE DEF U, T, f, g, c
    <3> QED
      BY <1>1, <2>4, <3>1
  <2>8. r = Append(s, o[j])
    <3> HIDE DEF f, c
    <3>1. s \in Seq(Entry) /\ Len(s) = c
      BY <2>2, <2>5
    <3>2. r \in Seq(Entry) /\ Len(r) = c + 1
      <4>1. \A n \in 1 .. c + 1 : o[g[n]] \in Entry
        BY <1>0, <2>2, <2>5
      <4> QED
        BY <2>2, <4>1
    <3>3. Append(s, o[j]) \in Seq(Entry) /\ Len(Append(s, o[j])) = c + 1
      BY <2>2, <3>1
    <3>4. ASSUME NEW n \in 1 .. c + 1 PROVE r[n] = Append(s, o[j])[n]
      <4>1. CASE n = c + 1
        BY <2>2, <3>1, <4>1
      <4>2. CASE n # c + 1
        <5>1. n \in 1 .. c
          BY <2>2, <3>4, <4>2
        <5> QED
          BY <2>2, <3>1, <4>2, <5>1
      <4> QED
        BY <4>1, <4>2
    <3> HIDE DEF s, r
    <3> QED
      BY <3>1, <3>2, <3>3, <3>4, SeqEqual
  <2> QED
    BY <1>4, <2>6, <2>7, <2>8
<1> QED
  BY <1>3, <1>4

(* The deferred master, one entry at a time.                                *)
LEMMA DeferNone ==
  ASSUME NEW o, NEW i \in Nat, NEW mr
  PROVE  DeferMaster(o, i, i - 1, mr) = mr
<1>1. {k \in i .. i - 1 : o[k] = Master} = {}
  OBVIOUS
<1> QED
  BY <1>1 DEF DeferMaster

LEMMA DeferOneMore ==
  ASSUME NEW o, NEW i \in Nat, NEW j \in Nat, i <= j, NEW mr
  PROVE  DeferMaster(o, i, j, mr) =
           IF o[j] = Master THEN j ELSE DeferMaster(o, i, j - 1, mr)
<1> DEFINE U == {k \in i .. j - 1 : o[k] = Master}
           T == {k \in i .. j : o[k] = Master}
<1>1. CASE o[j] = Master
  <2>1. j \in T /\ \A l \in T : l \in Nat /\ l <= j
    BY <1>1
  <2> HIDE DEF T
  <2>2. (CHOOSE k \in T : \A l \in T : l <= k) = j
    <3>1. \A k \in T : (\A l \in T : l <= k) => k = j
      BY <2>1
    <3> QED
      BY <2>1, <3>1
  <2> QED
    BY <1>1, <2>1, <2>2 DEF DeferMaster, T
<1>2. CASE o[j] # Master
  <2>1. T = U
    BY <1>2
  <2>2. /\ DeferMaster(o, i, j, mr) =
             IF T = {} THEN mr ELSE CHOOSE k \in T : \A l \in T : l <= k
        /\ DeferMaster(o, i, j - 1, mr) =
             IF U = {} THEN mr ELSE CHOOSE k \in U : \A l \in U : l <= k
    BY DEF DeferMaster
  <2> HIDE DEF T, U
  <2> QED
    BY <1>2, <2>1, <2>2
<1> QED
  BY <1>1, <1>2

(* An order list names the master at most once, and only last when the      *)
(* firmware may be gone by the time a padawan's turn comes: a master that   *)
(* has been put off then gets no row.                                       *)
Listed(o) ==
  /\ \A i, j \in DOMAIN o : o[i] = Master /\ o[j] = Master => i = j
  /\ "unstaged" \in Faults => \A i \in DOMAIN o : o[i] = Master => i = Len(o)

(* Where the row of entry k is while the master at mr waits for its own.    *)
Place(k, mr) == IF mr # 0 /\ k > mr THEN k - 1 ELSE k

(* The first n entries of o are answered by rs, in order, but for the       *)
(* master at mr, which is put off.                                          *)
Answered(rs, o, n, mr) ==
  /\ mr \in 0 .. n
  /\ Len(rs) = (IF mr = 0 THEN n ELSE n - 1)
  /\ \A k \in 1 .. n :
       IF k = mr THEN o[k] = Master ELSE o[k] # Master /\ rs[Place(k, mr)].id = o[k]

(* The row of a padawan answers its entry ...                               *)
LEMMA AnsweredByRow ==
  ASSUME NEW o \in Seq(Entry), NEW n \in 1 .. Len(o), NEW rs \in Seq(RowType), NEW row,
         NEW mr, Answered(rs, o, n - 1, mr), o[n] # Master, row.id = o[n]
  PROVE  Answered(Append(rs, row), o, n, mr)
<1> DEFINE r == Append(rs, row)
<1>1. /\ n \in Nat \ {0} /\ mr \in 0 .. n - 1 /\ mr \in Nat
      /\ Len(rs) = (IF mr = 0 THEN n - 1 ELSE n - 2)
  BY DEF Answered
<1>2. Len(r) = Len(rs) + 1 /\ r[Len(rs) + 1] = row /\ \A k \in 1 .. Len(rs) : r[k] = rs[k]
  OBVIOUS
<1> HIDE DEF r
<1>3. ASSUME NEW k \in 1 .. n
      PROVE  IF k = mr THEN o[k] = Master ELSE o[k] # Master /\ r[Place(k, mr)].id = o[k]
  <2>1. CASE k = n
    <3>1. Place(n, mr) = Len(rs) + 1
      BY <1>1 DEF Place
    <3> QED
      BY <1>1, <1>2, <2>1, <3>1
  <2>2. CASE k # n
    <3>1. k \in 1 .. n - 1
      BY <1>1, <1>3, <2>2
    <3>2. IF k = mr THEN o[k] = Master ELSE o[k] # Master /\ rs[Place(k, mr)].id = o[k]
      BY <3>1 DEF Answered
    <3>3. k # mr => Place(k, mr) \in 1 .. Len(rs)
      BY <1>1, <3>1 DEF Place
    <3> QED
      BY <1>2, <3>2, <3>3
  <2> QED
    BY <2>1, <2>2
<1>4. mr \in 0 .. n /\ Len(r) = (IF mr = 0 THEN n ELSE n - 1)
  BY <1>1, <1>2
<1> QED
  BY <1>3, <1>4 DEF Answered, r

(* ... and the only master is put off.                                      *)
LEMMA AnsweredByDeferral ==
  ASSUME NEW o \in Seq(Entry), Listed(o), NEW n \in 1 .. Len(o), NEW rs, NEW mr,
         Answered(rs, o, n - 1, mr), o[n] = Master
  PROVE  Answered(rs, o, n, n)
<1>1. n \in Nat \ {0} /\ mr \in 0 .. n - 1 /\ DOMAIN o = 1 .. Len(o)
  BY DEF Answered
<1>2. mr = 0
  <2>1. SUFFICES ASSUME mr # 0 PROVE FALSE
    OBVIOUS
  <2>2. mr \in 1 .. n - 1 /\ mr \in DOMAIN o
    BY <1>1, <2>1
  <2>3. o[mr] = Master
    BY <2>2 DEF Answered
  <2>4. mr = n
    BY <1>1, <2>2, <2>3 DEF Listed
  <2> QED
    BY <1>1, <2>2, <2>4
<1>3. ASSUME NEW k \in 1 .. n
      PROVE  IF k = n THEN o[k] = Master ELSE o[k] # Master /\ rs[Place(k, n)].id = o[k]
  <2>1. k # n => k \in 1 .. n - 1 /\ Place(k, n) = k /\ Place(k, mr) = k /\ k # mr
    BY <1>1, <1>2, <1>3 DEF Place
  <2> QED
    BY <2>1 DEF Answered
<1>4. Len(rs) = n - 1
  BY <1>2 DEF Answered
<1> QED
  BY <1>1, <1>3, <1>4 DEF Answered

(* One more padawan among those that could not be set up.                   *)
LEMMA FailedOneMore ==
  ASSUME NEW rs \in Seq(RowType), NEW ids \in Seq(Entry), NEW id \in Entry, NEW reason \in Reason
  PROVE  rs \o Failed(Append(ids, id), reason)
           = Append(rs \o Failed(ids, reason), Row(id, "FAILED", reason))
<1> DEFINE more == Append(ids, id)
           row == Row(id, "FAILED", reason)
           f == Failed(ids, reason)
           g == Failed(more, reason)
<1>1. more \in Seq(Entry) /\ Len(more) = Len(ids) + 1 /\ Len(ids) \in Nat
      /\ more[Len(ids) + 1] = id /\ \A i \in 1 .. Len(ids) : more[i] = ids[i]
  OBVIOUS
<1> HIDE DEF more
<1>2. row \in RowType /\ f \in Seq(RowType) /\ g \in Seq(RowType)
  BY <1>1, FailedType DEF Row, RowType, Entry
<1>3. Len(f) = Len(ids) /\ Len(g) = Len(ids) + 1
  <2>1. DOMAIN f = 1 .. Len(ids) /\ DOMAIN g = 1 .. Len(more)
    BY <1>1 DEF Failed
  <2> HIDE DEF f, g
  <2> QED
    BY <1>1, <1>2, <2>1
<1>4. g = Append(f, row)
  <2>1. \A i \in 1 .. Len(ids) : g[i] = f[i]
    BY <1>1 DEF Failed
  <2>2. g[Len(ids) + 1] = row
    BY <1>1 DEF Failed
  <2> HIDE DEF f, g, row
  <2>3. Append(f, row) \in Seq(RowType) /\ Len(Append(f, row)) = Len(ids) + 1
        /\ Append(f, row)[Len(ids) + 1] = row
        /\ \A i \in 1 .. Len(ids) : Append(f, row)[i] = f[i]
    BY <1>1, <1>2, <1>3
  <2>4. \A i \in 1 .. Len(ids) + 1 : g[i] = Append(f, row)[i]
    <3>1. \A i \in 1 .. Len(ids) + 1 : i = Len(ids) + 1 \/ i \in 1 .. Len(ids)
      BY <1>1
    <3> QED
      BY <2>1, <2>2, <2>3, <3>1
  <2> QED
    BY <1>2, <1>3, <2>3, <2>4, SeqEqual
<1> HIDE DEF f, g, row
<1>5. rs \o Append(f, row) = Append(rs \o f, row)
  <2>1. rs \o Append(f, row) \in Seq(RowType) /\ Append(rs \o f, row) \in Seq(RowType)
    BY <1>2
  <2>2. Len(rs \o Append(f, row)) = Len(rs) + Len(f) + 1
        /\ Len(Append(rs \o f, row)) = Len(rs) + Len(f) + 1
    BY <1>2
  <2>3. ASSUME NEW i \in 1 .. Len(rs) + Len(f) + 1
        PROVE  (rs \o Append(f, row))[i] = Append(rs \o f, row)[i]
    BY <1>2, <2>3
  <2> QED
    BY <2>1, <2>2, <2>3, SeqEqual
<1> QED
  BY <1>4, <1>5 DEF more, f, g, row

(* startNextPadawan answers the entries it skips.                           *)
Skipped(rs, o, i, j) == rs \o Failed(PadawansIn(o, i, j), "setup_failed")

LEMMA AnsweredBySkipping ==
  ASSUME NEW o \in Seq(Entry), Listed(o), NEW i \in 1 .. Len(o) + 1, NEW rs \in Seq(RowType),
         NEW mr, Answered(rs, o, i - 1, mr), NEW j \in i - 1 .. Len(o)
  PROVE  Answered(Skipped(rs, o, i, j), o, j, DeferMaster(o, i, j, mr))
         /\ Skipped(rs, o, i, j) \in Seq(RowType)
<1> DEFINE Done(k) == Answered(Skipped(rs, o, i, k), o, k, DeferMaster(o, i, k, mr))
                      /\ Skipped(rs, o, i, k) \in Seq(RowType)
           Bad == {k \in i - 1 .. Len(o) : ~Done(k)}
<1>0. i \in Nat \ {0} /\ Len(o) \in Nat
  OBVIOUS
<1>1. Done(i - 1)
  <2>1. PadawansIn(o, i, i - 1) = <<>> /\ DeferMaster(o, i, i - 1, mr) = mr
    BY <1>0, PadawansNone, DeferNone
  <2>2. Failed(<<>>, "setup_failed") = <<>> /\ rs \o <<>> = rs
    BY DEF Failed
  <2> QED
    BY <2>1, <2>2 DEF Skipped
<1>2. ASSUME NEW k \in i .. Len(o), Done(k - 1) PROVE Done(k)
  <2>0. k \in 1 .. Len(o) /\ k \in Nat /\ i <= k /\ i \in 1 .. Len(o) /\ k - 1 \in Int /\ k - 1 <= Len(o)
    BY <1>0
  <2> DEFINE before == Skipped(rs, o, i, k - 1)
             ids == PadawansIn(o, i, k - 1)
             row == Row(o[k], "FAILED", "setup_failed")
             defer == DeferMaster(o, i, k - 1, mr)
  <2>1. ids \in Seq(Entry)
    <3>1. ids \in Seq(Padawans)
      BY <1>0, <2>0, PadawansInType
    <3> QED
      BY <3>1 DEF Entry
  <2>2. before \in Seq(RowType) /\ Answered(before, o, k - 1, defer)
    BY <1>2
  <2>3. CASE o[k] = Master
    <3>1. Skipped(rs, o, i, k) = before
      BY <2>0, <2>3, PadawansOneMore DEF Skipped
    <3>2. DeferMaster(o, i, k, mr) = k
      BY <1>0, <2>0, <2>3, DeferOneMore
    <3> HIDE DEF before, defer
    <3>3. Answered(before, o, k, k)
      BY <2>0, <2>2, <2>3, AnsweredByDeferral
    <3> QED
      BY <2>2, <3>1, <3>2, <3>3
  <2>4. CASE o[k] # Master
    <3>1. o[k] \in Entry /\ "setup_failed" \in Reason
      BY <2>0 DEF Reason
    <3>2. row \in RowType /\ row.id = o[k]
      BY <3>1 DEF Row, RowType, Entry
    <3>3. Skipped(rs, o, i, k) = Append(before, row)
      <4>1. PadawansIn(o, i, k) = Append(ids, o[k])
        BY <2>0, <2>4, PadawansOneMore
      <4> HIDE DEF ids
      <4>2. rs \o Failed(Append(ids, o[k]), "setup_failed")
              = Append(rs \o Failed(ids, "setup_failed"), row)
        BY <2>1, <3>1, FailedOneMore
      <4> QED
        BY <4>1, <4>2 DEF Skipped, ids
    <3>4. DeferMaster(o, i, k, mr) = defer
      BY <1>0, <2>0, <2>4, DeferOneMore
    <3> HIDE DEF before, defer, row
    <3>5. Answered(Append(before, row), o, k, defer)
      BY <2>0, <2>2, <2>4, <3>2, AnsweredByRow
    <3> QED
      BY <2>2, <3>2, <3>3, <3>4, <3>5
  <2> QED
    BY <2>3, <2>4
<1> HIDE DEF Done
<1>3. Bad = {}
  <2>1. SUFFICES ASSUME Bad # {} PROVE FALSE
    OBVIOUS
  <2>2. Bad \subseteq Nat
    BY <1>0
  <2>3. PICK k \in Bad : \A l \in Bad : k <= l
    <3> HIDE DEF Bad
    <3> QED
      BY <2>1, <2>2, LeastNumber
  <2>4. k # i - 1 /\ k \in i - 1 .. Len(o) /\ ~Done(k)
    BY <1>1, <2>3
  <2>5. k \in i .. Len(o) /\ k - 1 \in i - 1 .. Len(o)
    BY <1>0, <2>4
  <2>6. Done(k - 1)
    <3>1. ~(k <= k - 1)
      BY <1>0, <2>5
    <3> QED
      BY <2>3, <2>5, <3>1
  <2> QED
    BY <1>2, <2>4, <2>5, <2>6
<1> QED
  BY <1>3 DEF Done

(* A report without a master that was put off ...                           *)
LEMMA IdsAre ==
  ASSUME NEW o \in Seq(Entry), NEW rs \in Seq(RowType), Len(rs) = Len(o),
         \A k \in 1 .. Len(o) : rs[k].id = o[k]
  PROVE  Ids(rs) = o
<1>1. DOMAIN Ids(rs) = 1 .. Len(o) /\ \A k \in 1 .. Len(o) : Ids(rs)[k] = o[k]
  BY DEF Ids
<1>2. Ids(rs) = [k \in 1 .. Len(o) |-> rs[k].id] /\ o = [k \in 1 .. Len(o) |-> o[k]]
  BY DEF Ids
<1> QED
  BY <1>2

LEMMA ReportWithoutMaster ==
  ASSUME NEW o \in Seq(Entry), NEW rs \in Seq(RowType), Answered(rs, o, Len(o), 0)
  PROVE  Ids(rs) = o
<1>1. Len(rs) = Len(o) /\ \A k \in 1 .. Len(o) : rs[k].id = o[k]
  BY DEF Answered, Place
<1> QED
  BY <1>1, IdsAre

(* Two sequences of rows in a row.                                          *)
LEMMA RowsJoined ==
  ASSUME NEW a \in Seq(RowType), NEW b \in Seq(RowType)
  PROVE  /\ a \o b \in Seq(RowType) /\ Len(a \o b) = Len(a) + Len(b)
         /\ \A k \in 1 .. Len(a) : (a \o b)[k] = a[k]
         /\ \A k \in 1 .. Len(b) : (a \o b)[Len(a) + k] = b[k]
         /\ Len(a) \in Nat /\ Len(b) \in Nat
OBVIOUS

(* ... one with the master's row where the operator had it ...              *)
LEMMA ReportWithMaster ==
  ASSUME NEW o \in Seq(Entry), NEW rs \in Seq(RowType), NEW mr \in 1 .. Len(o),
         Answered(rs, o, Len(o), mr), NEW status \in {"FAILED", "PENDING"}, NEW reason \in Reason
  PROVE  Ids(WithMasterRow(rs, mr, status, reason)) = o
<1> DEFINE row == Row(Master, status, reason)
           before == SubSeq(rs, 1, mr - 1)
           head == before \o <<row>>
           after == SubSeq(rs, mr, Len(rs))
           all == head \o after
<1>1. Len(o) \in Nat \ {0} /\ mr \in Nat \ {0} /\ mr <= Len(o) /\ Len(rs) = Len(o) - 1
  BY DEF Answered
<1>2. row \in RowType /\ row.id = Master
  BY DEF Row, RowType
<1>3. WithMasterRow(rs, mr, status, reason) = all
  <2>1. (IF mr - 1 < Len(rs) THEN mr - 1 ELSE Len(rs)) = mr - 1 /\ mr - 1 + 1 = mr
    BY <1>1
  <2> QED
    BY <2>1 DEF WithMasterRow
<1>4. /\ before \in Seq(RowType) /\ Len(before) = mr - 1
      /\ \A k \in 1 .. mr - 1 : before[k] = rs[k]
  BY <1>1
<1>5. /\ after \in Seq(RowType) /\ Len(after) = Len(o) - mr
      /\ \A k \in 1 .. Len(o) - mr : after[k] = rs[k + mr - 1]
  BY <1>1
<1> HIDE DEF row, before, after
<1>6. /\ head \in Seq(RowType) /\ Len(head) = mr /\ head[mr] = row
      /\ \A k \in 1 .. mr - 1 : head[k] = rs[k]
  <2>1. <<row>> \in Seq(RowType) /\ Len(<<row>>) = 1 /\ <<row>>[1] = row
    BY <1>2
  <2>2. /\ head \in Seq(RowType) /\ Len(head) = Len(before) + Len(<<row>>)
        /\ \A k \in 1 .. Len(before) : head[k] = before[k]
        /\ \A k \in 1 .. Len(<<row>>) : head[Len(before) + k] = <<row>>[k]
    BY <1>4, <2>1, RowsJoined
  <2> HIDE DEF head
  <2>3. Len(head) = mr /\ Len(before) + 1 = mr
    BY <1>1, <1>4, <2>1, <2>2
  <2>4. head[Len(before) + 1] = row
    BY <2>1, <2>2
  <2> QED
    BY <1>4, <2>2, <2>3, <2>4
<1> HIDE DEF head
<1>7. /\ all \in Seq(RowType) /\ Len(all) = Len(o) /\ all[mr] = row
      /\ \A k \in 1 .. mr - 1 : all[k] = rs[k]
      /\ \A k \in 1 .. Len(o) - mr : all[mr + k] = rs[k + mr - 1]
  <2>1. /\ all \in Seq(RowType) /\ Len(all) = mr + (Len(o) - mr)
        /\ \A k \in 1 .. mr : all[k] = head[k]
        /\ \A k \in 1 .. Len(o) - mr : all[mr + k] = after[k]
    <3>1. /\ all \in Seq(RowType) /\ Len(all) = Len(head) + Len(after)
          /\ \A k \in 1 .. Len(head) : all[k] = head[k]
          /\ \A k \in 1 .. Len(after) : all[Len(head) + k] = after[k]
      BY <1>5, <1>6, RowsJoined
    <3> HIDE DEF all
    <3> QED
      BY <1>5, <1>6, <3>1
  <2> HIDE DEF all
  <2>2. mr \in 1 .. mr /\ \A k \in 1 .. mr - 1 : k \in 1 .. mr
    BY <1>1
  <2> QED
    <3>1. \A k \in 1 .. mr - 1 : all[k] = rs[k]
      BY <1>6, <2>1, <2>2
    <3>2. Len(all) = Len(o)
      BY <1>1, <2>1
    <3> QED
      BY <1>5, <1>6, <2>1, <2>2, <3>1, <3>2
<1> HIDE DEF all
<1>8. ASSUME NEW k \in 1 .. Len(o) PROVE all[k].id = o[k]
  <2>0. k \in Nat /\ IF k = mr THEN o[k] = Master ELSE o[k] # Master /\ rs[Place(k, mr)].id = o[k]
    BY DEF Answered
  <2>1. CASE k < mr
    <3>1. k \in 1 .. mr - 1 /\ Place(k, mr) = k /\ k # mr
      BY <1>1, <2>0, <2>1, <1>8 DEF Place
    <3> QED
      BY <1>7, <2>0, <3>1
  <2>2. CASE k = mr
    BY <1>2, <1>7, <2>0, <2>2
  <2>3. CASE k > mr
    <3>1. /\ k - mr \in 1 .. Len(o) - mr /\ (k - mr) + mr - 1 = k - 1 /\ mr + (k - mr) = k
          /\ Place(k, mr) = k - 1 /\ k # mr
      BY <1>1, <1>8, <2>3 DEF Place
    <3> QED
      BY <1>7, <2>0, <3>1
  <2> QED
    BY <1>1, <2>0, <2>1, <2>2, <2>3
<1> QED
  BY <1>3, <1>7, <1>8, IdsAre

(* ... and one whose last entries found no firmware.                        *)
LEMMA ReportWithoutFirmware ==
  ASSUME NEW o \in Seq(Entry), Listed(o), "unstaged" \in Faults, NEW j \in 1 .. Len(o),
         NEW rs \in Seq(RowType), NEW mr, Answered(rs, o, j - 1, mr), NEW reason \in Reason
  PROVE  Ids(rs \o Failed(SubSeq(o, j, Len(o)), reason)) = o
<1> DEFINE rest == SubSeq(o, j, Len(o))
           f == Failed(rest, reason)
           all == rs \o f
<1>1. j \in Nat \ {0} /\ Len(o) \in Nat /\ j <= Len(o) /\ mr \in 0 .. j - 1 /\ DOMAIN o = 1 .. Len(o)
  BY DEF Answered
<1>2. mr = 0
  <2>1. SUFFICES ASSUME mr # 0 PROVE FALSE
    OBVIOUS
  <2>2. mr \in 1 .. j - 1
    BY <1>1, <2>1
  <2>3. mr \in Nat /\ 1 <= mr /\ mr < Len(o)
    BY <1>1, <2>2
  <2>4. o[mr] = Master
    BY <2>2 DEF Answered
  <2> QED
    BY <1>1, <2>3, <2>4 DEF Listed
<1>3. Len(rs) = j - 1 /\ \A k \in 1 .. j - 1 : rs[k].id = o[k]
  BY <1>1, <1>2 DEF Answered, Place
<1>4. rest \in Seq(Entry) /\ Len(rest) = Len(o) - (j - 1)
      /\ \A k \in 1 .. Len(o) - (j - 1) : rest[k] = o[(j - 1) + k]
  BY <1>1
<1> HIDE DEF rest
<1>5. f \in Seq(RowType) /\ Len(f) = Len(rest) /\ \A k \in 1 .. Len(rest) : f[k].id = rest[k]
  <2>1. f \in Seq(RowType)
    BY <1>4, FailedType
  <2>2. DOMAIN f = 1 .. Len(rest) /\ \A k \in 1 .. Len(rest) : f[k].id = rest[k]
    BY <1>4 DEF Failed, Row
  <2> HIDE DEF f
  <2>3. Len(f) = Len(rest)
    <3>1. Len(rest) \in Nat /\ Len(f) \in Nat /\ DOMAIN f = 1 .. Len(f)
      BY <1>4, <2>1
    <3> QED
      BY <2>2, <3>1
  <2> QED
    BY <2>1, <2>2, <2>3, Zenon
<1> HIDE DEF f
<1>6. /\ all \in Seq(RowType) /\ Len(all) = (j - 1) + (Len(o) - (j - 1))
      /\ \A k \in 1 .. j - 1 : all[k] = rs[k]
      /\ \A k \in 1 .. Len(o) - (j - 1) : all[(j - 1) + k] = f[k]
  <2>1. /\ all \in Seq(RowType) /\ Len(all) = Len(rs) + Len(f)
        /\ \A k \in 1 .. Len(rs) : all[k] = rs[k]
        /\ \A k \in 1 .. Len(f) : all[Len(rs) + k] = f[k]
    BY <1>5, RowsJoined
  <2> HIDE DEF all
  <2> QED
    BY <1>3, <1>4, <1>5, <2>1
<1> HIDE DEF all
<1>7. ASSUME NEW k \in 1 .. Len(o) PROVE all[k].id = o[k]
  <2>1. CASE k < j
    <3>1. k \in 1 .. j - 1
      BY <1>1, <1>7, <2>1
    <3> QED
      BY <1>3, <1>6, <3>1
  <2>2. CASE k >= j
    <3>1. k - (j - 1) \in 1 .. Len(o) - (j - 1) /\ (j - 1) + (k - (j - 1)) = k
      BY <1>1, <1>7, <2>2
    <3> QED
      <4> DEFINE n == k - (j - 1)
      <4>1. n \in 1 .. Len(rest) /\ all[(j - 1) + n] = f[n] /\ rest[n] = o[(j - 1) + n]
        BY <1>4, <1>6, <3>1
      <4> QED
        BY <1>5, <3>1, <4>1
  <2> QED
    BY <1>1, <1>7, <2>1, <2>2
<1>8. Ids(all) = o
  BY <1>1, <1>6, <1>7, IdsAre
<1> QED
  BY <1>8 DEF all, f, rest

(* What the forwarder has answered so far, and what it has reported.        *)
Ordered ==
  /\ phase # "IDLE" => Listed(orderList)
  /\ phase \in Waiting => Answered(results, orderList, nextOrderIdx - 1, masterRow)
  /\ phase = "MASTER_SELF_FLASHING" => Answered(results, orderList, Len(orderList), masterRow)

OrderInv == agenda \in Agendas /\ Ordered /\ ReportMatchesOrder

(* A step that reports at most one more deploy, in order.                   *)
ReportsInOrder ==
  \/ UNCHANGED reports
  \/ \E r : /\ reports' = Append(reports, r)
            /\ r.order # <<>> => Ids(r.rows) = r.order

LEMMA EmitInOrder ==
  ASSUME NEW o, NEW rs, Ids(rs) = o, NEW q, NEW d, EmitDeployDone(o, rs, q, d)
  PROVE  ReportsInOrder /\ Ordered'
<1>1. reports' = Append(reports, [order |-> o, rows |-> rs]) /\ phase' = "IDLE"
  BY DEF EmitDeployDone
<1>2. ReportsInOrder
  BY <1>1 DEF ReportsInOrder
<1> QED
  BY <1>1, <1>2 DEF Ordered, Waiting

(* startNextPadawan, from entries that are answered.                        *)
LEMMA NextInOrder ==
  ASSUME NEW o \in Seq(Entry), Listed(o), NEW i \in 1 .. Len(o) + 1, NEW rs \in Seq(RowType),
         NEW mr, Answered(rs, o, i - 1, mr), NEW q, NEW d, StartNextPadawan(o, i, rs, mr, q, d)
  PROVE  ReportsInOrder /\ Ordered'
<1>0. i \in Nat \ {0} /\ Len(o) \in Nat
  OBVIOUS
<1>1. ASSUME NEW j \in i - 1 .. Len(o)
      PROVE  Answered(Skipped(rs, o, i, j), o, j, DeferMaster(o, i, j, mr))
             /\ Skipped(rs, o, i, j) \in Seq(RowType)
  BY <1>1, AnsweredBySkipping
<1>2. ASSUME NEW j \in i .. Len(o), NEW rows, NEW defer, Answered(rows, o, j - 1, defer),
             StartPadawan(o, j, rows, defer, q, d)
      PROVE  ReportsInOrder /\ Ordered'
  <2>1. /\ phase' = "AWAITING_BEGIN_ACK" /\ UNCHANGED reports
        /\ orderList' = o /\ nextOrderIdx' = j /\ results' = rows /\ masterRow' = defer
    BY <1>2 DEF StartPadawan
  <2> QED
    BY <1>2, <2>1 DEF ReportsInOrder, Ordered, Waiting
<1>3. ASSUME NEW j \in i .. Len(o), NEW rows \in Seq(RowType), NEW defer,
             Answered(rows, o, j - 1, defer), "unstaged" \in Faults,
             EmitDeployDone(o, rows \o Failed(SubSeq(o, j, Len(o)), "no_firmware"), q, d)
      PROVE  ReportsInOrder /\ Ordered'
  <2>1. j \in 1 .. Len(o)
    BY <1>0
  <2>2. Ids(rows \o Failed(SubSeq(o, j, Len(o)), "no_firmware")) = o
    BY <1>3, <2>1, ReportWithoutFirmware DEF Reason
  <2> QED
    BY <1>3, <2>2, EmitInOrder
<1>4. ASSUME NEW rows \in Seq(RowType), NEW defer, defer # 0, Answered(rows, o, Len(o), defer),
             StartMasterSelfFlash(o, rows, defer, q, d)
      PROVE  ReportsInOrder /\ Ordered'
  <2>1. CASE /\ phase' = "MASTER_SELF_FLASHING" /\ UNCHANGED reports
             /\ orderList' = o /\ results' = rows /\ masterRow' = defer
    BY <1>4, <2>1 DEF ReportsInOrder, Ordered, Waiting
  <2>2. CASE EmitDeployDone(o, WithMasterRow(rows, defer, "FAILED", "self_flash_setup"), q, d)
    <3>1. defer \in 1 .. Len(o)
      BY <1>0, <1>4 DEF Answered
    <3>2. Ids(WithMasterRow(rows, defer, "FAILED", "self_flash_setup")) = o
      BY <1>4, <3>1, ReportWithMaster DEF Reason
    <3> QED
      BY <2>2, <3>2, EmitInOrder
  <2> QED
    BY <1>4, <2>1, <2>2 DEF StartMasterSelfFlash
<1>5. ASSUME NEW j \in i .. Len(o),
             LET skipped == PadawansIn(o, i, j - 1) IN
             /\ o[j] # Master
             /\ skipped # <<>> => "setup" \in Faults
             /\ \/ StartPadawan(o, j, rs \o Failed(skipped, "setup_failed"),
                                DeferMaster(o, i, j - 1, mr), q, d)
                \/ /\ "unstaged" \in Faults
                   /\ EmitDeployDone(o, rs \o Failed(skipped, "setup_failed")
                                           \o Failed(SubSeq(o, j, Len(o)), "no_firmware"), q, d)
                   /\ UNCHANGED localReq
      PROVE  ReportsInOrder /\ Ordered'
  <2> DEFINE rows == Skipped(rs, o, i, j - 1)
             defer == DeferMaster(o, i, j - 1, mr)
  <2>1. Answered(rows, o, j - 1, defer) /\ rows \in Seq(RowType)
    <3>1. j - 1 \in i - 1 .. Len(o)
      BY <1>0
    <3> QED
      BY <3>1, <1>1
  <2>2. \/ StartPadawan(o, j, rows, defer, q, d)
        \/ /\ "unstaged" \in Faults
           /\ EmitDeployDone(o, rows \o Failed(SubSeq(o, j, Len(o)), "no_firmware"), q, d)
    BY <1>5 DEF Skipped
  <2> HIDE DEF rows, defer
  <2> QED
    BY <2>1, <2>2, <1>2, <1>3
<1>6. ASSUME LET skipped == PadawansIn(o, i, Len(o))
                 deferred == DeferMaster(o, i, Len(o), mr)
                 rows == rs \o Failed(skipped, "setup_failed") IN
             /\ skipped # <<>> => "setup" \in Faults
             /\ IF deferred # 0
                THEN StartMasterSelfFlash(o, rows, deferred, q, d)
                ELSE EmitDeployDone(o, rows, q, d) /\ UNCHANGED localReq
      PROVE  ReportsInOrder /\ Ordered'
  <2> DEFINE deferred == DeferMaster(o, i, Len(o), mr)
             rows == Skipped(rs, o, i, Len(o))
  <2>1. Answered(rows, o, Len(o), deferred) /\ rows \in Seq(RowType)
    <3>1. Len(o) \in i - 1 .. Len(o)
      BY <1>0
    <3> QED
      BY <3>1, <1>1
  <2>2. IF deferred # 0
        THEN StartMasterSelfFlash(o, rows, deferred, q, d)
        ELSE EmitDeployDone(o, rows, q, d)
    BY <1>6 DEF Skipped
  <2> HIDE DEF rows, deferred
  <2>3. CASE deferred # 0
    BY <2>1, <2>2, <2>3, <1>4
  <2>4. CASE deferred = 0
    <3>1. Ids(rows) = o
      BY <2>1, <2>4, ReportWithoutMaster
    <3> QED
      BY <2>2, <2>4, <3>1, EmitInOrder
  <2> QED
    BY <2>3, <2>4
<1> QED
  BY <1>5, <1>6 DEF StartNextPadawan

(* finishCurrentPadawanAndAdvance answers the current entry.                *)
LEMMA FinishInOrder ==
  ASSUME ForwarderType, Ordered, phase \in Waiting, NEW status \in {"OK", "FAILED"},
         NEW reason \in Reason, NEW q, NEW d, Finish(status, reason, q, d)
  PROVE  ReportsInOrder /\ Ordered'
<1> DEFINE row == Row(Current, status, reason)
<1>1. /\ orderList \in Seq(Entry) /\ nextOrderIdx \in 1 .. Len(orderList)
      /\ Current \in Padawans /\ results \in Seq(RowType) /\ Current = orderList[nextOrderIdx]
  BY DEF ForwarderType, Current
<1>2. nextOrderIdx + 1 \in 1 .. Len(orderList) + 1 /\ (nextOrderIdx + 1) - 1 = nextOrderIdx
  BY <1>1
<1>3. Listed(orderList) /\ Answered(results, orderList, nextOrderIdx - 1, masterRow)
  BY DEF Ordered, Waiting
<1>4. row \in RowType /\ row.id = Current /\ Current # Master
  BY <1>1, ForwarderAssumption DEF Row, RowType
<1>5. Append(results, row) \in Seq(RowType)
  BY <1>1, <1>4
<1>6. StartNextPadawan(orderList, nextOrderIdx + 1, Append(results, row), masterRow, q, d)
  BY DEF Finish
<1> HIDE DEF row
<1>7. Answered(Append(results, row), orderList, nextOrderIdx, masterRow)
  BY <1>1, <1>3, <1>4, AnsweredByRow
<1> QED
  BY <1>1, <1>2, <1>3, <1>5, <1>6, <1>7, NextInOrder

(* The end of the master's own flash.                                       *)
LEMMA MasterInOrder ==
  ASSUME ForwarderType, Ordered, NEW q, MasterDone(q)
  PROVE  ReportsInOrder /\ Ordered'
<1>1. /\ orderList \in Seq(Entry) /\ results \in Seq(RowType) /\ masterRow \in 1 .. Len(orderList)
      /\ Answered(results, orderList, Len(orderList), masterRow)
  BY DEF ForwarderType, MasterDone, Ordered
<1>2. ASSUME NEW status \in {"FAILED", "PENDING"}, NEW reason \in Reason,
             FinishMaster(status, reason, q)
      PROVE  ReportsInOrder /\ Ordered'
  <2>1. Ids(WithMasterRow(results, masterRow, status, reason)) = orderList
    BY <1>1, ReportWithMaster
  <2> QED
    BY <1>2, <2>1, EmitInOrder DEF FinishMaster
<1> QED
  BY <1>2 DEF MasterDone

(* A request begins with nothing answered, or is refused whole.             *)
LEMMA AskInOrder ==
  ASSUME ForwarderType, Ordered, NEW o \in Seq(Entry), Listed(o), HandleDeployBegin(o)
  PROVE  ReportsInOrder /\ Ordered'
<1>1. CASE Refusal(o) = "none"
  <2>1. Answered(<<>>, o, 0, 0) /\ <<>> \in Seq(RowType)
    BY DEF Answered
  <2>2. 1 \in 1 .. Len(o) + 1 /\ 1 - 1 = 0
    OBVIOUS
  <2>3. StartNextPadawan(o, 1, <<>>, 0, fq, down)
    BY <1>1 DEF HandleDeployBegin
  <2> QED
    BY <2>1, <2>2, <2>3, NextInOrder
<1>2. CASE Refusal(o) # "none"
  <2>1. UNCHANGED <<phase, deploy>>
        /\ reports' = Append(reports, [order |-> o, rows |->
                        IF o = <<>> THEN <<Row("unknown", "FAILED", Refusal(o))>>
                        ELSE Failed(o, Refusal(o))])
    BY <1>2 DEF HandleDeployBegin
  <2>2. Ids(Failed(o, Refusal(o))) = o
    <3>1. Ids(Failed(o, Refusal(o))) = [i \in DOMAIN o |-> o[i]]
      BY DEF Ids, Failed, Row
    <3> QED
      BY <3>1
  <2>3. ReportsInOrder
    BY <2>1, <2>2 DEF ReportsInOrder
  <2> QED
    BY <2>1, <2>3 DEF Ordered, deploy
<1> QED
  BY <1>1, <1>2

(* One more report in order leaves all of them in order.                    *)
LEMMA ReportsStayInOrder ==
  ASSUME ForwarderType, ReportMatchesOrder, ReportsInOrder
  PROVE  ReportMatchesOrder'
<1>1. reports \in Seq(Report) /\ Len(reports) \in Nat
  BY DEF ForwarderType
<1>2. CASE UNCHANGED reports
  BY <1>2 DEF ReportMatchesOrder, Ids
<1>3. ASSUME NEW r, reports' = Append(reports, r), r.order # <<>> => Ids(r.rows) = r.order,
             NEW i \in DOMAIN reports', reports'[i].order # <<>>
      PROVE  Ids(reports'[i].rows) = reports'[i].order
  <2>1. DOMAIN reports' = 1 .. Len(reports) + 1 /\ DOMAIN reports = 1 .. Len(reports)
        /\ reports'[Len(reports) + 1] = r
        /\ \A k \in 1 .. Len(reports) : reports'[k] = reports[k]
    BY <1>1, <1>3
  <2>2. CASE i = Len(reports) + 1
    BY <1>3, <2>1, <2>2
  <2>3. CASE i # Len(reports) + 1
    <3>1. i \in DOMAIN reports /\ reports'[i] = reports[i]
      BY <1>1, <1>3, <2>1, <2>3
    <3> QED
      BY <1>3, <3>1 DEF ReportMatchesOrder
  <2> QED
    BY <2>2, <2>3
<1> QED
  BY <1>2, <1>3 DEF ReportsInOrder, ReportMatchesOrder, Ids

(* Every step keeps the order.                                              *)
LEMMA OrderStep ==
  ASSUME \A a \in Agendas : \A k \in DOMAIN a : Listed(a[k])
  PROVE  TypeInv /\ ControlInv /\ OrderInv /\ [Next]_vars => OrderInv'
<1> SUFFICES ASSUME TypeInv, ControlInv, OrderInv, [Next]_vars PROVE OrderInv'
  OBVIOUS
<1> USE DEF TypeInv, OrderInv
<1>1. SUFFICES ReportsInOrder /\ Ordered' /\ UNCHANGED agenda
  BY ReportsStayInOrder
<1>2. UNCHANGED <<deploy, phase, reports>> => ReportsInOrder /\ Ordered'
  BY DEF deploy, ReportsInOrder, Ordered
<1>3. \A q : Fails(q) => ReportsInOrder /\ Ordered'
  <2>1. "FAILED" \in {"OK", "FAILED"}
    OBVIOUS
  <2> QED
    BY <2>1, FinishInOrder DEF Fails
<1>4. CASE Forward
  <2>1. HandleMessage /\ UNCHANGED agenda /\ MessageMoves
    BY <1>4, Moves DEF Forward, bounds, ControlInv, LinkType
  <2>2. CASE Stays
    BY <1>2, <2>1, <2>2 DEF Stays
  <2>3. ASSUME NEW from \in Waiting, NEW to \in Waiting, NEW ts, Shifts(from, to, ts)
        PROVE  ReportsInOrder /\ Ordered'
    BY <2>3 DEF Shifts, deploy, ReportsInOrder, Ordered, Waiting
  <2>4. CASE Streams \/ EndSent \/ Written \/ Flashed
    <3>1. {"AWAITING_BEGIN_ACK", "STREAMING", "AWAITING_END_ACK", "AWAITING_FLASH_RESULT",
           "AWAITING_VERSION_CONFIRMED"} \subseteq Waiting
      BY DEF Waiting
    <3> QED
      BY <2>1, <2>3, <2>4, <3>1 DEF Streams, EndSent, Written, Flashed
  <2>5. ASSUME NEW q, MasterDone(q) PROVE ReportsInOrder /\ Ordered'
    BY <2>5, MasterInOrder
  <2> QED
    BY <1>3, <2>1, <2>2, <2>4, <2>5 DEF MessageMoves
<1>5. CASE TickStep
  <2>1. \E E : HandleTick(E)
    BY <1>5 DEF TickStep
  <2>2. UNCHANGED agenda
    BY <1>5 DEF TickStep, bounds
  <2> QED
    BY <1>2, <1>3, <2>1, <2>2, TickMoves DEF Stays
<1>6. CASE Poll \/ PollingTimerFires
  BY <1>2, <1>6 DEF Poll, PollingTimerFires, bounds, forwarderVars
<1>7. CASE ConfirmVersion
  <2>1. phase \in Waiting /\ Finish("OK", "", fq, down) /\ UNCHANGED agenda
    BY <1>7 DEF ConfirmVersion, CheckPeerVersion, Waiting, bounds
  <2>2. "" \in Reason
    BY DEF Reason
  <2> QED
    BY <2>1, <2>2, FinishInOrder
<1>8. ASSUME UNCHANGED forwarderVars PROVE UNCHANGED <<deploy, phase, reports>>
  BY <1>8 DEF forwarderVars
<1>9. CASE MasterWrite \/ \E p \in Padawans : Write(p) \/ WriterGoesIdle(p)
  BY <1>2, <1>8, <1>9 DEF MasterWrite, Write, WriterGoesIdle, bounds
<1>10. ASSUME NEW t \in Timer, DeadlinePasses(t) PROVE ReportsInOrder /\ Ordered' /\ UNCHANGED agenda
  BY <1>2, <1>10 DEF DeadlinePasses, TimerFires, bounds
<1>11. CASE LoseReply \/ \E p \in Padawans : LoseFrame(p) \/ Crash(p)
  BY <1>2, <1>8, <1>11 DEF LoseReply, LoseFrame, Crash
<1>12. CASE Ask
  <2>1. /\ asked + 1 \in DOMAIN agenda /\ HandleDeployBegin(agenda[asked + 1])
        /\ agenda[asked + 1] \in Seq(Entry) /\ UNCHANGED agenda
    BY <1>12 DEF Ask, BoundsType
  <2>2. Listed(agenda[asked + 1])
    BY <2>1
  <2> QED
    BY <2>1, <2>2, AskInOrder
<1>13. CASE UNCHANGED vars
  BY <1>2, <1>8, <1>13 DEF vars, bounds
<1> QED
  BY <1>4, <1>5, <1>6, <1>7, <1>9, <1>10, <1>11, <1>12, <1>13 DEF Next, System, World

(* ReportMatchesOrder: as long as an order list names the master at most    *)
(* once (and last, when the firmware may vanish under a deploy), the report *)
(* has one row per entry, in the operator's order, wherever the master      *)
(* stands and whichever padawans failed at whichever step, with any losses, *)
(* faults, crashes and refusals.                                            *)
THEOREM DeployReportMatchesOrder ==
  ASSUME \A a \in Agendas : \A k \in DOMAIN a : Listed(a[k])
  PROVE  Spec => []ReportMatchesOrder
<1>1. Init => OrderInv
  BY DEF Init, ForwarderInit, OrderInv, Ordered, Waiting, ReportMatchesOrder
<1>2. TypeInv /\ ControlInv /\ OrderInv /\ [Next]_vars => OrderInv'
  BY OrderStep
<1>3. OrderInv => ReportMatchesOrder
  BY DEF OrderInv
<1> QED
  BY <1>1, <1>2, <1>3, TypeAlways, ControlAlways, PTL DEF Spec

=============================================================================
