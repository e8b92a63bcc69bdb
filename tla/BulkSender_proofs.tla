-------------------------- MODULE BulkSender_proofs --------------------------
(***************************************************************************)
(* What BulkSender guarantees for every window, file size and retry limit, *)
(* whatever the peer says.  The lemmas are about sender records, so that   *)
(* the proofs of modules that drive a sender can cite them.                *)
(***************************************************************************)
EXTENDS BulkSender, FiniteSetTheorems, TLAPS

SenderOK(s) ==
  /\ SenderType(s)
  /\ Cursors(s)
  /\ SlotTable(s)
  /\ s.status = "DONE_OK" => s.next = s.total /\ s.confirmed = s.total

-----------------------------------------------------------------------------
(* A freshly reset or begun sender is in order (reset, begin).             *)
LEMMA IdleOK == SenderOK(IdleSender)
<1>1. SenderType(IdleSender)
  BY DEF SenderType, IdleSender, SenderStatus, Slot
<1>2. Cursors(IdleSender)
  BY DEF Cursors, IdleSender
<1>3. SlotTable(IdleSender)
  BY FS_EmptySet, SenderAssumption DEF SlotTable, IdleSender
<1> QED
  BY <1>1, <1>2, <1>3 DEF SenderOK, IdleSender

(* begin keeps the sender in order, also when it rejects its parameters.   *)
LEMMA BeginOK ==
  ASSUME NEW x \in Nat, NEW n \in Nat, NEW w \in Nat, NEW r \in Nat
  PROVE  SenderOK(BeginSender(x, n, w, r))
<1> DEFINE t == BeginSender(x, n, w, r)
<1>1. CASE n = 0 \/ w = 0 \/ w > MAX_WINDOW_SIZE \/ r = 0
  BY <1>1, IdleOK DEF BeginSender
<1>2. CASE ~(n = 0 \/ w = 0 \/ w > MAX_WINDOW_SIZE \/ r = 0)
  <2>1. t = [status |-> "AWAITING_BEGIN_ACK", xferId |-> x, total |-> n, window |-> w,
             maxRetries |-> r, next |-> 0, highWater |-> 0, confirmed |-> 0, inFlight |-> {}]
    BY <1>2 DEF BeginSender, IdleSender
  <2>2. SenderType(t)
    BY <2>1 DEF SenderType, SenderStatus, Slot
  <2>3. Cursors(t)
    BY <2>1 DEF Cursors
  <2>4. SlotTable(t)
    BY <2>1, <1>2, FS_EmptySet, SenderAssumption DEF SlotTable
  <2> QED
    BY <2>1, <2>2, <2>3, <2>4 DEF SenderOK
<1> QED
  BY <1>1, <1>2

(* onBeginAck only moves the status.                                       *)
LEMMA BeginAckOK ==
  ASSUME NEW s, SenderOK(s), NEW x
  PROVE  SenderOK(AfterBeginAck(s, x))
<1> DEFINE t == AfterBeginAck(s, x)
<1>1. CASE s.status = "AWAITING_BEGIN_ACK" /\ x = s.xferId
  <2>1. t = [s EXCEPT !.status = "STREAMING"]
    BY <1>1 DEF AfterBeginAck
  <2>2. SenderType(t)
    BY <2>1 DEF SenderOK, SenderType, SenderStatus
  <2>3. /\ t.status = "STREAMING" /\ t.total = s.total /\ t.window = s.window
        /\ t.maxRetries = s.maxRetries /\ t.next = s.next /\ t.highWater = s.highWater
        /\ t.confirmed = s.confirmed /\ t.inFlight = s.inFlight
    BY <2>1 DEF SenderOK, SenderType
  <2> QED
    BY <2>2, <2>3 DEF SenderOK, Cursors, SlotTable
<1>2. CASE ~(s.status = "AWAITING_BEGIN_ACK" /\ x = s.xferId)
  BY <1>2 DEF AfterBeginAck
<1> QED
  BY <1>1, <1>2

(* nextChunkToSend takes one free slot for the chunk under the cursor.     *)
LEMMA SendOK ==
  ASSUME NEW s, SenderOK(s), CanSend(s)
  PROVE  SenderOK(AfterSend(s))
<1> DEFINE new == [seq |-> s.next, retryCount |-> 0]
           hw == IF s.next + 1 > s.highWater THEN s.next + 1 ELSE s.highWater
           F == s.inFlight \cup {new}
           t == [status |-> s.status, xferId |-> s.xferId, total |-> s.total,
                 window |-> s.window, maxRetries |-> s.maxRetries, next |-> s.next + 1,
                 highWater |-> hw, confirmed |-> s.confirmed, inFlight |-> F]
<1>1. AfterSend(s) = t
  <2>1. AfterSend(s) = [s EXCEPT !.inFlight = F, !.next = s.next + 1, !.highWater = hw]
    BY DEF AfterSend
  <2> HIDE DEF hw, F
  <2> QED
    BY <2>1 DEF SenderOK, SenderType
<1>2. /\ s.next + 1 \in Nat /\ hw \in Nat /\ F \in SUBSET Slot
      /\ s.next < s.total /\ s.next + 1 <= hw /\ s.highWater <= hw /\ hw <= s.total
  BY DEF SenderOK, SenderType, Cursors, CanSend, Slot
<1>3. SenderType(t)
  <2> HIDE DEF hw, F
  <2> QED
    BY <1>2 DEF SenderOK, SenderType
<1>4. Cursors(t)
  <2>1. \A e \in F : e.seq < s.next + 1 /\ e.retryCount <= s.maxRetries
    BY DEF SenderOK, SenderType, Cursors, Slot
  <2> HIDE DEF hw, F
  <2> QED
    BY <1>2, <2>1 DEF SenderOK, SenderType, Cursors
<1>5. SlotTable(t)
  <2>1. IsFiniteSet(F) /\ Cardinality(F) <= Cardinality(s.inFlight) + 1
    <3>1. IsFiniteSet(s.inFlight) /\ Cardinality(s.inFlight) \in Nat
      BY FS_CardinalityType DEF SenderOK, SlotTable
    <3> HIDE DEF new
    <3> QED
      BY <3>1, FS_AddElement
  <2>2. Cardinality(s.inFlight) \in Nat /\ Cardinality(F) \in Nat
    BY <2>1, FS_CardinalityType DEF SenderOK, SlotTable
  <2>3. \A d, e \in s.inFlight : d.seq = e.seq => d = e
    BY DEF SenderOK, SlotTable
  <2>4. \A e \in s.inFlight : e.seq # new.seq
    BY DEF SenderOK, SenderType, Cursors, Slot
  <2>5. \A d, e \in F : d.seq = e.seq => d = e
    BY <2>3, <2>4
  <2> HIDE DEF hw, F
  <2> QED
    BY <2>1, <2>2, <2>5 DEF SenderOK, SenderType, SlotTable, CanSend
<1> QED
  BY <1>1, <1>3, <1>4, <1>5 DEF SenderOK, CanSend

(* A subset of a legal slot table is a legal slot table.                   *)
LEMMA FewerSlots ==
  ASSUME NEW s, SenderOK(s), NEW F \in SUBSET s.inFlight
  PROVE  IsFiniteSet(F) /\ Cardinality(F) <= s.window
<1>1. IsFiniteSet(F) /\ Cardinality(F) <= Cardinality(s.inFlight)
  BY FS_Subset DEF SenderOK, SlotTable
<1>2. Cardinality(F) \in Nat /\ Cardinality(s.inFlight) \in Nat
  BY <1>1, FS_CardinalityType DEF SenderOK, SlotTable
<1> QED
  BY <1>1, <1>2 DEF SenderOK, SlotTable, SenderType

(* onDataAck raises the watermark, at most to the highest chunk sent, and  *)
(* frees slots.                                                            *)
LEMMA AckOK ==
  ASSUME NEW s, SenderOK(s), NEW x, NEW q \in Nat
  PROVE  SenderOK(AfterAck(s, x, q))
<1> DEFINE F == {e \in s.inFlight : e.seq > q}
           t == [s EXCEPT !.confirmed = q + 1, !.inFlight = F]
<1>1. CASE AckDecision(s, x, q) # "OK"
  BY <1>1 DEF AfterAck
<1>2. CASE AckDecision(s, x, q) = "OK"
  <2>1. AfterAck(s, x, q) = t
    BY <1>2 DEF AfterAck
  <2>2. s.status = "STREAMING" /\ q < s.highWater
    BY <1>2 DEF AckDecision, SenderOK, SenderType
  <2>3. F \in SUBSET s.inFlight
    OBVIOUS
  <2>4. IsFiniteSet(F) /\ Cardinality(F) <= s.window
    BY <2>3, FewerSlots
  <2> HIDE DEF F
  <2>5. SenderType(t)
    <3>1. q + 1 \in Nat /\ F \in SUBSET Slot
      BY <2>3 DEF SenderOK, SenderType
    <3> QED
      BY <3>1 DEF SenderOK, SenderType
  <2>6. /\ t.status = s.status /\ t.total = s.total /\ t.window = s.window
        /\ t.maxRetries = s.maxRetries /\ t.next = s.next /\ t.highWater = s.highWater
        /\ t.confirmed = q + 1 /\ t.inFlight = F
    BY DEF SenderOK, SenderType
  <2>7. Cursors(t)
    BY <2>2, <2>3, <2>6 DEF SenderOK, SenderType, Cursors
  <2>8. SlotTable(t)
    BY <2>3, <2>4, <2>6 DEF SenderOK, SlotTable
  <2> QED
    BY <2>1, <2>2, <2>5, <2>6, <2>7, <2>8 DEF SenderOK
<1> QED
  BY <1>1, <1>2

(* onDataNak rewinds the cursor, empties the slots and may raise the       *)
(* watermark up to the rewound cursor.                                     *)
LEMMA NakOK ==
  ASSUME NEW s, SenderOK(s), NEW x, NEW q \in Nat
  PROVE  SenderOK(AfterNak(s, x, q))
<1> DEFINE c == IF q > s.confirmed THEN q ELSE s.confirmed
           t == [s EXCEPT !.confirmed = c, !.next = q, !.inFlight = {}]
<1>1. CASE NakDecision(s, x, q) # "OK"
  BY <1>1 DEF AfterNak
<1>2. CASE NakDecision(s, x, q) = "OK"
  <2>1. AfterNak(s, x, q) = t
    BY <1>2 DEF AfterNak
  <2>2. s.status = "STREAMING" /\ q <= s.next
    BY <1>2 DEF NakDecision, SenderOK, SenderType
  <2>3. c \in Nat /\ c <= s.highWater
    BY <2>2 DEF SenderOK, SenderType, Cursors
  <2> HIDE DEF c
  <2>4. SenderType(t)
    BY <2>3 DEF SenderOK, SenderType
  <2>5. /\ t.status = s.status /\ t.total = s.total /\ t.window = s.window
        /\ t.maxRetries = s.maxRetries /\ t.next = q /\ t.highWater = s.highWater
        /\ t.confirmed = c /\ t.inFlight = {}
    BY DEF SenderOK, SenderType
  <2>6. Cursors(t)
    BY <2>2, <2>3, <2>5 DEF SenderOK, SenderType, Cursors
  <2>7. SlotTable(t)
    BY <2>5, FS_EmptySet DEF SenderOK, SenderType, SlotTable
  <2> QED
    BY <2>1, <2>2, <2>4, <2>5, <2>6, <2>7 DEF SenderOK
<1> QED
  BY <1>1, <1>2

(* tick charges one retry to each expired slot and never one too many.     *)
LEMMA TickOK ==
  ASSUME NEW s, SenderOK(s), NEW E \in SUBSET s.inFlight
  PROVE  SenderOK(AfterTick(s, E))
<1>1. CASE s.status # "STREAMING"
  BY <1>1 DEF AfterTick
<1>2. CASE s.status = "STREAMING" /\ Exhausted(s, E)
  <2> DEFINE t == [s EXCEPT !.status = "ABANDONED"]
  <2>1. AfterTick(s, E) = t
    BY <1>2 DEF AfterTick
  <2>2. SenderType(t)
    BY DEF SenderOK, SenderType, SenderStatus
  <2>3. /\ t.status = "ABANDONED" /\ t.total = s.total /\ t.window = s.window
        /\ t.maxRetries = s.maxRetries /\ t.next = s.next /\ t.highWater = s.highWater
        /\ t.confirmed = s.confirmed /\ t.inFlight = s.inFlight
    BY DEF SenderOK, SenderType
  <2> QED
    BY <2>1, <2>2, <2>3 DEF SenderOK, Cursors, SlotTable
<1>3. CASE s.status = "STREAMING" /\ ~Exhausted(s, E)
  <2> DEFINE bump(e) == [e EXCEPT !.retryCount = @ + 1]
             B == {bump(e) : e \in E}
             F == (s.inFlight \ E) \cup B
             f == [e \in E |-> bump(e)]
             t == [s EXCEPT !.inFlight = F]
  <2>1. AfterTick(s, E) = t
    BY <1>3 DEF AfterTick
  <2>2. s.inFlight \subseteq Slot /\ s.maxRetries \in Nat
    BY DEF SenderOK, SenderType
  <2>3. \A e \in E : /\ bump(e) \in Slot /\ bump(e).seq = e.seq
                     /\ bump(e).retryCount <= s.maxRetries
    BY <1>3, <2>2 DEF Exhausted, Slot
  <2>4. \A e \in F : e.seq < s.next /\ e.retryCount <= s.maxRetries
    <3>1. \A e \in s.inFlight : e.seq < s.next /\ e.retryCount <= s.maxRetries
      BY DEF SenderOK, Cursors
    <3> HIDE DEF bump
    <3> QED
      BY <2>3, <3>1
  <2>5. \A d, e \in F : d.seq = e.seq => d = e
    <3>1. \A d, e \in s.inFlight : d.seq = e.seq => d = e
      BY DEF SenderOK, SlotTable
    <3> HIDE DEF bump
    <3> QED
      BY <2>3, <3>1
  <2>6. IsFiniteSet(F) /\ Cardinality(F) <= Cardinality(s.inFlight)
    <3>1. IsFiniteSet(s.inFlight) /\ IsFiniteSet(E) /\ IsFiniteSet(s.inFlight \ E)
      BY FS_Subset DEF SenderOK, SlotTable
    <3>2. f \in Surjection(E, B)
      BY DEF Surjection
    <3>3. IsFiniteSet(B) /\ Cardinality(B) <= Cardinality(E)
      BY <3>1, <3>2, FS_Surjection
    <3>4. /\ IsFiniteSet(F)
          /\ Cardinality(F) = Cardinality(s.inFlight \ E) + Cardinality(B)
                                 - Cardinality((s.inFlight \ E) \cap B)
      BY <3>1, <3>3, FS_Union
    <3>5. Cardinality(s.inFlight \ E) = Cardinality(s.inFlight) - Cardinality(E)
      <4>1. s.inFlight \cap E = E
        OBVIOUS
      <4>2. Cardinality(s.inFlight \ E) = Cardinality(s.inFlight) - Cardinality(s.inFlight \cap E)
        BY <3>1, FS_Difference
      <4> QED
        BY <4>1, <4>2
    <3> DEFINE M == (s.inFlight \ E) \cap B
               R == s.inFlight \ E
    <3>7. IsFiniteSet((s.inFlight \ E) \cap B)
      BY <3>1, FS_Intersection
    <3>8. /\ Cardinality(s.inFlight) \in Nat /\ Cardinality(E) \in Nat
          /\ Cardinality(B) \in Nat /\ Cardinality(s.inFlight \ E) \in Nat
          /\ Cardinality((s.inFlight \ E) \cap B) \in Nat
      BY <3>1, <3>3, <3>7, FS_CardinalityType
    <3>9. /\ IsFiniteSet(F) /\ Cardinality(F) = Cardinality(R) + Cardinality(B) - Cardinality(M)
          /\ Cardinality(R) = Cardinality(s.inFlight) - Cardinality(E)
          /\ Cardinality(s.inFlight) \in Nat /\ Cardinality(E) \in Nat
          /\ Cardinality(B) \in Nat /\ Cardinality(M) \in Nat
          /\ Cardinality(B) <= Cardinality(E)
      BY <3>3, <3>4, <3>5, <3>8
    <3> HIDE DEF F, B, M, R
    <3> QED
      BY <3>9
  <2>7. F \subseteq Slot
    BY <2>2, <2>3
  <2> HIDE DEF F
  <2>8. SenderType(t)
    BY <2>7 DEF SenderOK, SenderType
  <2>9. /\ t.status = s.status /\ t.total = s.total /\ t.window = s.window
        /\ t.maxRetries = s.maxRetries /\ t.next = s.next /\ t.highWater = s.highWater
        /\ t.confirmed = s.confirmed /\ t.inFlight = F
    BY DEF SenderOK, SenderType
  <2>10. Cursors(t)
    BY <2>4, <2>9 DEF SenderOK, Cursors
  <2>11. SlotTable(t)
    <3>1. Cardinality(F) \in Nat /\ Cardinality(s.inFlight) \in Nat
      BY <2>6, FS_CardinalityType DEF SenderOK, SlotTable
    <3> QED
      BY <2>5, <2>6, <2>9, <3>1 DEF SenderOK, SenderType, SlotTable
  <2> QED
    BY <2>1, <2>8, <2>9, <2>10, <2>11 DEF SenderOK
<1> QED
  BY <1>1, <1>2, <1>3

(* onEndAck declares success only on a fully sent, fully confirmed file.   *)
LEMMA EndAckOK ==
  ASSUME NEW s, SenderOK(s), NEW x, NEW st
  PROVE  SenderOK(AfterEndAck(s, x, st))
<1> DEFINE d == EndAckDecision(s, x, st)
           t == [s EXCEPT !.status = d]
<1>1. CASE d \notin {"DONE_OK", "ABANDONED"}
  BY <1>1 DEF AfterEndAck
<1>2. CASE d \in {"DONE_OK", "ABANDONED"}
  <2>1. AfterEndAck(s, x, st) = t
    BY <1>2 DEF AfterEndAck
  <2>2. d = "DONE_OK" => s.next = s.total /\ s.confirmed = s.total
    BY DEF EndAckDecision
  <2> HIDE DEF d
  <2>3. SenderType(t)
    BY <1>2 DEF SenderOK, SenderType, SenderStatus
  <2>4. /\ t.status = d /\ t.total = s.total /\ t.window = s.window
        /\ t.maxRetries = s.maxRetries /\ t.next = s.next /\ t.highWater = s.highWater
        /\ t.confirmed = s.confirmed /\ t.inFlight = s.inFlight
    BY DEF SenderOK, SenderType
  <2> QED
    BY <2>1, <2>2, <2>3, <2>4 DEF SenderOK, Cursors, SlotTable
<1> QED
  BY <1>1, <1>2

-----------------------------------------------------------------------------
(* What each method leaves alone, field by field.                          *)

(* onBeginAck touches the status only.                                     *)
LEMMA BeginAckFields ==
  ASSUME NEW s, SenderOK(s), NEW x
  PROVE  LET t == AfterBeginAck(s, x) IN
         /\ t.xferId = s.xferId /\ t.total = s.total /\ t.next = s.next
         /\ t.highWater = s.highWater /\ t.confirmed = s.confirmed
         /\ t.status = IF s.status = "AWAITING_BEGIN_ACK" /\ x = s.xferId
                       THEN "STREAMING" ELSE s.status
  BY DEF AfterBeginAck, SenderOK, SenderType

(* nextChunkToSend moves the send cursor and the highest chunk sent.       *)
LEMMA SendFields ==
  ASSUME NEW s, SenderOK(s)
  PROVE  LET t == AfterSend(s) IN
         /\ t.status = s.status /\ t.xferId = s.xferId /\ t.total = s.total
         /\ t.confirmed = s.confirmed /\ t.next = s.next + 1
         /\ t.highWater = IF s.next + 1 > s.highWater THEN s.next + 1 ELSE s.highWater
<1> DEFINE F == s.inFlight \cup {[seq |-> s.next, retryCount |-> 0]}
           hw == IF s.next + 1 > s.highWater THEN s.next + 1 ELSE s.highWater
<1>1. AfterSend(s) = [s EXCEPT !.inFlight = F, !.next = s.next + 1, !.highWater = hw]
  BY DEF AfterSend
<1> HIDE DEF F, hw
<1>2. /\ AfterSend(s).status = s.status /\ AfterSend(s).xferId = s.xferId
      /\ AfterSend(s).total = s.total /\ AfterSend(s).confirmed = s.confirmed
      /\ AfterSend(s).next = s.next + 1 /\ AfterSend(s).highWater = hw
  BY <1>1 DEF SenderOK, SenderType
<1> QED
  BY <1>2 DEF hw

(* onDataAck moves the watermark and frees slots.                          *)
LEMMA AckFields ==
  ASSUME NEW s, SenderOK(s), NEW x, NEW q \in Nat
  PROVE  LET t == AfterAck(s, x, q) IN
         /\ t.status = s.status /\ t.xferId = s.xferId /\ t.total = s.total
         /\ t.next = s.next /\ t.highWater = s.highWater
         /\ t.confirmed = IF AckDecision(s, x, q) = "OK" THEN q + 1 ELSE s.confirmed
<1> DEFINE F == {e \in s.inFlight : e.seq > q}
<1>1. AckDecision(s, x, q) = "OK" => AfterAck(s, x, q) = [s EXCEPT !.confirmed = q + 1, !.inFlight = F]
  BY DEF AfterAck
<1>2. AckDecision(s, x, q) # "OK" => AfterAck(s, x, q) = s
  BY DEF AfterAck
<1> HIDE DEF F
<1> QED
  BY <1>1, <1>2 DEF SenderOK, SenderType

(* onDataNak moves the watermark and the send cursor and frees slots.      *)
LEMMA NakFields ==
  ASSUME NEW s, SenderOK(s), NEW x, NEW q \in Nat
  PROVE  LET t == AfterNak(s, x, q) IN
         /\ t.status = s.status /\ t.xferId = s.xferId /\ t.total = s.total
         /\ t.highWater = s.highWater
         /\ t.next = IF NakDecision(s, x, q) = "OK" THEN q ELSE s.next
         /\ t.confirmed = IF NakDecision(s, x, q) = "OK" /\ q > s.confirmed THEN q ELSE s.confirmed
<1> DEFINE c == IF q > s.confirmed THEN q ELSE s.confirmed
<1>1. NakDecision(s, x, q) = "OK" =>
        AfterNak(s, x, q) = [s EXCEPT !.confirmed = c, !.next = q, !.inFlight = {}]
  BY DEF AfterNak
<1>2. NakDecision(s, x, q) # "OK" => AfterNak(s, x, q) = s
  BY DEF AfterNak
<1> HIDE DEF c
<1>3. /\ AfterNak(s, x, q).status = s.status /\ AfterNak(s, x, q).xferId = s.xferId
      /\ AfterNak(s, x, q).total = s.total /\ AfterNak(s, x, q).highWater = s.highWater
      /\ AfterNak(s, x, q).next = IF NakDecision(s, x, q) = "OK" THEN q ELSE s.next
      /\ AfterNak(s, x, q).confirmed = IF NakDecision(s, x, q) = "OK" THEN c ELSE s.confirmed
  BY <1>1, <1>2 DEF SenderOK, SenderType
<1> QED
  BY <1>3 DEF c

(* tick moves retry counts, or the status to ABANDONED.                    *)
LEMMA TickFields ==
  ASSUME NEW s, SenderOK(s), NEW E
  PROVE  LET t == AfterTick(s, E) IN
         /\ t.xferId = s.xferId /\ t.total = s.total /\ t.next = s.next
         /\ t.highWater = s.highWater /\ t.confirmed = s.confirmed
         /\ t.status \in {s.status, "ABANDONED"}
         /\ t.status # s.status => s.status = "STREAMING"
<1> DEFINE F == (s.inFlight \ E) \cup {[e EXCEPT !.retryCount = @ + 1] : e \in E}
<1>1. \/ AfterTick(s, E) = s
      \/ s.status = "STREAMING" /\ AfterTick(s, E) = [s EXCEPT !.status = "ABANDONED"]
      \/ AfterTick(s, E) = [s EXCEPT !.inFlight = F]
  BY DEF AfterTick
<1> HIDE DEF F
<1> QED
  BY <1>1 DEF SenderOK, SenderType

(* onEndAck moves the status, to DONE_OK only on a finished transfer.      *)
LEMMA EndAckFields ==
  ASSUME NEW s, SenderOK(s), NEW x, NEW st
  PROVE  LET t == AfterEndAck(s, x, st) IN
         /\ t.xferId = s.xferId /\ t.total = s.total /\ t.next = s.next
         /\ t.highWater = s.highWater /\ t.confirmed = s.confirmed
         /\ t.status \in {s.status, "DONE_OK", "ABANDONED"}
         /\ t.status # s.status => s.status = "STREAMING"
         /\ t.status # s.status /\ t.status = "DONE_OK" => s.confirmed = s.total
<1> DEFINE d == EndAckDecision(s, x, st)
<1>1. \/ AfterEndAck(s, x, st) = s
      \/ d \in {"DONE_OK", "ABANDONED"} /\ AfterEndAck(s, x, st) = [s EXCEPT !.status = d]
  BY DEF AfterEndAck
<1>2. /\ d \in {"DONE_OK", "ABANDONED"} => s.status = "STREAMING"
      /\ d = "DONE_OK" => s.confirmed = s.total
  BY DEF EndAckDecision
<1> HIDE DEF d
<1> QED
  BY <1>1, <1>2 DEF SenderOK, SenderType

-----------------------------------------------------------------------------
(* The inductive invariant of the sender against an arbitrary peer.        *)

(* Every call on the sender keeps its record in order.                     *)
LEMMA SenderStepOK ==
  ASSUME SenderOK(tx), [SenderNext]_tx
  PROVE  SenderOK(tx')
<1> USE SenderAssumption
<1>1. ASSUME NEW x \in XferIds, NEW n \in Totals, NEW w \in Windows, NEW r \in Retries,
             Begin(x, n, w, r)
      PROVE  SenderOK(tx')
  BY <1>1, BeginOK DEF Begin
<1>2. ASSUME NEW x \in XferIds, OnBeginAck(x)
      PROVE  SenderOK(tx')
  BY <1>2, BeginAckOK DEF OnBeginAck
<1>3. CASE NextChunkToSend
  BY <1>3, SendOK DEF NextChunkToSend
<1>4. ASSUME NEW x \in XferIds, NEW q \in PeerSeqs, OnDataAck(x, q)
      PROVE  SenderOK(tx')
  BY <1>4, AckOK DEF OnDataAck
<1>5. ASSUME NEW x \in XferIds, NEW q \in PeerSeqs, OnDataNak(x, q)
      PROVE  SenderOK(tx')
  BY <1>5, NakOK DEF OnDataNak
<1>6. ASSUME NEW E \in SUBSET tx.inFlight, Tick(E)
      PROVE  SenderOK(tx')
  BY <1>6, TickOK DEF Tick
<1>7. ASSUME NEW x \in XferIds, NEW st \in EndStatus, OnEndAck(x, st)
      PROVE  SenderOK(tx')
  BY <1>7, EndAckOK DEF OnEndAck
<1>8. CASE Reset
  BY <1>8, IdleOK DEF Reset
<1>9. CASE UNCHANGED tx
  BY <1>9
<1> QED
  BY <1>1, <1>2, <1>3, <1>4, <1>5, <1>6, <1>7, <1>8, <1>9 DEF SenderNext

(* The record is in order in every reachable state.                        *)
LEMMA SenderAlwaysOK == SenderSpec => []SenderOK(tx)
<1>1. SenderInit => SenderOK(tx)
  BY IdleOK DEF SenderInit
<1>2. SenderOK(tx) /\ [SenderNext]_tx => SenderOK(tx)'
  BY SenderStepOK
<1> QED
  BY <1>1, <1>2, PTL DEF SenderSpec

(* The record of BulkSender stays well typed.                              *)
THEOREM SenderTypeCorrect == SenderSpec => []SenderTypeOK
<1>1. SenderOK(tx) => SenderTypeOK
  BY DEF SenderOK, SenderTypeOK
<1> QED
  BY <1>1, SenderAlwaysOK, PTL

(* onDataAck, onDataNak and nextChunkToSend keep                           *)
(* confirmed, next <= highWater <= total for every peer.                   *)
THEOREM CursorsAlwaysOrdered == SenderSpec => []CursorsOrdered
<1>1. SenderOK(tx) => CursorsOrdered
  BY DEF SenderOK, CursorsOrdered
<1> QED
  BY <1>1, SenderAlwaysOK, PTL

(* The in-flight table of nextChunkToSend never overflows, for every       *)
(* MAX_WINDOW_SIZE.                                                        *)
THEOREM WindowAlwaysRespected == SenderSpec => []WindowRespected
<1>1. SenderOK(tx) => WindowRespected
  BY DEF SenderOK, WindowRespected
<1> QED
  BY <1>1, SenderAlwaysOK, PTL

(* onEndAck never reports an unfinished transfer as done.                  *)
THEOREM CompletionAlwaysEarned == SenderSpec => []CompletionIsEarned
<1>1. SenderOK(tx) => CompletionIsEarned
  BY DEF SenderOK, CompletionIsEarned
<1> QED
  BY <1>1, SenderAlwaysOK, PTL

(* No call moves a watermark back or skips a chunk within a transfer.      *)
LEMMA StepNeverSkips ==
  ASSUME SenderOK(tx), [SenderNext]_tx, tx.status = "STREAMING", tx'.status = "STREAMING"
  PROVE  /\ tx'.confirmed >= tx.confirmed
         /\ tx'.highWater >= tx.highWater
         /\ tx'.next <= tx.next + 1
<1> DEFINE Fwd == /\ tx'.confirmed >= tx.confirmed
                  /\ tx'.highWater >= tx.highWater
                  /\ tx'.next <= tx.next + 1
<1> SUFFICES Fwd
  OBVIOUS
<1>0. /\ tx.confirmed \in Nat /\ tx.highWater \in Nat /\ tx.next \in Nat
      /\ PeerSeqs \subseteq Nat
  BY SenderAssumption DEF SenderOK, SenderType
<1>1. ASSUME NEW x \in XferIds, NEW n \in Totals, NEW w \in Windows, NEW r \in Retries,
             Begin(x, n, w, r)
      PROVE  Fwd
  <2>1. tx'.status # "STREAMING"
    BY <1>1 DEF Begin, BeginSender, IdleSender
  <2> QED
    BY <2>1
<1>2. ASSUME NEW x \in XferIds, OnBeginAck(x)
      PROVE  Fwd
  BY <1>0, <1>2, BeginAckFields DEF OnBeginAck
<1>3. CASE NextChunkToSend
  BY <1>0, <1>3, SendFields DEF NextChunkToSend
<1>4. ASSUME NEW x \in XferIds, NEW q \in PeerSeqs, OnDataAck(x, q)
      PROVE  Fwd
  <2>1. AckDecision(tx, x, q) = "OK" => q >= tx.confirmed
    BY <1>0 DEF AckDecision
  <2> QED
    BY <1>0, <1>4, <2>1, AckFields DEF OnDataAck
<1>5. ASSUME NEW x \in XferIds, NEW q \in PeerSeqs, OnDataNak(x, q)
      PROVE  Fwd
  <2>1. NakDecision(tx, x, q) = "OK" => q <= tx.next
    BY <1>0 DEF NakDecision
  <2> QED
    BY <1>0, <1>5, <2>1, NakFields DEF OnDataNak
<1>6. ASSUME NEW E \in SUBSET tx.inFlight, Tick(E)
      PROVE  Fwd
  BY <1>0, <1>6, TickFields DEF Tick
<1>7. ASSUME NEW x \in XferIds, NEW st \in EndStatus, OnEndAck(x, st)
      PROVE  Fwd
  BY <1>0, <1>7, EndAckFields DEF OnEndAck
<1>8. CASE Reset
  BY <1>8 DEF Reset, IdleSender
<1>9. CASE UNCHANGED tx
  BY <1>9, <1>0
<1> QED
  BY <1>1, <1>2, <1>3, <1>4, <1>5, <1>6, <1>7, <1>8, <1>9 DEF SenderNext

(* The same as a property of every behaviour.                              *)
THEOREM CursorsAreMonotonic == SenderSpec => CursorsNeverSkip
<1>1. SenderOK(tx) /\ [SenderNext]_tx =>
        [tx.status = "STREAMING" /\ tx'.status = "STREAMING" =>
           /\ tx'.confirmed >= tx.confirmed
           /\ tx'.highWater >= tx.highWater
           /\ tx'.next <= tx.next + 1]_tx
  BY StepNeverSkips
<1> QED
  BY <1>1, SenderAlwaysOK, PTL DEF SenderSpec, CursorsNeverSkip
=============================================================================
