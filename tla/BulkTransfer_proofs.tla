------------------------- MODULE BulkTransfer_proofs -------------------------
(***************************************************************************)
(* BulkTransfer for every image size, window, retry limit and number of    *)
(* transfers: TransferInvariant is inductive, the safety properties follow *)
(* from it, and every step is a step of FirmwareTransfer or a stutter.     *)
(***************************************************************************)
EXTENDS BulkTransfer, BulkSender_proofs

USE TransferAssumption DEF Transfers

-----------------------------------------------------------------------------
(* The parts of the invariant the sender's own lemmas speak of.            *)
LEMMA SenderPart == TransferInvariant => SenderOK(tx)
  BY DEF TransferInvariant, TypeOK, SenderTypeOK, CursorsOrdered, WindowRespected,
         CompletionIsEarned, SenderOK

(* A sender in order, as the invariant states it part by part. *)
LEMMA SenderPartBack ==
  SenderOK(tx)' => (SenderTypeOK /\ CursorsOrdered /\ WindowRespected /\ CompletionIsEarned)'
  BY DEF SenderTypeOK, CursorsOrdered, WindowRespected, CompletionIsEarned, SenderOK

(* The fields of a sender in order are numbers. *)
LEMMA SenderNumbers ==
  ASSUME NEW s, SenderOK(s)
  PROVE  /\ s.xferId \in Nat /\ s.total \in Nat /\ s.next \in Nat /\ s.highWater \in Nat
         /\ s.confirmed \in Nat /\ s.confirmed <= s.highWater /\ s.next <= s.highWater
         /\ s.highWater <= s.total /\ s.status \in SenderStatus
  BY DEF SenderOK, SenderType, Cursors

(* Nothing has been sent and nothing is open. *)
LEMMA InitOK == Init => TransferInvariant
<1> SUFFICES ASSUME Init PROVE TransferInvariant
  OBVIOUS
<1>1. SenderOK(tx)
  BY IdleOK DEF Init, SenderInit
<1>2. SenderTypeOK /\ CursorsOrdered /\ WindowRespected /\ CompletionIsEarned
  BY <1>1 DEF SenderTypeOK, CursorsOrdered, WindowRespected, CompletionIsEarned, SenderOK
<1>3. tx.status = "IDLE"
  BY DEF Init, SenderInit, IdleSender
<1>4. flash = [i \in 1 .. Len(flash) |-> i - 1] /\ flash \in Seq(Nat) /\ Len(flash) = 0
  BY DEF Init
<1>5. TypeOK
  BY <1>2, <1>4 DEF Init, TypeOK, IdleReceiver
<1>6. Identities /\ FramesAreHonest /\ HandshakeFirst /\ Progress
  BY <1>3 DEF Init, Identities, FramesAreHonest, HandshakeFirst, Progress, Busy, IdleReceiver
<1>7. FlashIsPrefix
  BY <1>4 DEF Init, FlashIsPrefix, IdleReceiver
<1> QED
  BY <1>2, <1>5, <1>6, <1>7 DEF TransferInvariant

-----------------------------------------------------------------------------
(* A step of the master that goes on with, or gives up, its transfer and   *)
(* sends at most an END keeps the invariant if it confirms only what the   *)
(* padawan wrote and starts streaming only on a BEGIN_ACK.                 *)
LEMMA MasterKeeps ==
  ASSUME TransferInvariant, SenderOK(tx)',
         UNCHANGED <<rx, started, newest, flash, got>>,
         net' = net \/ (Busy /\ net' = net \cup {EndFrame(tx.xferId)}),
         tx'.status # "IDLE" =>
           /\ tx.status # "IDLE"
           /\ tx'.xferId = tx.xferId /\ tx'.total = tx.total /\ tx'.highWater = tx.highWater
           /\ tx'.confirmed <= got[tx.xferId],
         tx'.status = "STREAMING" => tx.status = "STREAMING" \/ BeginAckFrame(tx.xferId) \in net
  PROVE  TransferInvariant'
<1>1. (SenderTypeOK /\ CursorsOrdered /\ WindowRespected /\ CompletionIsEarned)'
  BY SenderPartBack
<1>2. SenderOK(tx) /\ started \in Nat
  BY SenderPart DEF TransferInvariant, TypeOK
<1>3. \A m \in net' : m \in net \/ (Busy /\ m = EndFrame(tx.xferId))
  OBVIOUS
<1>4. EndFrame(tx.xferId) \in Frame
  BY <1>2, SenderNumbers DEF EndFrame, Frame, FrameType
<1>5. TypeOK'
  BY <1>1, <1>3, <1>4 DEF TransferInvariant, TypeOK
<1>6. Identities'
  BY DEF TransferInvariant, Identities, Busy
<1>7. FramesAreHonest'
  BY <1>2, <1>3 DEF TransferInvariant, FramesAreHonest, Identities, Busy, EndFrame
<1>8. HandshakeFirst'
  BY <1>3 DEF TransferInvariant, HandshakeFirst, BeginAckFrame, EndFrame
<1>9. Progress'
  BY DEF TransferInvariant, Progress, Busy
<1>10. FlashIsPrefix'
  BY DEF TransferInvariant, FlashIsPrefix
<1> QED
  BY <1>1, <1>5, <1>6, <1>7, <1>8, <1>9, <1>10 DEF TransferInvariant

(* startNextPadawan opens a transfer of which no frame exists yet. *)
LEMMA MasterBeginOK ==
  ASSUME TransferInvariant, MasterBegin
  PROVE  TransferInvariant'
<1> DEFINE x == started + 1
<1>1. started \in Nat /\ x \in Transfers /\ x \in Nat
  BY DEF TransferInvariant, TypeOK, MasterBegin
<1>2. tx' = [status |-> "AWAITING_BEGIN_ACK", xferId |-> x, total |-> TotalChunks,
             window |-> WindowSize, maxRetries |-> MaxRetries, next |-> 0,
             highWater |-> 0, confirmed |-> 0, inFlight |-> {}]
  <2>1. ~(TotalChunks = 0 \/ WindowSize = 0 \/ WindowSize > MAX_WINDOW_SIZE \/ MaxRetries = 0)
    BY SenderAssumption
  <2>2. tx' = BeginSender(x, TotalChunks, WindowSize, MaxRetries)
    BY DEF MasterBegin
  <2> QED
    BY <2>1, <2>2 DEF BeginSender, IdleSender
<1>3. SenderOK(tx)'
  BY <1>1, BeginOK, SenderAssumption DEF MasterBegin
<1>4. (SenderTypeOK /\ CursorsOrdered /\ WindowRespected /\ CompletionIsEarned)'
  BY <1>3, SenderPartBack
<1>5. /\ net' = net \cup {BeginFrame(x)} /\ started' = x
      /\ UNCHANGED <<rx, newest, flash, got>>
  BY DEF MasterBegin
<1>6. BeginFrame(x) \in Frame
  BY <1>1 DEF BeginFrame, Frame, FrameType
<1>7. TypeOK'
  BY <1>1, <1>4, <1>5, <1>6 DEF TransferInvariant, TypeOK
<1>8. got[x] = 0
  BY <1>1 DEF TransferInvariant, Identities
<1>9. newest \in Nat
  BY DEF TransferInvariant, TypeOK
<1>10. Identities'
  BY <1>1, <1>2, <1>5, <1>9 DEF TransferInvariant, Identities, Busy
<1>11. FramesAreHonest'
  <2> SUFFICES ASSUME NEW m \in net'
               PROVE  /\ m.xferId \in 1 .. x
                      /\ m.type = "DATA" => /\ m.arg < TotalChunks
                                            /\ m.xferId = x => m.arg < tx'.highWater
                      /\ m.type = "DATA_ACK" => m.arg < got[m.xferId]
                      /\ m.type = "DATA_NAK" => m.arg <= got[m.xferId]
    BY <1>2, <1>5 DEF FramesAreHonest, Busy
  <2>1. CASE m = BeginFrame(x)
    BY <2>1, <1>1 DEF BeginFrame
  <2>2. CASE m \in net
    BY <2>2, <1>1 DEF TransferInvariant, FramesAreHonest
  <2> QED
    BY <2>1, <2>2, <1>5
<1>12. HandshakeFirst'
  BY <1>2, <1>5 DEF TransferInvariant, HandshakeFirst, BeginAckFrame, BeginFrame
<1>13. Progress'
  BY <1>2, <1>5, <1>8 DEF TransferInvariant, Progress, Busy
<1>14. FlashIsPrefix'
  BY <1>5 DEF TransferInvariant, FlashIsPrefix
<1> QED
  BY <1>4, <1>7, <1>10, <1>11, <1>12, <1>13, <1>14 DEF TransferInvariant

(* handleBeginAck moves the status only. *)
LEMMA MasterBeginAckOK ==
  ASSUME TransferInvariant, NEW m \in net, MasterBeginAck(m)
  PROVE  TransferInvariant'
<1>1. SenderOK(tx)
  BY SenderPart
<1>2. tx' = AfterBeginAck(tx, m.xferId) /\ UNCHANGED <<rx, net, started, newest, flash, got>>
  BY DEF MasterBeginAck
<1>3. SenderOK(tx)'
  BY <1>1, <1>2, BeginAckOK
<1>4. m \in Frame /\ m.type = "BEGIN_ACK"
  BY DEF MasterBeginAck, TransferInvariant, TypeOK
<1>5. m.xferId = tx.xferId => m = BeginAckFrame(tx.xferId)
  BY <1>4 DEF Frame, BeginAckFrame, TransferInvariant, HandshakeFirst
<1> QED
  BY <1>1, <1>2, <1>3, <1>5, BeginAckFields, MasterKeeps
     DEF TransferInvariant, Progress, Busy

(* streamDrain sends a chunk of the open transfer under its own number. *)
LEMMA MasterSendOK ==
  ASSUME TransferInvariant, MasterSend
  PROVE  TransferInvariant'
<1> DEFINE f == DataFrame(tx.xferId, tx.next)
<1>1. SenderOK(tx) /\ CanSend(tx)
  BY SenderPart DEF MasterSend
<1>2. SenderOK(tx)'
  BY <1>1, SendOK DEF MasterSend
<1>3. (SenderTypeOK /\ CursorsOrdered /\ WindowRespected /\ CompletionIsEarned)'
  BY <1>2, SenderPartBack
<1>4. /\ net' = net \cup {f}
      /\ UNCHANGED <<rx, started, newest, flash, got>>
  BY DEF MasterSend
<1>5. /\ tx.xferId \in Nat /\ tx.next \in Nat /\ tx.highWater \in Nat /\ tx.total \in Nat
      /\ tx.status = "STREAMING" /\ tx.next < tx.total
  BY <1>1, SenderNumbers DEF CanSend
<1>6. /\ tx'.status = "STREAMING" /\ tx'.xferId = tx.xferId /\ tx'.total = tx.total
      /\ tx'.confirmed = tx.confirmed /\ tx'.highWater \in Nat
      /\ tx'.highWater >= tx.highWater /\ tx'.highWater > tx.next
  BY <1>1, <1>5, SendFields DEF MasterSend
<1>7. f \in Frame /\ f.type = "DATA" /\ f.xferId = tx.xferId /\ f.arg = tx.next
  BY <1>5 DEF DataFrame, Frame, FrameType
<1>8. TypeOK'
  BY <1>3, <1>4, <1>7 DEF TransferInvariant, TypeOK
<1>9. Identities'
  BY <1>4, <1>5, <1>6 DEF TransferInvariant, Identities, Busy
<1>10. FramesAreHonest'
  <2>1. /\ tx.xferId = started /\ started \in Nat /\ started >= 1 /\ tx.total = TotalChunks
        /\ net \subseteq Frame
    BY <1>5 DEF TransferInvariant, TypeOK, Identities, Busy
  <2> SUFFICES ASSUME NEW m \in net'
               PROVE  /\ m.xferId \in 1 .. started
                      /\ m.type = "DATA" => /\ m.arg < TotalChunks
                                            /\ m.xferId = tx.xferId => m.arg < tx'.highWater
                      /\ m.type = "DATA_ACK" => m.arg < got[m.xferId]
                      /\ m.type = "DATA_NAK" => m.arg <= got[m.xferId]
    BY <1>4, <1>6 DEF FramesAreHonest, Busy
  <2>2. CASE m = f
    BY <2>1, <2>2, <1>5, <1>6, <1>7
  <2>3. CASE m \in net
    <3>1. m.arg \in Nat
      BY <2>1, <2>3 DEF Frame
    <3> QED
      BY <2>1, <2>3, <3>1, <1>5, <1>6 DEF TransferInvariant, FramesAreHonest, Busy
  <2> QED
    BY <2>2, <2>3, <1>4
<1>11. HandshakeFirst'
  <2>1. BeginAckFrame(tx.xferId) \in net
    BY <1>5 DEF TransferInvariant, HandshakeFirst
  <2>2. \A x : BeginAckFrame(x) \in net' <=> BeginAckFrame(x) \in net
    BY <1>4, <1>7 DEF BeginAckFrame
  <2>3. \A m \in net' : m \in net \/ m = f
    BY <1>4
  <2> QED
    BY <2>1, <2>2, <2>3, <1>4, <1>6, <1>7 DEF TransferInvariant, HandshakeFirst
<1>12. Progress'
  <2>1. got[tx.xferId] \in Nat
    BY <1>5, SMTT(40) DEF TransferInvariant, TypeOK, Identities, Busy
  <2> QED
    BY <2>1, <1>4, <1>5, <1>6 DEF TransferInvariant, Progress, Busy
<1>13. FlashIsPrefix'
  BY <1>4 DEF TransferInvariant, FlashIsPrefix
<1> QED
  BY <1>3, <1>8, <1>9, <1>10, <1>11, <1>12, <1>13 DEF TransferInvariant

(* handleDataAck confirms what the padawan's own acknowledgement names. *)
LEMMA MasterDataAckOK ==
  ASSUME TransferInvariant, NEW m \in net, MasterDataAck(m)
  PROVE  TransferInvariant'
<1>1. SenderOK(tx)
  BY SenderPart
<1>2. m \in Frame /\ m.type = "DATA_ACK" /\ m.arg \in Nat /\ m.xferId \in 1 .. started
  BY DEF MasterDataAck, TransferInvariant, TypeOK, FramesAreHonest, Frame
<1>3. tx' = AfterAck(tx, m.xferId, m.arg) /\ UNCHANGED <<rx, started, newest, flash, got>>
  BY DEF MasterDataAck
<1>4. SenderOK(tx)'
  BY <1>1, <1>2, <1>3, AckOK
<1>5. AckDecision(tx, m.xferId, m.arg) = "OK" => tx.status = "STREAMING" /\ m.xferId = tx.xferId
  BY DEF AckDecision
<1>6. net' = net \/ (Busy /\ net' = net \cup {EndFrame(tx.xferId)})
  BY <1>5 DEF MasterDataAck, Busy
<1>7. tx.status # "IDLE" => m.arg < got[m.xferId] /\ tx.confirmed <= got[tx.xferId]
                            /\ got[tx.xferId] \in Nat /\ tx.confirmed \in Nat
  <2>1. tx.status # "IDLE" => tx.xferId \in Transfers
    BY SMTT(40) DEF TransferInvariant, TypeOK, Identities, Busy
  <2>2. \A x \in Transfers : got[x] \in Nat
    BY DEF TransferInvariant, TypeOK
  <2>3. m.arg < got[m.xferId]
    BY <1>2 DEF TransferInvariant, FramesAreHonest
  <2>4. tx.status # "IDLE" => tx.confirmed <= got[tx.xferId]
    BY DEF TransferInvariant, Progress, Busy
  <2> QED
    BY <2>1, <2>2, <2>3, <2>4, <1>1, SenderNumbers
<1>8. /\ tx'.status = tx.status /\ tx'.xferId = tx.xferId /\ tx'.total = tx.total
      /\ tx'.highWater = tx.highWater
      /\ tx'.confirmed = IF AckDecision(tx, m.xferId, m.arg) = "OK" THEN m.arg + 1 ELSE tx.confirmed
  BY <1>1, <1>2, <1>3, AckFields
<1>9. tx'.status # "IDLE" => tx'.confirmed <= got[tx.xferId]
  BY <1>2, <1>5, <1>7, <1>8
<1> QED
  BY <1>3, <1>4, <1>6, <1>8, <1>9, MasterKeeps

(* handleDataNak rewinds to what the padawan's own answer names. *)
LEMMA MasterDataNakOK ==
  ASSUME TransferInvariant, NEW m \in net, MasterDataNak(m)
  PROVE  TransferInvariant'
<1>1. SenderOK(tx)
  BY SenderPart
<1>2. m \in Frame /\ m.type = "DATA_NAK" /\ m.arg \in Nat
  BY DEF MasterDataNak, TransferInvariant, TypeOK, Frame
<1>3. /\ tx' = AfterNak(tx, m.xferId, m.arg)
      /\ UNCHANGED <<rx, net, started, newest, flash, got>>
  BY DEF MasterDataNak
<1>4. SenderOK(tx)'
  BY <1>1, <1>2, <1>3, NakOK
<1>5. NakDecision(tx, m.xferId, m.arg) = "OK" => m.xferId = tx.xferId
  BY DEF NakDecision
<1>6. tx.status # "IDLE" => m.arg <= got[m.xferId] /\ tx.confirmed <= got[tx.xferId]
  BY <1>2 DEF TransferInvariant, FramesAreHonest, Progress, Busy
<1>7. /\ tx'.status = tx.status /\ tx'.xferId = tx.xferId /\ tx'.total = tx.total
      /\ tx'.highWater = tx.highWater
      /\ tx'.confirmed = IF NakDecision(tx, m.xferId, m.arg) = "OK" /\ m.arg > tx.confirmed
                         THEN m.arg ELSE tx.confirmed
  BY <1>1, <1>2, <1>3, NakFields
<1>8. tx'.status # "IDLE" => tx'.confirmed <= got[tx.xferId]
  BY <1>5, <1>6, <1>7
<1> QED
  BY <1>3, <1>4, <1>7, <1>8, MasterKeeps

(* handleTick resends or gives up; what is confirmed stays. *)
LEMMA MasterTickOK ==
  ASSUME TransferInvariant, NEW E \in SUBSET tx.inFlight, MasterTick(E)
  PROVE  TransferInvariant'
<1>1. SenderOK(tx)
  BY SenderPart
<1>2. /\ tx' = AfterTick(tx, E)
      /\ UNCHANGED <<rx, net, started, newest, flash, got>>
  BY DEF MasterTick
<1>3. SenderOK(tx)'
  BY <1>1, <1>2, TickOK
<1>4. tx.status = "STREAMING"
  BY DEF MasterTick
<1>5. tx.status # "IDLE" => tx.confirmed <= got[tx.xferId]
  BY DEF TransferInvariant, Progress, Busy
<1> QED
  BY <1>1, <1>2, <1>3, <1>4, <1>5, TickFields, MasterKeeps

(* handleEndAck moves the status only. *)
LEMMA MasterEndAckOK ==
  ASSUME TransferInvariant, NEW m \in net, MasterEndAck(m)
  PROVE  TransferInvariant'
<1> DEFINE st == IF m.arg = 0 THEN "OK" ELSE "WRITE_ERROR"
<1>1. SenderOK(tx)
  BY SenderPart
<1>2. /\ tx' = AfterEndAck(tx, m.xferId, st)
      /\ UNCHANGED <<rx, net, started, newest, flash, got>>
  BY DEF MasterEndAck
<1> HIDE DEF st
<1>3. SenderOK(tx)'
  BY <1>1, <1>2, EndAckOK
<1>4. tx.status # "IDLE" => tx.confirmed <= got[tx.xferId]
  BY DEF TransferInvariant, Progress, Busy
<1> QED
  BY <1>1, <1>2, <1>3, <1>4, EndAckFields, MasterKeeps

(* Giving up leaves an idle sender, of which nothing is asked. *)
LEMMA MasterGiveUpOK ==
  ASSUME TransferInvariant, MasterGiveUp
  PROVE  TransferInvariant'
<1>1. tx' = IdleSender /\ UNCHANGED <<rx, net, started, newest, flash, got>>
  BY DEF MasterGiveUp
<1>2. SenderOK(tx)' /\ tx'.status = "IDLE"
  BY <1>1, IdleOK DEF IdleSender
<1> QED
  BY <1>1, <1>2, MasterKeeps
-----------------------------------------------------------------------------
(* A step of the padawan that leaves its receiver's position alone, or     *)
(* drops the transfer, and answers at most with a negative acknowledgement *)
(* no higher than what it wrote, keeps the invariant.                      *)
LEMMA PadawanKeeps ==
  ASSUME TransferInvariant,
         UNCHANGED <<tx, started, newest, flash, got>>,
         rx' = rx \/ rx' = IdleReceiver,
         \A m \in net' \ net :
            /\ m \in Frame /\ m.xferId \in 1 .. started
            /\ m.type \in {"DATA_NAK", "END_ACK"}
            /\ m.type = "DATA_NAK" => m.arg <= got[m.xferId],
         net \subseteq net'
  PROVE  TransferInvariant'
<1>1. (SenderTypeOK /\ CursorsOrdered /\ WindowRespected /\ CompletionIsEarned)'
  <2>1. SenderOK(tx)'
    BY SenderPart
  <2> QED
    BY <2>1, SenderPartBack
<1>2. TypeOK'
  <2>1. rx' \in [active : BOOLEAN, xferId : Nat, total : Nat, next : Nat]
    <3>1. rx \in [active : BOOLEAN, xferId : Nat, total : Nat, next : Nat]
      BY DEF TransferInvariant, TypeOK
    <3>2. IdleReceiver \in [active : BOOLEAN, xferId : Nat, total : Nat, next : Nat]
      BY DEF IdleReceiver
    <3> QED
      BY <3>1, <3>2
  <2>2. net' \subseteq Frame
    BY DEF TransferInvariant, TypeOK
  <2> QED
    BY <1>1, <2>1, <2>2 DEF TransferInvariant, TypeOK
<1>3. Identities'
  BY DEF TransferInvariant, Identities, Busy, IdleReceiver
<1>4. FramesAreHonest'
  <2> SUFFICES ASSUME NEW m \in net'
               PROVE  /\ m.xferId \in 1 .. started
                      /\ m.type = "DATA" => /\ m.arg < TotalChunks
                                            /\ Busy /\ m.xferId = tx.xferId => m.arg < tx.highWater
                      /\ m.type = "DATA_ACK" => m.arg < got[m.xferId]
                      /\ m.type = "DATA_NAK" => m.arg <= got[m.xferId]
    BY DEF FramesAreHonest, Busy
  <2> QED
    BY DEF TransferInvariant, FramesAreHonest
<1>5. HandshakeFirst'
  <2>1. \A x : BeginAckFrame(x) \in net' <=> BeginAckFrame(x) \in net
    BY DEF BeginAckFrame
  <2>2. rx'.active => rx' = rx
    BY DEF IdleReceiver
  <2> QED
    BY <2>1, <2>2 DEF TransferInvariant, HandshakeFirst
<1>6. Progress'
  BY DEF TransferInvariant, Progress, Busy, IdleReceiver
<1>7. FlashIsPrefix'
  BY DEF TransferInvariant, FlashIsPrefix, IdleReceiver
<1> QED
  BY <1>1, <1>2, <1>3, <1>4, <1>5, <1>6, <1>7 DEF TransferInvariant

(* DATA of the open transfer, or none is open: a frame the padawan may read *)
(* is never of a transfer other than the one its receiver runs.            *)
LEMMA DataIsCurrent ==
  ASSUME TransferInvariant, NEW m \in net, m.type = "DATA", m.xferId >= newest
  PROVE  /\ m \in Frame /\ m.xferId \in 1 .. started /\ m.xferId \in Transfers
         /\ m.arg \in Nat /\ m.xferId = newest
         /\ rx.active => rx.xferId = m.xferId
         /\ rx.next \in Nat /\ rx.next <= got[m.xferId]
<1>1. /\ m \in Frame /\ m.xferId \in 1 .. started /\ started \in 0 .. MaxTransfers
      /\ newest \in Nat
  BY DEF TransferInvariant, TypeOK, FramesAreHonest
<1>2. BeginAckFrame(m.xferId) \in net /\ m.xferId <= newest
  BY DEF TransferInvariant, HandshakeFirst, BeginAckFrame
<1>3. m.xferId \in Nat /\ m.arg \in Nat /\ m.xferId \in Transfers /\ m.xferId = newest
  BY <1>1, <1>2 DEF Frame
<1>4. rx.active => rx.xferId = m.xferId
  BY <1>2, <1>3 DEF TransferInvariant, HandshakeFirst
<1>5. got[m.xferId] \in Nat /\ rx.next \in Nat
  BY <1>3 DEF TransferInvariant, TypeOK
<1>6. rx.next <= got[m.xferId]
  BY <1>4, <1>5 DEF TransferInvariant, Progress, Identities, TypeOK
<1> QED
  BY <1>1, <1>3, <1>4, <1>5, <1>6

(* A chunk handleData refuses changes neither partition nor receiver. *)
LEMMA PadawanRejectOK ==
  ASSUME TransferInvariant, NEW m \in net, PadawanReject(m)
  PROVE  TransferInvariant'
<1>1. /\ m \in Frame /\ m.xferId \in 1 .. started /\ rx.next \in Nat
      /\ rx.next <= got[m.xferId]
  BY DataIsCurrent DEF PadawanReject
<1> DEFINE f == DataNakFrame(m.xferId, rx.next)
<1>2. /\ f \in Frame /\ f.type = "DATA_NAK" /\ f.xferId = m.xferId /\ f.arg = rx.next
  BY <1>1 DEF DataNakFrame, Frame, FrameType
<1>3. net' = net \cup {f} /\ UNCHANGED <<tx, rx, started, newest, flash, got>>
  BY DEF PadawanReject
<1> HIDE DEF f
<1> QED
  BY <1>1, <1>2, <1>3, PadawanKeeps

(* A failed esp_ota_write drops the transfer and answers NAK 0. *)
LEMMA PadawanWriteFailsOK ==
  ASSUME TransferInvariant, NEW m \in net, PadawanWriteFails(m)
  PROVE  TransferInvariant'
<1>1. /\ m \in Frame /\ m.xferId \in 1 .. started /\ m.xferId \in Transfers
  BY DataIsCurrent DEF PadawanWriteFails
<1>2. got[m.xferId] \in Nat
  BY <1>1 DEF TransferInvariant, TypeOK
<1> DEFINE f == DataNakFrame(m.xferId, 0)
<1>3. /\ f \in Frame /\ f.type = "DATA_NAK" /\ f.xferId = m.xferId /\ f.arg = 0
  BY <1>1 DEF DataNakFrame, Frame, FrameType
<1>4. net' = net \cup {f} /\ rx' = IdleReceiver /\ UNCHANGED <<tx, started, newest, flash, got>>
  BY DEF PadawanWriteFails
<1> HIDE DEF f
<1> QED
  BY <1>1, <1>2, <1>3, <1>4, PadawanKeeps

(* handleEnd closes the transfer and answers with its verdict. *)
LEMMA PadawanEndOK ==
  ASSUME TransferInvariant, NEW m \in net, PadawanEnd(m)
  PROVE  TransferInvariant'
<1> DEFINE res == EndResult(rx, m.xferId, TotalChunks)
           st == IF res = "OK" THEN 0 ELSE 2
           f == EndAckFrame(m.xferId, st)
<1>1. m \in Frame /\ m.xferId \in 1 .. started
  BY DEF TransferInvariant, TypeOK, FramesAreHonest
<1>2. st \in Nat
  OBVIOUS
<1>3. /\ net' = net \cup {f} /\ (rx' = rx \/ rx' = IdleReceiver)
      /\ UNCHANGED <<tx, started, newest, flash, got>>
  BY DEF PadawanEnd
<1> HIDE DEF res, st
<1>4. f \in Frame /\ f.type = "END_ACK" /\ f.xferId = m.xferId
  BY <1>1, <1>2 DEF EndAckFrame, Frame, FrameType
<1> HIDE DEF f
<1> QED
  BY <1>1, <1>3, <1>4, PadawanKeeps

(* handleWatchdogFire drops the transfer without an answer. *)
LEMMA PadawanResetOK ==
  ASSUME TransferInvariant, PadawanReset
  PROVE  TransferInvariant'
  BY PadawanKeeps DEF PadawanReset

(* A refused BEGIN moves only the newest transfer the padawan has seen. *)
LEMMA PadawanBusyOK ==
  ASSUME TransferInvariant, NEW m \in net, PadawanBusy(m)
  PROVE  TransferInvariant'
<1>1. /\ m.type = "BEGIN" /\ m.xferId >= newest /\ rx.active /\ newest' = m.xferId
      /\ UNCHANGED <<tx, rx, net, started, flash, got>>
  BY DEF PadawanBusy
<1>2. m.xferId \in 1 .. started /\ newest \in Nat /\ started \in 0 .. MaxTransfers
  BY DEF TransferInvariant, TypeOK, FramesAreHonest
<1>3. SenderOK(tx)'
  BY <1>1, SenderPart
<1>4. (SenderTypeOK /\ CursorsOrdered /\ WindowRespected /\ CompletionIsEarned)'
  BY <1>3, SenderPartBack
<1>5. TypeOK'
  BY <1>1, <1>2, <1>4, SMTT(40) DEF TransferInvariant, TypeOK
<1>6. Identities'
  BY <1>1, <1>2 DEF TransferInvariant, Identities, Busy
<1>7. FramesAreHonest'
  BY <1>1 DEF TransferInvariant, FramesAreHonest, Busy
<1>8. HandshakeFirst'
  <2>1. \A b \in net : b.type = "BEGIN_ACK" => b.xferId <= newest /\ b.xferId \in Nat /\ b.arg = 0
    BY <1>2 DEF TransferInvariant, HandshakeFirst, FramesAreHonest
  <2>2. BeginAckFrame(m.xferId) \in net => m.xferId = newest
    BY <1>1, <1>2, <2>1 DEF BeginAckFrame
  <2>3. \A b \in net : b.type = "BEGIN_ACK" => b.arg = 0 /\ b.xferId <= newest'
    BY <1>1, <1>2, <2>1
  <2> QED
    BY <1>1, <2>2, <2>3 DEF TransferInvariant, HandshakeFirst
<1>9. Progress'
  BY <1>1 DEF TransferInvariant, Progress, Busy
<1>10. FlashIsPrefix'
  BY <1>1 DEF TransferInvariant, FlashIsPrefix
<1> QED
  BY <1>4, <1>5, <1>6, <1>7, <1>8, <1>9, <1>10 DEF TransferInvariant

(* handleBegin starts over with an empty partition. *)
LEMMA PadawanBeginOK ==
  ASSUME TransferInvariant, NEW m \in net, PadawanBegin(m)
  PROVE  TransferInvariant'
<1> DEFINE f == BeginAckFrame(m.xferId)
<1>1. /\ m.type = "BEGIN" /\ m.xferId >= newest /\ newest' = m.xferId
      /\ flash' = <<>> /\ net' = net \cup {f}
      /\ UNCHANGED <<tx, started, got>>
  BY DEF PadawanBegin
<1>2. rx' = [active |-> TRUE, xferId |-> m.xferId, total |-> TotalChunks, next |-> 0]
  BY DEF PadawanBegin, BeginReceiver
<1>3. m.xferId \in 1 .. started /\ newest \in Nat /\ started \in 0 .. MaxTransfers
  BY DEF TransferInvariant, TypeOK, FramesAreHonest
<1>4. SenderOK(tx)'
  BY <1>1, SenderPart
<1>5. (SenderTypeOK /\ CursorsOrdered /\ WindowRespected /\ CompletionIsEarned)'
  BY <1>4, SenderPartBack
<1>6. f \in Frame /\ f.type = "BEGIN_ACK" /\ f.xferId = m.xferId /\ f.arg = 0
  BY <1>3 DEF BeginAckFrame, Frame, FrameType
<1>7. flash' \in Seq(Nat) /\ Len(flash') = 0 /\ flash' = [i \in 1 .. Len(flash') |-> i - 1]
  BY <1>1
<1>8. TypeOK'
  <2>1. rx' \in [active : BOOLEAN, xferId : Nat, total : Nat, next : Nat]
    BY <1>2, <1>3
  <2>2. net' \subseteq Frame
    BY <1>1, <1>6 DEF TransferInvariant, TypeOK
  <2>3. newest' \in 0 .. MaxTransfers /\ started' \in 0 .. MaxTransfers
    BY <1>1, <1>3
  <2>4. got' \in [Transfers -> 0 .. TotalChunks]
    BY <1>1 DEF TransferInvariant, TypeOK
  <2> QED
    BY <1>5, <1>7, <2>1, <2>2, <2>3, <2>4 DEF TypeOK
<1>9. Identities'
  BY <1>1, <1>2, <1>3 DEF TransferInvariant, Identities, Busy
<1>10. FramesAreHonest'
  BY <1>1, <1>3, <1>6 DEF TransferInvariant, FramesAreHonest, Busy
<1>11. HandshakeFirst'
  <2>1. \A b \in net : b.type = "BEGIN_ACK" => b.xferId <= newest /\ b.xferId \in Nat /\ b.arg = 0
    BY <1>3 DEF TransferInvariant, HandshakeFirst, FramesAreHonest
  <2>2. \A b \in net' : b.type = "BEGIN_ACK" => b.arg = 0 /\ b.xferId <= newest'
    BY <1>1, <1>3, <1>6, <2>1
  <2>3. \A b \in net' : b.type = "DATA" => BeginAckFrame(b.xferId) \in net'
    BY <1>1, <1>6 DEF TransferInvariant, HandshakeFirst
  <2>4. tx.status = "STREAMING" => BeginAckFrame(tx.xferId) \in net'
    BY <1>1 DEF TransferInvariant, HandshakeFirst
  <2> QED
    BY <1>1, <1>2, <2>2, <2>3, <2>4 DEF HandshakeFirst
<1>12. Progress'
  <2>1. got[m.xferId] \in Nat
    BY <1>3 DEF TransferInvariant, TypeOK
  <2> QED
    BY <1>1, <1>2, <2>1 DEF TransferInvariant, Progress, Busy
<1>13. FlashIsPrefix'
  BY <1>2, <1>7 DEF FlashIsPrefix
<1> QED
  BY <1>5, <1>8, <1>9, <1>10, <1>11, <1>12, <1>13 DEF TransferInvariant

(* A chunk handleData accepts is the next one of the open transfer. *)
LEMMA PadawanAcceptOK ==
  ASSUME TransferInvariant, NEW m \in net, PadawanAccept(m)
  PROVE  TransferInvariant'
<1> DEFINE x == m.xferId
           g == IF rx.next + 1 > got[x] THEN rx.next + 1 ELSE got[x]
           f == DataAckFrame(x, m.arg)
<1>1. /\ m.type = "DATA" /\ x >= newest /\ rx.active /\ rx.xferId = x /\ m.arg = rx.next
      /\ rx.next < rx.total
      /\ flash' = Append(flash, rx.next) /\ got' = [got EXCEPT ![x] = g]
      /\ net' = net \cup {f}
      /\ UNCHANGED <<tx, started, newest>>
  BY DEF PadawanAccept, Accepts
<1>2. /\ m \in Frame /\ x \in 1 .. started /\ x \in Transfers /\ x = newest
      /\ rx.next \in Nat /\ rx.next <= got[x] /\ m.arg \in Nat
  BY <1>1, DataIsCurrent
<1>3. rx.total = TotalChunks /\ rx \in [active : BOOLEAN, xferId : Nat, total : Nat, next : Nat]
  BY <1>1 DEF TransferInvariant, TypeOK, Identities
<1>4. rx' = [rx EXCEPT !.next = rx.next + 1]
  BY DEF PadawanAccept, AfterChunk
<1>5. /\ rx'.active /\ rx'.xferId = x /\ rx'.total = TotalChunks /\ rx'.next = rx.next + 1
      /\ rx' \in [active : BOOLEAN, xferId : Nat, total : Nat, next : Nat]
  BY <1>1, <1>2, <1>3, <1>4, SMTT(40)
<1>6. got \in [Transfers -> 0 .. TotalChunks]
  BY DEF TransferInvariant, TypeOK
<1>7. g \in 0 .. TotalChunks /\ g >= got[x] /\ g >= rx.next + 1
  BY <1>1, <1>2, <1>3, <1>6
<1>8. Busy /\ tx.xferId = x => g <= tx.highWater /\ tx.highWater \in Nat
  <2>1. SenderOK(tx)
    BY SenderPart
  <2>2. tx.highWater \in Nat
    BY <2>1, SenderNumbers
  <2>3. Busy /\ tx.xferId = x => m.arg < tx.highWater /\ got[x] <= tx.highWater
    BY <1>1 DEF TransferInvariant, FramesAreHonest, Progress
  <2> QED
    BY <1>1, <1>2, <1>6, <2>2, <2>3
<1> HIDE DEF g
<1>9. /\ got' \in [Transfers -> 0 .. TotalChunks] /\ got'[x] = g
      /\ \A y \in Transfers : y # x => got'[y] = got[y]
      /\ \A y \in Transfers : got'[y] >= got[y] /\ got[y] \in Nat /\ got'[y] \in Nat
  BY <1>1, <1>2, <1>6, <1>7
<1>10. f \in Frame /\ f.type = "DATA_ACK" /\ f.xferId = x /\ f.arg = rx.next
  BY <1>1, <1>2 DEF DataAckFrame, Frame, FrameType
<1> HIDE DEF f
<1>11. SenderOK(tx)'
  BY <1>1, SenderPart
<1>12. (SenderTypeOK /\ CursorsOrdered /\ WindowRespected /\ CompletionIsEarned)'
  BY <1>11, SenderPartBack
<1>13. started \in 0 .. MaxTransfers /\ newest \in 0 .. MaxTransfers /\ newest <= started
  BY DEF TransferInvariant, TypeOK, Identities
<1>14. flash \in Seq(Nat) /\ Len(flash) = rx.next /\ flash = [i \in 1 .. Len(flash) |-> i - 1]
  BY <1>1 DEF TransferInvariant, TypeOK, FlashIsPrefix
<1>15. flash' \in Seq(Nat) /\ Len(flash') = rx.next + 1
  BY <1>1, <1>2, <1>14
<1>16. TypeOK'
  <2>1. net' \subseteq Frame
    BY <1>1, <1>10 DEF TransferInvariant, TypeOK
  <2> QED
    BY <1>1, <1>5, <1>9, <1>12, <1>13, <1>15, <2>1 DEF TypeOK
<1>17. Identities'
  <2>1. \A y \in Transfers : y > started => got'[y] = 0
    BY <1>2, <1>9, <1>13, SMTT(40) DEF TransferInvariant, Identities
  <2> QED
    BY <1>1, <1>2, <1>5, <2>1, <1>13 DEF TransferInvariant, Identities, Busy
<1>18. FramesAreHonest'
  <2> SUFFICES ASSUME NEW n \in net'
               PROVE  /\ n.xferId \in 1 .. started
                      /\ n.type = "DATA" => /\ n.arg < TotalChunks
                                            /\ Busy /\ n.xferId = tx.xferId => n.arg < tx.highWater
                      /\ n.type = "DATA_ACK" => n.arg < got'[n.xferId]
                      /\ n.type = "DATA_NAK" => n.arg <= got'[n.xferId]
    BY <1>1 DEF FramesAreHonest, Busy
  <2>1. CASE n = f
    BY <2>1, <1>2, <1>7, <1>9, <1>10
  <2>2. CASE n \in net
    <3>1. n.xferId \in 1 .. started /\ n.arg \in Nat /\ n.xferId \in Transfers
      BY <2>2, <1>13, SMTT(40) DEF TransferInvariant, TypeOK, FramesAreHonest, Frame
    <3> QED
      BY <2>2, <3>1, <1>9, SMTT(40) DEF TransferInvariant, FramesAreHonest
  <2> QED
    BY <1>1, <2>1, <2>2
<1>19. HandshakeFirst'
  <2>1. \A y : BeginAckFrame(y) \in net' <=> BeginAckFrame(y) \in net
    BY <1>1, <1>10 DEF BeginAckFrame
  <2>2. \A n \in net' : n.type \in {"BEGIN_ACK", "DATA"} => n \in net
    BY <1>1, <1>10
  <2> QED
    BY <2>1, <2>2, <1>1, <1>5 DEF TransferInvariant, HandshakeFirst
<1>20. Progress'
  <2>1. Busy => tx.xferId \in Transfers
    BY <1>13 DEF TransferInvariant, Identities
  <2>2. Busy => tx.confirmed <= got[tx.xferId] /\ got[tx.xferId] <= tx.highWater
                /\ tx.confirmed \in Nat /\ tx.highWater \in Nat
    BY <1>11, <1>1, SenderPart, SenderNumbers DEF TransferInvariant, Progress
  <2>3. Busy => tx.confirmed <= got'[tx.xferId] /\ got'[tx.xferId] <= tx.highWater
    BY <2>1, <2>2, <1>8, <1>9, SMTT(40)
  <2> QED
    BY <2>3, <1>1, <1>5, <1>7, <1>9 DEF Progress, Busy
<1>21. FlashIsPrefix'
  <2>1. Len(flash') <= TotalChunks
    BY <1>1, <1>2, <1>3, <1>15
  <2>2. \A i \in 1 .. Len(flash') : flash'[i] = i - 1
    BY <1>1, <1>2, <1>14, <1>15
  <2>3. flash' = [i \in 1 .. Len(flash') |-> i - 1]
    BY <2>2, <1>15
  <2> QED
    BY <2>1, <2>3, <1>5, <1>15 DEF FlashIsPrefix
<1> QED
  BY <1>12, <1>16, <1>17, <1>18, <1>19, <1>20, <1>21 DEF TransferInvariant
-----------------------------------------------------------------------------
(* Every step keeps the invariant, so it always holds.                     *)
LEMMA StepOK == TransferInvariant /\ [Next]_vars => TransferInvariant'
<1> SUFFICES ASSUME TransferInvariant, [Next]_vars PROVE TransferInvariant'
  OBVIOUS
<1>1. CASE MasterBegin
  BY <1>1, MasterBeginOK
<1>2. CASE MasterSend
  BY <1>2, MasterSendOK
<1>3. ASSUME NEW E \in SUBSET tx.inFlight, MasterTick(E) PROVE TransferInvariant'
  BY <1>3, MasterTickOK
<1>4. CASE MasterGiveUp
  BY <1>4, MasterGiveUpOK
<1>5. CASE PadawanReset
  BY <1>5, PadawanResetOK
<1>6. ASSUME NEW m \in net, MasterBeginAck(m) PROVE TransferInvariant'
  BY <1>6, MasterBeginAckOK
<1>7. ASSUME NEW m \in net, MasterDataAck(m) PROVE TransferInvariant'
  BY <1>7, MasterDataAckOK
<1>8. ASSUME NEW m \in net, MasterDataNak(m) PROVE TransferInvariant'
  BY <1>8, MasterDataNakOK
<1>9. ASSUME NEW m \in net, MasterEndAck(m) PROVE TransferInvariant'
  BY <1>9, MasterEndAckOK
<1>10. ASSUME NEW m \in net, PadawanBegin(m) PROVE TransferInvariant'
  BY <1>10, PadawanBeginOK
<1>11. ASSUME NEW m \in net, PadawanBusy(m) PROVE TransferInvariant'
  BY <1>11, PadawanBusyOK
<1>12. ASSUME NEW m \in net, PadawanAccept(m) PROVE TransferInvariant'
  BY <1>12, PadawanAcceptOK
<1>13. ASSUME NEW m \in net, PadawanReject(m) PROVE TransferInvariant'
  BY <1>13, PadawanRejectOK
<1>14. ASSUME NEW m \in net, PadawanWriteFails(m) PROVE TransferInvariant'
  BY <1>14, PadawanWriteFailsOK
<1>15. ASSUME NEW m \in net, PadawanEnd(m) PROVE TransferInvariant'
  BY <1>15, PadawanEndOK
<1>16. CASE UNCHANGED vars
  <2>1. SenderOK(tx)'
    BY <1>16, SenderPart DEF vars
  <2>2. UNCHANGED <<rx, started, newest, flash, got, net, tx>>
    BY <1>16 DEF vars
  <2> QED
    BY <2>1, <2>2, PadawanKeeps
<1> QED
  BY <1>1, <1>2, <1>3, <1>4, <1>5, <1>6, <1>7, <1>8, <1>9, <1>10, <1>11, <1>12, <1>13,
     <1>14, <1>15, <1>16 DEF Next

(* TransferInvariant is an invariant of the two state machines over the    *)
(* lossy network.                                                          *)
THEOREM TransferAlwaysInOrder == Spec => []TransferInvariant
  BY InitOK, StepOK, PTL DEF Spec

(* The types of every variable, frames and history included.               *)
THEOREM TransferTypeCorrect == Spec => []TypeOK
<1>1. TransferInvariant => TypeOK
  BY DEF TransferInvariant
<1> QED
  BY <1>1, TransferAlwaysInOrder, PTL

(* onDataAck and onDataNak never confirm a chunk the padawan did not write *)
(* in the transfer the master is running.                                  *)
THEOREM ConfirmedAlwaysCommitted == Spec => []ConfirmedIsCommitted
<1>1. TransferInvariant => ConfirmedIsCommitted
  BY DEF TransferInvariant, Progress, ConfirmedIsCommitted
<1> QED
  BY <1>1, TransferAlwaysInOrder, PTL

(* onDataAck never calls an honest acknowledgement out of range.           *)
THEOREM HonestAckAlwaysInRange == Spec => []HonestAckInRange
<1>1. TransferInvariant => HonestAckInRange
  <2> SUFFICES ASSUME TransferInvariant, NEW m \in net, m.type = "DATA_ACK",
                      tx.status = "STREAMING", m.xferId = tx.xferId
               PROVE  m.arg < tx.total /\ m.arg < tx.highWater
               /\ m.arg \in Nat /\ tx.total \in Nat /\ tx.highWater \in Nat
    BY DEF HonestAckInRange, AckDecision
  <2>1. SenderOK(tx) /\ m.arg \in Nat
    BY SenderPart DEF TransferInvariant, TypeOK, Frame
  <2>2. m.arg < got[tx.xferId] /\ got[tx.xferId] <= tx.highWater
    BY DEF TransferInvariant, FramesAreHonest, Progress, Busy
  <2>3. got[tx.xferId] \in Nat
    <3>1. tx.xferId \in Transfers
      BY SMTT(40) DEF TransferInvariant, TypeOK, Identities, Busy
    <3> QED
      BY <3>1 DEF TransferInvariant, TypeOK
  <2> QED
    BY <2>1, <2>2, <2>3, SenderNumbers
<1> QED
  BY <1>1, TransferAlwaysInOrder, PTL

(* esp_ota_write only ever appends the next chunk of the image.            *)
THEOREM FlashAlwaysPrefix == Spec => []FlashIsPrefix
<1>1. TransferInvariant => FlashIsPrefix
  BY DEF TransferInvariant
<1> QED
  BY <1>1, TransferAlwaysInOrder, PTL

(* A transfer the master calls done was written in full.                   *)
THEOREM DoneAlwaysComplete == Spec => []DoneIsComplete
<1>1. TransferInvariant => DoneIsComplete
  <2> SUFFICES ASSUME TransferInvariant, tx.status = "DONE_OK"
               PROVE  got[tx.xferId] = TotalChunks
    BY DEF DoneIsComplete
  <2>1. tx.confirmed = TotalChunks /\ tx.confirmed <= got[tx.xferId] /\ tx.xferId \in Transfers
    BY SMTT(40) DEF TransferInvariant, TypeOK, CompletionIsEarned, Progress, Identities, Busy
  <2>2. got[tx.xferId] \in 0 .. TotalChunks
    BY <2>1 DEF TransferInvariant, TypeOK
  <2> QED
    BY <2>1, <2>2
<1> QED
  BY <1>1, TransferAlwaysInOrder, PTL

(* handleEnd vouches for an image only when the partition holds it all.    *)
THEOREM VerifiedAlwaysWhole == Spec => VerifiedImageIsWhole
<1>1. TransferInvariant /\ [Next]_vars =>
        [\A x \in Transfers : EndAckFrame(x, 0) \in net' \ net => flash = Image]_vars
  <2> SUFFICES ASSUME TransferInvariant, Next, NEW x \in Transfers,
                      EndAckFrame(x, 0) \in net' \ net
               PROVE  flash = Image
    OBVIOUS
  <2>1. PICK m \in net : PadawanEnd(m)
    <3> DEFINE e == EndAckFrame(x, 0)
    <3>1. e.type = "END_ACK"
      BY DEF EndAckFrame
    <3>2. ~(MasterBegin \/ MasterSend \/ MasterGiveUp \/ PadawanReset)
      BY <3>1 DEF MasterBegin, MasterSend, MasterGiveUp, PadawanReset, BeginFrame, DataFrame
    <3>3. \A E \in SUBSET tx.inFlight : ~MasterTick(E)
      BY DEF MasterTick
    <3>4. \A m \in net : ~(MasterBeginAck(m) \/ MasterDataAck(m) \/ MasterDataNak(m)
                             \/ MasterEndAck(m) \/ PadawanBusy(m))
      BY <3>1 DEF MasterBeginAck, MasterDataAck, MasterDataNak, MasterEndAck, PadawanBusy, EndFrame
    <3>5. /\ \A b : BeginAckFrame(b) # e
          /\ \A b, c : DataAckFrame(b, c) # e
          /\ \A b, c : DataNakFrame(b, c) # e
      BY <3>1 DEF BeginAckFrame, DataAckFrame, DataNakFrame
    <3>6. e \in net' /\ e \notin net
      OBVIOUS
    <3> HIDE DEF e
    <3>7. ASSUME NEW n \in net, PadawanBegin(n) \/ PadawanAccept(n) \/ PadawanReject(n)
                                  \/ PadawanWriteFails(n)
          PROVE  FALSE
      <4>1. \/ net' = net \cup {BeginAckFrame(n.xferId)}
            \/ net' = net \cup {DataAckFrame(n.xferId, n.arg)}
            \/ net' = net \cup {DataNakFrame(n.xferId, rx.next)}
            \/ net' = net \cup {DataNakFrame(n.xferId, 0)}
        BY <3>7 DEF PadawanBegin, PadawanAccept, PadawanReject, PadawanWriteFails
      <4> QED
        BY <4>1, <3>5, <3>6
    <3> QED
      BY <3>2, <3>3, <3>4, <3>7 DEF Next
  <2>2. EndResult(rx, m.xferId, TotalChunks) = "OK"
    BY <2>1 DEF PadawanEnd, EndAckFrame
  <2>3. rx.active /\ rx.next = rx.total
    BY <2>2 DEF EndResult
  <2>4. rx.total = TotalChunks /\ Len(flash) = TotalChunks
    BY <2>3 DEF TransferInvariant, Identities, FlashIsPrefix
  <2> QED
    BY <2>4 DEF TransferInvariant, FlashIsPrefix, Image
<1> QED
  BY <1>1, TransferAlwaysInOrder, PTL DEF Spec, VerifiedImageIsWhole
-----------------------------------------------------------------------------
(* Refinement: what the operator is promised.                              *)

(* A transfer in progress is one of those that were started. *)
LEMMA BusyInRange ==
  ASSUME TransferInvariant, Busy
  PROVE  /\ tx.xferId = started /\ tx.xferId \in Transfers /\ tx.total = TotalChunks
         /\ got[tx.xferId] \in 0 .. TotalChunks /\ tx.confirmed \in Nat
         /\ tx.confirmed <= got[tx.xferId]
<1>1. tx.xferId = started /\ tx.xferId \in Transfers /\ tx.total = TotalChunks
  BY SMTT(40) DEF TransferInvariant, TypeOK, Identities
<1>2. got[tx.xferId] \in 0 .. TotalChunks
  BY <1>1 DEF TransferInvariant, TypeOK
<1>3. tx.confirmed \in Nat /\ tx.confirmed <= got[tx.xferId]
  BY SenderPart, SenderNumbers DEF TransferInvariant, Progress
<1> QED
  BY <1>1, <1>2, <1>3

(* Init maps to Init.                                                      *)
LEMMA PromiseInit == Init => Promise!Init
<1> SUFFICES ASSUME Init PROVE Promise!Init
  OBVIOUS
<1>1. tx.status = "IDLE"
  BY DEF Init, SenderInit, IdleSender
<1> QED
  BY <1>1 DEF Promise!Init, Busy

(* A step of the sender alone that keeps the transfer open maps to Learn,  *)
(* Complete, Fail or a stutter.                                            *)
LEMMA PromiseOfSender ==
  ASSUME TransferInvariant, UNCHANGED <<got, started>>,
         tx.status # "IDLE", tx'.xferId = tx.xferId,
         \/ /\ tx'.confirmed \in Nat
            /\ tx'.confirmed >= tx.confirmed /\ tx'.confirmed <= got[tx.xferId]
            /\ \/ tx'.status = tx.status /\ tx.status = "STREAMING"
               \/ tx'.status = tx.status /\ tx'.confirmed = tx.confirmed
         \/ /\ tx'.confirmed = tx.confirmed
            /\ tx.status = "AWAITING_BEGIN_ACK" /\ tx'.status = "STREAMING"
         \/ /\ tx'.confirmed = tx.confirmed
            /\ tx.status = "STREAMING"
            /\ \/ tx'.status = "ABANDONED"
               \/ tx'.status = "DONE_OK" /\ tx.confirmed = tx.total
  PROVE  [Promise!Next]_(Promise!vars)
<1>1. /\ Busy /\ got[tx.xferId] \in 0 .. TotalChunks /\ tx.confirmed \in Nat
      /\ tx.confirmed <= got[tx.xferId] /\ tx.total = TotalChunks
  BY BusyInRange DEF Busy
<1>2. CASE /\ tx'.status = tx.status /\ tx.status = "STREAMING" /\ tx'.confirmed \in Nat
           /\ tx'.confirmed > tx.confirmed /\ tx'.confirmed <= got[tx.xferId]
  <2>1. tx'.confirmed \in 1 .. TotalChunks /\ tx'.confirmed \in tx.confirmed + 1 .. got[tx.xferId]
    BY <1>1, <1>2
  <2>2. Promise!Learn(tx'.confirmed)
    BY <1>1, <1>2, <2>1 DEF Promise!Learn, Busy
  <2> QED
    BY <2>1, <2>2 DEF Promise!Next
<1>3. CASE tx'.status = tx.status /\ tx'.confirmed = tx.confirmed
  BY <1>1, <1>3 DEF Promise!vars, Busy
<1>4. CASE /\ tx'.confirmed = tx.confirmed
           /\ tx.status = "AWAITING_BEGIN_ACK" /\ tx'.status = "STREAMING"
  BY <1>1, <1>4 DEF Promise!vars, Busy
<1>5. CASE tx'.confirmed = tx.confirmed /\ tx.status = "STREAMING" /\ tx'.status = "ABANDONED"
  <2>1. Promise!Fail
    BY <1>1, <1>5 DEF Promise!Fail, Busy
  <2> QED
    BY <2>1 DEF Promise!Next
<1>6. CASE /\ tx'.confirmed = tx.confirmed /\ tx.status = "STREAMING"
           /\ tx'.status = "DONE_OK" /\ tx.confirmed = tx.total
  <2>1. Promise!Complete
    BY <1>1, <1>6 DEF Promise!Complete, Busy
  <2> QED
    BY <2>1 DEF Promise!Next
<1> QED
  BY <1>1, <1>2, <1>3, <1>4, <1>5, <1>6

(* Every step of the two state machines is a step of FirmwareTransfer or a stutter. *)
LEMMA PromiseStep == TransferInvariant /\ [Next]_vars => [Promise!Next]_(Promise!vars)
<1> SUFFICES ASSUME TransferInvariant, [Next]_vars PROVE [Promise!Next]_(Promise!vars)
  OBVIOUS
<1>0. SenderOK(tx)
  BY SenderPart
<1>n. \A m \in net : m.arg \in Nat
  BY DEF TransferInvariant, TypeOK, Frame
<1>1. CASE MasterBegin
  <2>1. tx.status \in {"IDLE", "DONE_OK", "ABANDONED"} /\ UNCHANGED got
    BY <1>1 DEF MasterBegin
  <2>2. tx' = BeginSender(started + 1, TotalChunks, WindowSize, MaxRetries)
    BY <1>1 DEF MasterBegin
  <2>3. ~(TotalChunks = 0 \/ WindowSize = 0 \/ WindowSize > MAX_WINDOW_SIZE \/ MaxRetries = 0)
    BY SenderAssumption
  <2>4. /\ tx'.status = "AWAITING_BEGIN_ACK" /\ tx'.xferId = started + 1 /\ tx'.confirmed = 0
    BY <2>2, <2>3 DEF BeginSender, IdleSender
  <2>5. got[started + 1] = 0
    BY <1>1 DEF MasterBegin, TransferInvariant, TypeOK, Identities
  <2>6. Promise!Start
    BY <2>1, <2>4, <2>5 DEF Promise!Start, Busy
  <2> QED
    BY <2>6 DEF Promise!Next
<1>2. CASE MasterSend
  <2>1. /\ tx'.status = tx.status /\ tx'.xferId = tx.xferId /\ tx'.confirmed = tx.confirmed
        /\ tx.status = "STREAMING" /\ UNCHANGED <<got, started>>
    BY <1>0, <1>2, SendFields DEF MasterSend, CanSend
  <2> QED
    BY <2>1 DEF Promise!vars, Busy
<1>3. ASSUME NEW E \in SUBSET tx.inFlight, MasterTick(E)
      PROVE  [Promise!Next]_(Promise!vars)
  <2>1. /\ tx' = AfterTick(tx, E) /\ tx.status = "STREAMING" /\ UNCHANGED <<got, started>>
    BY <1>3 DEF MasterTick
  <2>2. tx.confirmed \in Nat /\ tx.confirmed <= got[tx.xferId]
    BY <2>1, BusyInRange DEF Busy
  <2>3. /\ tx'.xferId = tx.xferId /\ tx'.confirmed = tx.confirmed
        /\ tx'.status \in {tx.status, "ABANDONED"}
    BY <1>0, <2>1, TickFields
  <2> QED
    BY <2>1, <2>2, <2>3, PromiseOfSender
<1>4. CASE MasterGiveUp
  <2>1. tx'.status = "IDLE"
    BY <1>4 DEF MasterGiveUp, IdleSender
  <2>2. Promise!Forget
    BY <2>1 DEF Promise!Forget, Busy
  <2> QED
    BY <2>2 DEF Promise!Next
<1>5. CASE PadawanReset
  BY <1>5 DEF PadawanReset, Promise!vars, Busy
<1>6. ASSUME NEW m \in net, MasterBeginAck(m) PROVE [Promise!Next]_(Promise!vars)
  <2>1. tx' = AfterBeginAck(tx, m.xferId) /\ UNCHANGED <<got, started>>
    BY <1>6 DEF MasterBeginAck
  <2>2. /\ tx'.xferId = tx.xferId /\ tx'.confirmed = tx.confirmed
        /\ tx'.status = IF tx.status = "AWAITING_BEGIN_ACK" /\ m.xferId = tx.xferId
                        THEN "STREAMING" ELSE tx.status
    BY <1>0, <2>1, BeginAckFields
  <2>3. CASE tx.status = "IDLE"
    BY <2>1, <2>2, <2>3 DEF Promise!vars, Busy
  <2>4. CASE tx.status # "IDLE"
    BY <2>1, <2>2, <2>4, PromiseOfSender, BusyInRange DEF Busy
  <2> QED
    BY <2>3, <2>4
<1>7. ASSUME NEW m \in net, MasterDataAck(m) PROVE [Promise!Next]_(Promise!vars)
  <2>1. tx' = AfterAck(tx, m.xferId, m.arg) /\ UNCHANGED <<got, started>> /\ m.arg \in Nat
    BY <1>7, <1>n DEF MasterDataAck
  <2>2. TransferInvariant'
    BY <1>7, MasterDataAckOK
  <2>3. AckDecision(tx, m.xferId, m.arg) = "OK" =>
          tx.status = "STREAMING" /\ m.arg + 1 >= tx.confirmed
    <3>1. tx.confirmed \in Nat
      BY <1>0, SenderNumbers
    <3> QED
      BY <2>1, <3>1 DEF AckDecision
  <2>4. /\ tx'.status = tx.status /\ tx'.xferId = tx.xferId
        /\ tx'.confirmed = IF AckDecision(tx, m.xferId, m.arg) = "OK" THEN m.arg + 1 ELSE tx.confirmed
    BY <1>0, <2>1, AckFields
  <2>5. CASE AckDecision(tx, m.xferId, m.arg) = "OK"
    <3>1. tx'.confirmed <= got[tx.xferId]
      BY <2>1, <2>2, <2>3, <2>4, <2>5 DEF TransferInvariant, Progress, Busy
    <3> QED
      BY <2>1, <2>3, <2>4, <2>5, <3>1, PromiseOfSender
  <2>6. CASE AckDecision(tx, m.xferId, m.arg) # "OK"
    BY <2>1, <2>4, <2>6 DEF Promise!vars, Busy
  <2> QED
    BY <2>5, <2>6
<1>8. ASSUME NEW m \in net, MasterDataNak(m) PROVE [Promise!Next]_(Promise!vars)
  <2>1. tx' = AfterNak(tx, m.xferId, m.arg) /\ UNCHANGED <<got, started>> /\ m.arg \in Nat
    BY <1>8, <1>n DEF MasterDataNak
  <2>2. TransferInvariant'
    BY <1>8, MasterDataNakOK
  <2>3. NakDecision(tx, m.xferId, m.arg) = "OK" => tx.status = "STREAMING"
    BY DEF NakDecision
  <2>4. /\ tx'.status = tx.status /\ tx'.xferId = tx.xferId
        /\ tx'.confirmed = IF NakDecision(tx, m.xferId, m.arg) = "OK" /\ m.arg > tx.confirmed
                           THEN m.arg ELSE tx.confirmed
    BY <1>0, <2>1, NakFields
  <2>5. CASE NakDecision(tx, m.xferId, m.arg) = "OK" /\ m.arg > tx.confirmed
    <3>1. tx'.confirmed <= got[tx.xferId]
      BY <2>1, <2>2, <2>3, <2>4, <2>5 DEF TransferInvariant, Progress, Busy
    <3>2. tx'.confirmed = m.arg /\ m.arg >= tx.confirmed
      BY <2>1, <2>4, <2>5, <1>0, SenderNumbers
    <3> QED
      BY <2>1, <2>3, <2>4, <2>5, <3>1, <3>2, PromiseOfSender
  <2>6. CASE ~(NakDecision(tx, m.xferId, m.arg) = "OK" /\ m.arg > tx.confirmed)
    BY <2>1, <2>4, <2>6 DEF Promise!vars, Busy
  <2> QED
    BY <2>5, <2>6
<1>9. ASSUME NEW m \in net, MasterEndAck(m) PROVE [Promise!Next]_(Promise!vars)
  <2> DEFINE st == IF m.arg = 0 THEN "OK" ELSE "WRITE_ERROR"
  <2>1. tx' = AfterEndAck(tx, m.xferId, st) /\ UNCHANGED <<got, started>>
    BY <1>9 DEF MasterEndAck
  <2> HIDE DEF st
  <2>2. /\ tx'.xferId = tx.xferId /\ tx'.confirmed = tx.confirmed
        /\ tx'.status \in {tx.status, "DONE_OK", "ABANDONED"}
        /\ tx'.status # tx.status => tx.status = "STREAMING"
        /\ tx'.status # tx.status /\ tx'.status = "DONE_OK" => tx.confirmed = tx.total
    BY <1>0, <2>1, EndAckFields
  <2>3. CASE tx'.status = tx.status
    BY <2>1, <2>2, <2>3 DEF Promise!vars, Busy
  <2>4. CASE tx'.status # tx.status
    BY <2>1, <2>2, <2>4, PromiseOfSender
  <2> QED
    BY <2>3, <2>4
<1>10. ASSUME NEW m \in net, PadawanBegin(m) \/ PadawanBusy(m) \/ PadawanReject(m)
                               \/ PadawanWriteFails(m) \/ PadawanEnd(m)
       PROVE  [Promise!Next]_(Promise!vars)
  <2>1. UNCHANGED <<tx, got>>
    BY <1>10 DEF PadawanBegin, PadawanBusy, PadawanReject, PadawanWriteFails, PadawanEnd
  <2> QED
    BY <2>1 DEF Promise!vars, Busy
<1>11. ASSUME NEW m \in net, PadawanAccept(m) PROVE [Promise!Next]_(Promise!vars)
  <2>1. /\ m.type = "DATA" /\ m.xferId >= newest /\ UNCHANGED <<tx, started>>
        /\ rx.active /\ rx.next < rx.total
        /\ got' = [got EXCEPT ![m.xferId] = IF rx.next + 1 > @ THEN rx.next + 1 ELSE @]
    BY <1>11 DEF PadawanAccept, Accepts
  <2>2. m.xferId \in Transfers /\ rx.next \in Nat /\ rx.next <= got[m.xferId]
    BY <2>1, DataIsCurrent
  <2>3. rx.total = TotalChunks
    BY <2>1 DEF TransferInvariant, Identities
  <2>4. got \in [Transfers -> 0 .. TotalChunks]
    BY DEF TransferInvariant, TypeOK
  <2>5. CASE Busy /\ m.xferId = tx.xferId /\ rx.next + 1 > got[tx.xferId]
    <3>1. got'[tx.xferId] = got[tx.xferId] + 1 /\ got[tx.xferId] < TotalChunks
      BY <2>1, <2>2, <2>3, <2>4, <2>5
    <3>2. Promise!Write
      BY <2>1, <2>5, <3>1 DEF Promise!Write, Busy
    <3> QED
      BY <3>2 DEF Promise!Next
  <2>6. CASE ~(Busy /\ m.xferId = tx.xferId /\ rx.next + 1 > got[tx.xferId])
    <3>1. Busy => got'[tx.xferId] = got[tx.xferId]
      BY <2>1, <2>2, <2>4, <2>6, BusyInRange
    <3> QED
      BY <2>1, <3>1 DEF Promise!vars, Busy
  <2> QED
    BY <2>5, <2>6
<1>12. CASE UNCHANGED vars
  BY <1>12 DEF vars, Promise!vars, Busy
<1> QED
  BY <1>1, <1>2, <1>3, <1>4, <1>5, <1>6, <1>7, <1>8, <1>9, <1>10, <1>11, <1>12 DEF Next

(* OtaForwarder's sender and OtaWriter's receiver over a lossy network do  *)
(* what FirmwareTransfer promises, for every image, window and retry limit. *)
THEOREM TransferImplementsPromise == Spec => ImplementsPromise
  BY PromiseInit, PromiseStep, TransferAlwaysInOrder, PTL DEF Spec, ImplementsPromise, Promise!Spec
=============================================================================
