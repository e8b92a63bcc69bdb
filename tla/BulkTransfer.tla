---------------------------- MODULE BulkTransfer ----------------------------
(***************************************************************************)
(* BulkSender and BulkReceiver joined by a network that may lose, delay,   *)
(* duplicate and reorder the frames of a transfer: net holds every frame   *)
(* ever sent, and a step may read any of them.  The master runs a series   *)
(* of transfers of the same image, each under a fresh transfer id; the     *)
(* padawan may abandon a transfer at any moment (a failed flash write, its *)
(* idle watchdog).  One thing is asked of the network: once the padawan    *)
(* has seen the BEGIN of a transfer, no frame of an older one reaches it   *)
(* (newest).  Without it OtaWriter::handleData, which tags a rejection     *)
(* with the chunk's own transfer id but fills in the position of the       *)
(* transfer it is running, can confirm chunks of the wrong transfer.       *)
(*                                                                         *)
(* The callers are the ones the firmware has: OtaForwarder's BEGIN_ACK,    *)
(* DATA_ACK, DATA_NAK, END_ACK and tick handlers on the master, OtaWriter's*)
(* BEGIN, DATA and END handlers on the padawan, reduced to the calls they  *)
(* make on the two state machines.                                         *)
(***************************************************************************)
EXTENDS BulkSender, BulkReceiver, Sequences

CONSTANTS
  TotalChunks,   \* chunks of the image
  WindowSize,    \* kWindowSize
  MaxRetries,    \* kMaxRetries
  MaxTransfers   \* bound: transfers the master starts

ASSUME TransferAssumption ==
  /\ TotalChunks \in Nat \ {0}
  /\ WindowSize \in 1 .. MAX_WINDOW_SIZE
  /\ MaxRetries \in Nat \ {0}
  /\ MaxTransfers \in Nat

VARIABLES
  rx,       \* the padawan's BulkReceiver
  net,      \* every frame sent so far
  started,  \* transfers started; the current one has this number as its id
  newest,   \* the highest transfer id in a BEGIN the padawan has read
  flash,    \* the chunks written to the inactive partition, in order
  got       \* history: the most chunks ever written for each transfer

vars == <<tx, rx, net, started, newest, flash, got>>

Transfers == 1 .. MaxTransfers
Chunks == 0 .. TotalChunks - 1
Image == [i \in 1 .. TotalChunks |-> i - 1]

FrameType == {"BEGIN", "BEGIN_ACK", "DATA", "DATA_ACK", "DATA_NAK", "END", "END_ACK"}
Frame == [type : FrameType, xferId : Nat, arg : Nat]

BeginFrame(x)      == [type |-> "BEGIN",     xferId |-> x, arg |-> 0]
BeginAckFrame(x)   == [type |-> "BEGIN_ACK", xferId |-> x, arg |-> 0]
DataFrame(x, q)    == [type |-> "DATA",      xferId |-> x, arg |-> q]
DataAckFrame(x, q) == [type |-> "DATA_ACK",  xferId |-> x, arg |-> q]
DataNakFrame(x, q) == [type |-> "DATA_NAK",  xferId |-> x, arg |-> q]
EndFrame(x)        == [type |-> "END",       xferId |-> x, arg |-> 0]
\* arg is the wire value of OtaEndStatus: 0 is OK.
EndAckFrame(x, st) == [type |-> "END_ACK",   xferId |-> x, arg |-> st]

Init ==
  /\ SenderInit
  /\ rx = IdleReceiver
  /\ net = {}
  /\ started = 0
  /\ newest = 0
  /\ flash = <<>>
  /\ got = [x \in Transfers |-> 0]

-----------------------------------------------------------------------------
(* The master.                                                             *)

MasterBegin ==
  /\ tx.status \in {"IDLE", "DONE_OK", "ABANDONED"}
  /\ started < MaxTransfers
  /\ started' = started + 1
  /\ tx' = BeginSender(started + 1, TotalChunks, WindowSize, MaxRetries)
  /\ net' = net \cup {BeginFrame(started + 1)}
  /\ UNCHANGED <<rx, newest, flash, got>>

MasterBeginAck(m) ==
  /\ m.type = "BEGIN_ACK"
  /\ tx' = AfterBeginAck(tx, m.xferId)
  /\ UNCHANGED <<rx, net, started, newest, flash, got>>

MasterSend ==
  /\ CanSend(tx)
  /\ tx' = AfterSend(tx)
  /\ net' = net \cup {DataFrame(tx.xferId, tx.next)}
  /\ UNCHANGED <<rx, started, newest, flash, got>>

\* The acknowledgement that confirms the last chunk sends OTA_END.
MasterDataAck(m) ==
  /\ m.type = "DATA_ACK"
  /\ tx' = AfterAck(tx, m.xferId, m.arg)
  /\ net' = IF AckDecision(tx, m.xferId, m.arg) = "OK" /\ m.arg + 1 >= TotalChunks
            THEN net \cup {EndFrame(tx.xferId)}
            ELSE net
  /\ UNCHANGED <<rx, started, newest, flash, got>>

MasterDataNak(m) ==
  /\ m.type = "DATA_NAK"
  /\ tx' = AfterNak(tx, m.xferId, m.arg)
  /\ UNCHANGED <<rx, net, started, newest, flash, got>>

\* The frames a tick sends again are in net already.
MasterTick(E) ==
  /\ tx.status = "STREAMING"
  /\ E # {}
  /\ tx' = AfterTick(tx, E)
  /\ UNCHANGED <<rx, net, started, newest, flash, got>>

MasterEndAck(m) ==
  /\ m.type = "END_ACK"
  /\ tx' = AfterEndAck(tx, m.xferId, IF m.arg = 0 THEN "OK" ELSE "WRITE_ERROR")
  /\ UNCHANGED <<rx, net, started, newest, flash, got>>

\* A BEGIN_ACK or END_ACK deadline, or an aborted padawan: bulk_.reset().
MasterGiveUp ==
  /\ tx.status # "IDLE"
  /\ tx' = IdleSender
  /\ UNCHANGED <<rx, net, started, newest, flash, got>>

-----------------------------------------------------------------------------
(* The padawan.                                                            *)

PadawanBegin(m) ==
  /\ m.type = "BEGIN"
  /\ m.xferId >= newest
  /\ ~rx.active
  /\ newest' = m.xferId
  /\ rx' = BeginReceiver(m.xferId, TotalChunks, TRUE)
  /\ flash' = <<>>
  /\ net' = net \cup {BeginAckFrame(m.xferId)}
  /\ UNCHANGED <<tx, started, got>>

\* BUSY: nothing changes on the padawan, and the master gives up on the answer.
PadawanBusy(m) ==
  /\ m.type = "BEGIN"
  /\ m.xferId >= newest
  /\ rx.active
  /\ newest' = m.xferId
  /\ UNCHANGED <<tx, rx, net, started, flash, got>>

PadawanAccept(m) ==
  /\ m.type = "DATA"
  /\ m.xferId >= newest
  /\ Accepts(rx, m.xferId, m.arg, TRUE)
  /\ rx' = AfterChunk(rx, m.xferId, m.arg, TRUE)
  /\ flash' = Append(flash, m.arg)
  /\ got' = [got EXCEPT ![m.xferId] = IF rx.next + 1 > @ THEN rx.next + 1 ELSE @]
  /\ net' = net \cup {DataAckFrame(m.xferId, m.arg)}
  /\ UNCHANGED <<tx, started, newest>>

\* Out of order, corrupt, of another transfer, or no transfer is active.
PadawanReject(m) ==
  /\ m.type = "DATA"
  /\ m.xferId >= newest
  /\ \E intact \in BOOLEAN : ~Accepts(rx, m.xferId, m.arg, intact)
  /\ net' = net \cup {DataNakFrame(m.xferId, rx.next)}
  /\ UNCHANGED <<tx, rx, started, newest, flash, got>>

\* esp_ota_write fails: a negative acknowledgement of chunk 0, then a reset.
PadawanWriteFails(m) ==
  /\ m.type = "DATA"
  /\ m.xferId >= newest
  /\ Accepts(rx, m.xferId, m.arg, TRUE)
  /\ rx' = IdleReceiver
  /\ net' = net \cup {DataNakFrame(m.xferId, 0)}
  /\ UNCHANGED <<tx, started, newest, flash, got>>

PadawanEnd(m) ==
  /\ m.type = "END"
  /\ m.xferId >= newest
  /\ rx.active
  /\ LET res == EndResult(rx, m.xferId, TotalChunks) IN
       /\ net' = net \cup {EndAckFrame(m.xferId, IF res = "OK" THEN 0 ELSE 2)}
       /\ rx' = IF TearsDown(res) THEN IdleReceiver ELSE rx
  /\ UNCHANGED <<tx, started, newest, flash, got>>

\* The idle watchdog, or a reboot.
PadawanReset ==
  /\ rx.active
  /\ rx' = IdleReceiver
  /\ UNCHANGED <<tx, net, started, newest, flash, got>>

Next ==
  \/ MasterBegin
  \/ MasterSend
  \/ \E E \in SUBSET tx.inFlight : MasterTick(E)
  \/ MasterGiveUp
  \/ PadawanReset
  \/ \E m \in net :
       \/ MasterBeginAck(m)
       \/ MasterDataAck(m)
       \/ MasterDataNak(m)
       \/ MasterEndAck(m)
       \/ PadawanBegin(m)
       \/ PadawanBusy(m)
       \/ PadawanAccept(m)
       \/ PadawanReject(m)
       \/ PadawanWriteFails(m)
       \/ PadawanEnd(m)

Spec == Init /\ [][Next]_vars

-----------------------------------------------------------------------------

\* Type invariant.
TypeOK ==
  /\ SenderTypeOK
  /\ rx \in [active : BOOLEAN, xferId : Nat, total : Nat, next : Nat]
  /\ net \subseteq Frame
  /\ started \in 0 .. MaxTransfers
  /\ newest \in 0 .. MaxTransfers
  /\ flash \in Seq(Nat)
  /\ got \in [Transfers -> 0 .. TotalChunks]

Busy == tx.status # "IDLE"

\* A chunk the master counts as confirmed was written by the padawan in the
\* transfer the master is running, whichever frames were lost, repeated or
\* overtaken and however often the padawan started over.
ConfirmedIsCommitted == Busy => tx.confirmed <= got[tx.xferId]

\* The acknowledgement of an honest padawan is never OUT_OF_RANGE: the bound
\* of onDataAck against the highest chunk ever sent only rejects a peer that
\* acknowledges what it cannot have.
HonestAckInRange ==
  \A m \in net : m.type = "DATA_ACK" => AckDecision(tx, m.xferId, m.arg) # "OUT_OF_RANGE"

\* The partition holds the chunks of the image in order, without a gap or a
\* repetition, and a live receiver knows how many: esp_ota_write only appends,
\* so a chunk committed out of turn would shift everything after it.
FlashIsPrefix ==
  /\ flash = [i \in 1 .. Len(flash) |-> i - 1]
  /\ Len(flash) <= TotalChunks
  /\ rx.active => Len(flash) = rx.next

\* The master reports a transfer done only if the padawan has written the
\* whole image in that very transfer.
DoneIsComplete == tx.status = "DONE_OK" => got[tx.xferId] = TotalChunks

\* The padawan vouches for an image only while its partition holds all of it.
VerifiedImageIsWhole ==
  [][\A x \in Transfers : EndAckFrame(x, 0) \in net' \ net => flash = Image]_vars

\* The transfer the master is running behaves as FirmwareTransfer promises.
Promise ==
  INSTANCE FirmwareTransfer WITH
    outcome <- CASE tx.status = "IDLE" -> "idle"
                 [] tx.status = "DONE_OK" -> "done"
                 [] tx.status = "ABANDONED" -> "failed"
                 [] OTHER -> "running",
    written <- IF Busy THEN got[tx.xferId] ELSE 0,
    known   <- IF Busy THEN tx.confirmed ELSE 0

\* Every behaviour of the two state machines over the lossy network is one of
\* the abstract transfer.
ImplementsPromise == Promise!Spec

-----------------------------------------------------------------------------
(* The inductive invariant behind these properties, part by part.          *)

\* Transfer ids only grow, and the padawan is never ahead of the master.
Identities ==
  /\ newest <= started
  /\ Busy => tx.xferId = started /\ started >= 1 /\ tx.total = TotalChunks
  /\ rx.active => rx.xferId \in 1 .. newest /\ rx.total = TotalChunks
  /\ ~rx.active => rx.next = 0
  /\ \A x \in Transfers : x > started => got[x] = 0

\* A frame only says what was true of its transfer when it was sent, and what
\* has been written for a transfer never shrinks.
FramesAreHonest ==
  \A m \in net :
    /\ m.xferId \in 1 .. started
    /\ m.type = "DATA" => /\ m.arg < TotalChunks
                          /\ Busy /\ m.xferId = tx.xferId => m.arg < tx.highWater
    /\ m.type = "DATA_ACK" => m.arg < got[m.xferId]
    /\ m.type = "DATA_NAK" => m.arg <= got[m.xferId]

\* Chunks flow only once the padawan has accepted the BEGIN of their transfer,
\* and the padawan then has no other transfer open.
HandshakeFirst ==
  /\ \A m \in net : m.type = "BEGIN_ACK" => m.arg = 0 /\ m.xferId <= newest
  /\ \A m \in net : m.type = "DATA" => BeginAckFrame(m.xferId) \in net
  /\ tx.status = "STREAMING" => BeginAckFrame(tx.xferId) \in net
  /\ rx.active /\ BeginAckFrame(newest) \in net => rx.xferId = newest

\* What the master believes, what the padawan did and what was ever sent.
Progress ==
  /\ Busy => tx.confirmed <= got[tx.xferId] /\ got[tx.xferId] <= tx.highWater
  /\ rx.active => rx.next <= got[rx.xferId]

\* The conjunction, inductive: each part needs the others.
TransferInvariant ==
  /\ TypeOK /\ CursorsOrdered /\ WindowRespected /\ CompletionIsEarned
  /\ Identities
  /\ FramesAreHonest
  /\ HandshakeFirst
  /\ Progress
  /\ FlashIsPrefix
=============
