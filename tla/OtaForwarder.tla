---------------------------- MODULE OtaForwarder ----------------------------
(***************************************************************************)
(* lib/OtaForwarder, the task on the master that walks the order list of a *)
(* FW_DEPLOY_BEGIN: it streams the staged image to one padawan after the   *)
(* other, waits for each to flash, reboot and report the new version,      *)
(* flashes the master last, and sends one FW_DEPLOY_DONE with a row per    *)
(* controller.                                                             *)
(*                                                                         *)
(* The variables are the class's members: tx is bulk_, and masterRow folds *)
(* masterRowDeferred_ and masterRowOriginalIndex_ into the 1-based index   *)
(* of the deferred master row, 0 when there is none.  nextOrderIdx is      *)
(* 1-based too, so that it equals the transfer id.  reports is history:    *)
(* the FW_DEPLOY_DONE messages sent, each with the order list it answers.  *)
(*                                                                         *)
(* Every operation on files is a choice between success and the failure    *)
(* row it leads to; Faults says which failures a run considers.            *)
(***************************************************************************)
EXTENDS OtaLink, BulkSender, FiniteSetsExt

CONSTANTS
  Master,            \* the all-zero id that stands for the master in an order list
  TotalChunks,       \* chunks of the staged image
  WindowSize,        \* kWindowSize
  MaxRetries,        \* kMaxRetries
  MaxOrderListSize,  \* kMaxOrderListSize
  SameVersion,       \* the staged image reports the version that is running
  Faults             \* subset of FaultKinds

FaultKinds == {"setup", "unstaged", "read", "send", "txFull"}

ASSUME ForwarderAssumption ==
  /\ Master \notin Padawans
  /\ TotalChunks \in Nat \ {0}
  /\ WindowSize \in 1 .. MAX_WINDOW_SIZE
  /\ MaxRetries \in Nat \ {0}
  /\ MaxOrderListSize \in 1 .. TimeoutId - 2
  /\ SameVersion \in BOOLEAN
  /\ Faults \subseteq FaultKinds

VARIABLES
  phase, orderList, nextOrderIdx, results, masterRow,
  timers,     \* the running timers
  wireBusy,   \* polls are suspended while it is set
  heard,      \* the current padawan's last POLL_ACK since its flash result
  reports

deploy == <<orderList, nextOrderIdx, results, masterRow>>
forwarderVars == <<deploy, phase, tx, timers, wireBusy, heard, reports>>

Phase == {"IDLE", "AWAITING_BEGIN_ACK", "STREAMING", "AWAITING_END_ACK",
          "AWAITING_FLASH_RESULT", "AWAITING_VERSION_CONFIRMED", "MASTER_SELF_FLASHING"}
Timer == {"beginAck", "tick", "endAck", "flashResult", "versionConfirm", "masterSelfFlash"}

Row(id, status, reason) == [id |-> id, status |-> status, reason |-> reason]
Failed(ids, reason) == [i \in DOMAIN ids |-> Row(ids[i], "FAILED", reason)]

NotHeard == [image |-> "none", fresh |-> FALSE]

ForwarderInit ==
  /\ SenderInit
  /\ phase = "IDLE"
  /\ orderList = <<>> /\ nextOrderIdx = 0 /\ results = <<>> /\ masterRow = 0
  /\ timers = {}
  /\ wireBusy = FALSE
  /\ heard = NotHeard
  /\ reports = <<>>

Current == orderList[nextOrderIdx]

-----------------------------------------------------------------------------
(* Moving through the order list.  q is what is left of the queue and d the *)
(* frames on their way once the handler that calls these has done its part. *)

\* Mutant: the master's row goes last, not where the operator put it.
WithMasterRowAppended(rs, mr, status, reason) == Append(rs, Row(Master, status, reason))

WithMasterRow(rs, mr, status, reason) ==
  LET i == IF mr - 1 < Len(rs) THEN mr - 1 ELSE Len(rs) IN
  SubSeq(rs, 1, i) \o <<Row(Master, status, reason)>> \o SubSeq(rs, i + 1, Len(rs))

\* Mutant: polling stays suspended after a deploy.
FreeWireNever == UNCHANGED wireBusy

FreeWire == wireBusy' = FALSE

EmitDeployDone(o, rs, q, d) ==
  /\ reports' = Append(reports, [order |-> o, rows |-> rs])
  /\ phase' = "IDLE"
  /\ orderList' = <<>> /\ nextOrderIdx' = 0 /\ results' = <<>> /\ masterRow' = 0
  /\ tx' = IdleSender
  /\ timers' = {}
  /\ FreeWire
  /\ fq' = q
  /\ down' = d
  /\ UNCHANGED heard

\* Mutant: the wire is only taken for a padawan.
HoldWireForPadawan == UNCHANGED wireBusy

\* handleDeployBegin takes the wire as it accepts a list; a deploy under way
\* leaves it as the last padawan did.
HoldWire == wireBusy' = (wireBusy \/ phase = "IDLE")

\* The request goes out with its 60 s deadline already running.
StartMasterSelfFlash(o, rs, mr, q, d) ==
  \/ /\ phase' = "MASTER_SELF_FLASHING"
     /\ orderList' = o /\ nextOrderIdx' = Len(o) + 1 /\ results' = rs /\ masterRow' = mr
     /\ tx' = IdleSender
     /\ timers' = {"masterSelfFlash"}
     /\ localReq' = localReq + 1
     /\ fq' = q
     /\ down' = d
     /\ HoldWire
     /\ UNCHANGED <<heard, reports>>
  \/ /\ Faults \cap {"setup", "unstaged"} # {}
     /\ EmitDeployDone(o, WithMasterRow(rs, mr, "FAILED", "self_flash_setup"), q, d)
     /\ UNCHANGED localReq

\* A BEGIN that cannot be sent posts its own timeout at once.
StartPadawan(o, i, rs, mr, q, d) ==
  /\ phase' = "AWAITING_BEGIN_ACK"
  /\ orderList' = o /\ nextOrderIdx' = i /\ results' = rs /\ masterRow' = mr
  /\ tx' = BeginSender(i, TotalChunks, WindowSize, MaxRetries)
  /\ timers' = {"beginAck"}
  /\ wireBusy' = TRUE
  /\ \/ /\ down' = [d EXCEPT ![o[i]] = Deliver(@, <<Frame("BEGIN", i, TotalChunks)>>)]
        /\ fq' = q
     \/ /\ "send" \in Faults
        /\ down' = d
        /\ fq' = Post(q, Msg("BEGIN_NAK", Master, TimeoutId, i))
  /\ UNCHANGED <<heard, localReq, reports>>

\* The numbers of a set in ascending order.
Ascending(S) ==
  CHOOSE f \in [1 .. Cardinality(S) -> S] : \A a, b \in DOMAIN f : a < b => f[a] < f[b]

\* The padawans among o[i .. j].
PadawansIn(o, i, j) ==
  LET at == Ascending({k \in i .. j : o[k] # Master}) IN [n \in DOMAIN at |-> o[at[n]]]

\* The last master entry among o[i .. j], or mr when there is none.
DeferMaster(o, i, j, mr) ==
  LET found == {k \in i .. j : o[k] = Master} IN
  IF found = {} THEN mr ELSE CHOOSE k \in found : \A l \in found : l <= k

\* startNextPadawan from position i: the padawans before j cannot be set up
\* (unknown peer, unreadable file), master entries are put off to the end.
StartNextPadawan(o, i, rs, mr, q, d) ==
  \/ \E j \in i .. Len(o) :
       LET skipped == PadawansIn(o, i, j - 1) IN
       /\ o[j] # Master
       /\ skipped # <<>> => "setup" \in Faults
       /\ \/ StartPadawan(o, j, rs \o Failed(skipped, "setup_failed"),
                          DeferMaster(o, i, j - 1, mr), q, d)
          \/ /\ "unstaged" \in Faults
             /\ EmitDeployDone(o, rs \o Failed(skipped, "setup_failed")
                                     \o Failed(SubSeq(o, j, Len(o)), "no_firmware"), q, d)
             /\ UNCHANGED localReq
  \/ LET skipped == PadawansIn(o, i, Len(o))
         deferred == DeferMaster(o, i, Len(o), mr)
         rows == rs \o Failed(skipped, "setup_failed") IN
     /\ skipped # <<>> => "setup" \in Faults
     /\ IF deferred # 0
        THEN StartMasterSelfFlash(o, rows, deferred, q, d)
        ELSE EmitDeployDone(o, rows, q, d) /\ UNCHANGED localReq

\* finishCurrentPadawanAndAdvance with the current padawan's row.
Finish(status, reason, q, d) ==
  StartNextPadawan(orderList, nextOrderIdx + 1,
                   Append(results, Row(Current, status, reason)), masterRow, q, d)

Abort(reason, q, d) == Finish("FAILED", reason, q, d)

-----------------------------------------------------------------------------
(* Sending.                                                                 *)

\* The chunks streamDrain can hand out before the window or the file ends.
Room(s) ==
  IF CanSend(s) THEN Min({s.window - Cardinality(s.inFlight), s.total - s.next}) ELSE 0

\* AfterSend, k times.
Sent(s, k) ==
  [s EXCEPT !.inFlight = @ \cup {[seq |-> q, retryCount |-> 0] : q \in s.next .. s.next + k - 1},
            !.next = @ + k,
            !.highWater = IF s.next + k > @ THEN s.next + k ELSE @]

Chunks(s, k) == [i \in 1 .. k |-> Frame("DATA", s.xferId, s.next + i - 1)]

ToCurrent(d, frames) == [d EXCEPT ![Current] = Deliver(@, frames)]

\* streamDrain: until nothing is left to send, ESP-NOW is at its limit, or the
\* file cannot be read.
StreamDrain(s, ph, ts, q, d) ==
  \/ \E k \in 0 .. Room(s) :
       /\ k < Room(s) => "txFull" \in Faults
       /\ tx' = Sent(s, k)
       /\ down' = ToCurrent(d, Chunks(s, k))
       /\ phase' = ph
       /\ timers' = ts
       /\ fq' = q
       /\ UNCHANGED <<deploy, wireBusy, heard, localReq, reports>>
  \/ /\ "read" \in Faults
     /\ \E k \in 0 .. Room(s) - 1 : Abort("firmware_read", q, ToCurrent(d, Chunks(s, k)))

\* OTA_END, or its own timeout when it cannot be sent.
SendEnd(q) ==
  \/ /\ down' = ToCurrent(down, <<Frame("END", tx.xferId, TotalChunks)>>)
     /\ fq' = q
  \/ /\ "send" \in Faults
     /\ fq' = Post(q, Msg("END_ACK", Master, TimeoutId, nextOrderIdx))
     /\ UNCHANGED down

-----------------------------------------------------------------------------
(* The handlers, one per message kind.                                      *)

\* Mutant: a second request replaces the deploy under way.
RefusalUnlessTooLong(o) ==
  IF Len(o) > MaxOrderListSize THEN "order_list_too_large"
  ELSE IF o = <<>> THEN "empty_order_list" ELSE "none"

Refusal(o) ==
  IF phase # "IDLE" THEN "forwarder_busy"
  ELSE IF Len(o) > MaxOrderListSize THEN "order_list_too_large"
  ELSE IF o = <<>> THEN "empty_order_list" ELSE "none"

HandleDeployBegin(o) ==
  IF Refusal(o) = "none"
  THEN StartNextPadawan(o, 1, <<>>, 0, fq, down)
  ELSE /\ reports' = Append(reports, [order |-> o, rows |->
                       IF o = <<>> THEN <<Row("unknown", "FAILED", Refusal(o))>>
                       ELSE Failed(o, Refusal(o))])
       /\ UNCHANGED <<fq, down, phase, deploy, tx, timers, wireBusy, heard, localReq>>

\* The head of the queue, and the queue without it.
Taken == Head(fq)
Left == Tail(fq)

Drop == fq' = Left /\ UNCHANGED <<down, localReq, forwarderVars>>

FromCurrent(m) == m.from = Current

HandleBeginAck ==
  /\ fq # <<>> /\ Taken.kind = "BEGIN_ACK"
  /\ IF /\ phase = "AWAITING_BEGIN_ACK"
        /\ FromCurrent(Taken)
        /\ AfterBeginAck(tx, Taken.xferId).status = "STREAMING"
     THEN StreamDrain(AfterBeginAck(tx, Taken.xferId), "STREAMING", {"tick"}, Left, down)
     ELSE Drop

\* A timeout is told by its id alone, and a refusal by its sender: neither says
\* which transfer it belongs to.
HandleBeginNak ==
  /\ fq # <<>> /\ Taken.kind = "BEGIN_NAK"
  /\ IF phase = "AWAITING_BEGIN_ACK" /\ Taken.xferId = TimeoutId
     THEN Abort("begin_ack_timeout", Left, down)
     ELSE IF phase = "AWAITING_BEGIN_ACK" /\ FromCurrent(Taken)
     THEN Abort("begin_nak", Left, down)
     ELSE Drop

HandleDataAck ==
  /\ fq # <<>> /\ Taken.kind = "DATA_ACK"
  /\ LET x == Taken.xferId
         q == Taken.arg IN
     IF /\ phase \in {"STREAMING", "AWAITING_END_ACK"}
        /\ FromCurrent(Taken)
        /\ AckDecision(tx, x, q) = "OK"
     THEN IF q + 1 >= TotalChunks /\ phase = "STREAMING"
          THEN /\ tx' = AfterAck(tx, x, q)
               /\ phase' = "AWAITING_END_ACK"
               /\ timers' = {"endAck"}
               /\ SendEnd(Left)
               /\ UNCHANGED <<deploy, wireBusy, heard, localReq, reports>>
          ELSE StreamDrain(AfterAck(tx, x, q), phase, timers, Left, down)
     ELSE Drop

HandleDataNak ==
  /\ fq # <<>> /\ Taken.kind = "DATA_NAK"
  /\ IF /\ phase = "STREAMING"
        /\ FromCurrent(Taken)
        /\ NakDecision(tx, Taken.xferId, Taken.arg) = "OK"
     THEN StreamDrain(AfterNak(tx, Taken.xferId, Taken.arg), phase, timers, Left, down)
     ELSE Drop

\* Mutant: the wait for the flash result has no deadline.
AwaitFlashResultUntimed ==
  /\ phase' = "AWAITING_FLASH_RESULT"
  /\ timers' = {}

\* Mutant: the deadline of the OTA_END_ACK is not stopped.
AwaitFlashResultTwoTimers ==
  /\ phase' = "AWAITING_FLASH_RESULT"
  /\ timers' = {"flashResult", "endAck"}

AwaitFlashResult ==
  /\ phase' = "AWAITING_FLASH_RESULT"
  /\ timers' = {"flashResult"}

HandleEndAck ==
  /\ fq # <<>> /\ Taken.kind = "END_ACK"
  /\ LET status == IF Taken.arg = 0 THEN "OK" ELSE "WRITE_ERROR"
         decision == EndAckDecision(tx, Taken.xferId, status) IN
     IF phase # "AWAITING_END_ACK" THEN Drop
     ELSE IF Taken.xferId = TimeoutId THEN Abort("end_ack_timeout", Left, down)
     ELSE IF ~FromCurrent(Taken) THEN Drop
     ELSE IF decision = "DONE_OK"
     THEN /\ tx' = AfterEndAck(tx, Taken.xferId, status)
          /\ AwaitFlashResult
          /\ fq' = Left
          /\ UNCHANGED <<down, deploy, wireBusy, heard, localReq, reports>>
     ELSE Abort(CASE decision = "ABANDONED" -> "write_error"
                  [] decision = "PREMATURE" -> "premature_end_ack"
                  [] OTHER -> "end_ack_rejected", Left, down)

\* handleTick while STREAMING.  E are the slots whose acknowledgement is overdue;
\* their chunks are sent again in the order of the slot table, which is any.
HandleTick(E) ==
  /\ phase = "STREAMING" /\ "tick" \in timers
  /\ E # {} \/ Room(tx) > 0
  /\ IF Exhausted(tx, E)
     THEN Abort("data_retry_exceeded", fq, down)
     ELSE \E s \in [1 .. Cardinality(E) -> {e.seq : e \in E}] :
            LET again == [i \in DOMAIN s |-> Frame("DATA", tx.xferId, s[i])] IN
            /\ \A e \in E : \E i \in DOMAIN s : s[i] = e.seq
            /\ \/ StreamDrain(AfterTick(tx, E), phase, timers, fq, ToCurrent(down, again))
               \/ /\ "read" \in Faults /\ E # {}
                  /\ \E k \in 0 .. Len(again) - 1 :
                       Abort("firmware_read", fq, ToCurrent(down, SubSeq(again, 1, k)))

\* Mutant: the uptime of the padawan is not looked at.
VersionConfirmedUngated == heard # NotHeard /\ (SameVersion \/ heard.image = "new")

\* Mutant: any answer of a restarted padawan will do.
VersionConfirmedAnyVersion == heard # NotHeard /\ heard.fresh

\* The answer to a poll counts once the padawan has booted since the flash
\* result and reports the version of the staged image.
VersionConfirmed == heard # NotHeard /\ heard.fresh /\ (SameVersion \/ heard.image = "new")

\* handleTick while AWAITING_VERSION_CONFIRMED.
CheckPeerVersion ==
  /\ phase = "AWAITING_VERSION_CONFIRMED" /\ "tick" \in timers
  /\ VersionConfirmed
  /\ Finish("OK", "", fq, down)

HandleFlashResult ==
  /\ fq # <<>> /\ Taken.kind = "FLASH_RESULT"
  /\ IF phase = "AWAITING_FLASH_RESULT" /\ Taken.xferId = nextOrderIdx /\ FromCurrent(Taken)
     THEN IF Taken.arg = 0
          THEN /\ phase' = "AWAITING_VERSION_CONFIRMED"
               /\ timers' = {"versionConfirm", "tick"}
               /\ FreeWire
               /\ heard' = NotHeard
               /\ fq' = Left
               /\ UNCHANGED <<down, deploy, tx, localReq, reports>>
          ELSE Abort("flash_failed", Left, down)
     ELSE Drop

HandleFlashResultTimeout ==
  /\ fq # <<>> /\ Taken.kind = "FLASH_RESULT_TIMEOUT"
  /\ IF phase = "AWAITING_FLASH_RESULT" THEN Abort("flash_result_timeout", Left, down) ELSE Drop

HandleVersionConfirmTimeout ==
  /\ fq # <<>> /\ Taken.kind = "VERSION_CONFIRM_TIMEOUT"
  /\ IF phase = "AWAITING_VERSION_CONFIRMED"
     THEN Abort("version_unconfirmed", Left, down) ELSE Drop

FinishMaster(status, reason, q) ==
  EmitDeployDone(orderList, WithMasterRow(results, masterRow, status, reason), q, down)

\* A success reboots the master half a second after the report is out.
HandleLocalFlashResult ==
  /\ fq # <<>> /\ Taken.kind = "LOCAL_FLASH_RESULT"
  /\ IF phase # "MASTER_SELF_FLASHING"
     THEN /\ timers' = timers \ {"masterSelfFlash"}
          /\ fq' = Left
          /\ UNCHANGED <<down, deploy, phase, tx, wireBusy, heard, localReq, reports>>
     ELSE IF Taken.arg = 0
     THEN FinishMaster("PENDING", "awaiting_post_reboot_version", <<>>) /\ localReq' = 0
     ELSE FinishMaster("FAILED", "flash_failed", Left) /\ UNCHANGED localReq

HandleMasterSelfFlashTimeout ==
  /\ fq # <<>> /\ Taken.kind = "MASTER_SELF_FLASH_TIMEOUT"
  /\ IF phase = "MASTER_SELF_FLASHING"
     THEN FinishMaster("FAILED", "self_flash_timeout", Left) /\ UNCHANGED localReq
     ELSE Drop

HandleMessage ==
  \/ HandleBeginAck \/ HandleBeginNak \/ HandleDataAck \/ HandleDataNak \/ HandleEndAck
  \/ HandleFlashResult \/ HandleFlashResultTimeout \/ HandleVersionConfirmTimeout
  \/ HandleLocalFlashResult \/ HandleMasterSelfFlashTimeout

\* A one-shot timer posts its sentinel and is no longer running.
SentinelKind ==
  [beginAck |-> "BEGIN_NAK", endAck |-> "END_ACK", flashResult |-> "FLASH_RESULT_TIMEOUT",
   versionConfirm |-> "VERSION_CONFIRM_TIMEOUT", masterSelfFlash |-> "MASTER_SELF_FLASH_TIMEOUT"]

TimerFires(t) ==
  /\ t \in timers \ {"tick"}
  /\ timers' = timers \ {t}
  /\ fq' = Post(fq, Msg(SentinelKind[t], Master, TimeoutId, nextOrderIdx))
  /\ UNCHANGED <<down, deploy, phase, tx, wireBusy, heard, localReq, reports>>
=============================================================================
