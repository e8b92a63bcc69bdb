----------------------------- MODULE OtaDeploy -----------------------------
(***************************************************************************)
(* A firmware deploy end to end: the forwarder on the master, a writer on  *)
(* every padawan, the master's own writer, the polls that tell the master  *)
(* what a padawan runs, and the operator who asks for deploys.             *)
(*                                                                         *)
(* Each chip interleaves with the others, frames and replies may be lost,  *)
(* and a padawan may lose power.  When Patient is set a deadline is only   *)
(* reached once nothing else can happen, which is how the firmware's times *)
(* are chosen (milliseconds for a frame, seconds for a deadline); without  *)
(* it every deadline races the answer it waits for.                        *)
(***************************************************************************)
EXTENDS OtaForwarder, OtaWriter

CONSTANTS
  Agendas,      \* what an operator may ask for: the order list of each deploy in turn
  MaxLosses,    \* bound: frames, replies and polls lost
  MaxCrashes,   \* bound: padawans that lose power
  MaxBacklog,   \* bound: frames and replies under way when an ack timeout passes
  Patient

ASSUME DeployAssumption ==
  /\ Agendas \subseteq Seq(Seq(Padawans \cup {Master}))
  /\ MaxLosses \in Nat /\ MaxCrashes \in Nat /\ MaxBacklog \in Nat
  /\ Patient \in BOOLEAN

VARIABLES
  agenda,   \* the order lists the operator will ask for
  asked,    \* how many of them have been asked for
  losses,
  crashes,
  pollDue,  \* the polling timer has found the wire free, and the poll is still to be sent
  strays,   \* history: polls sent since the wire was taken
  unheard   \* history: the sentinel of the wait under way met a full queue

bounds == <<agenda, asked, losses, crashes>>
history == <<strays, unheard>>
vars == <<forwarderVars, fq, down, localReq, pad, masterBoot, bounds, pollDue, history>>

Init ==
  /\ LinkInit /\ ForwarderInit /\ WriterInit
  /\ agenda \in Agendas /\ asked = 0 /\ losses = 0 /\ crashes = 0
  /\ pollDue = FALSE /\ strays = 0 /\ unheard = FALSE

\* What a step of the forwarder leaves of the history.
Recorded ==
  /\ strays' = IF wireBusy' THEN strays ELSE 0
  /\ unheard' = (unheard /\ UNCHANGED <<phase, nextOrderIdx>>)
  /\ UNCHANGED pollDue

-----------------------------------------------------------------------------
Ask ==
  /\ asked < Len(agenda)
  /\ asked' = asked + 1
  /\ HandleDeployBegin(agenda[asked'])
  /\ Recorded
  /\ UNCHANGED <<pad, masterBoot, agenda, losses, crashes>>

Forward == HandleMessage /\ Recorded /\ UNCHANGED <<pad, masterBoot, bounds>>

\* Nothing is on its way and every writer is idle.
Quiet ==
  /\ fq = <<>> /\ localReq = 0
  /\ \A p \in Padawans : down[p] = <<>> /\ pad[p].mode = "up" /\ ~pad[p].fired

InTime == Patient => Quiet

\* A tick that only drains is prompt; one that finds slots overdue is late.
TickStep ==
  /\ \/ HandleTick({})
     \/ /\ InTime
        /\ \E E \in SUBSET tx.inFlight \ {{}} : HandleTick(E)
        /\ Len(fq) + Len(down[Current]) <= MaxBacklog
  /\ Recorded
  /\ UNCHANGED <<pad, masterBoot, bounds>>

\* The polling timer looks at the flag and leaves the poll to the ESP-NOW task;
\* the next one is four seconds away.
PollingTimerFires ==
  /\ ~wireBusy /\ ~pollDue
  /\ pollDue' = TRUE
  /\ UNCHANGED <<forwarderVars, fq, down, localReq, pad, masterBoot, bounds, history>>

\* A padawan answers also in the 200 ms between its flash result and its restart.
Answer == [image |-> pad[Current].image, fresh |-> pad[Current].fresh]

\* The poll and its answer, which only the wait for the version looks at; the
\* wire may have been taken since the timer fired.
Poll ==
  /\ pollDue
  /\ pollDue' = FALSE
  /\ heard' = IF phase = "AWAITING_VERSION_CONFIRMED" THEN Answer ELSE heard
  /\ strays' = IF wireBusy THEN strays + 1 ELSE strays
  /\ UNCHANGED <<deploy, phase, tx, timers, wireBusy, reports,
                 fq, down, localReq, pad, masterBoot, bounds, unheard>>

ConfirmVersion == CheckPeerVersion /\ Recorded /\ UNCHANGED <<pad, masterBoot, bounds>>

\* A one-shot timer posts its sentinel without waiting; one that meets a full
\* queue is dropped, and nothing posts it again.
DeadlinePasses(t) ==
  /\ InTime
  /\ TimerFires(t)
  /\ Patient /\ t = "versionConfirm" => Answer = heard /\ ~VersionConfirmed
  /\ unheard' = (unheard \/ Len(fq) = QueueLength)
  /\ UNCHANGED <<pad, masterBoot, bounds, pollDue, strays>>

Write(p) == WriterStep(p) /\ UNCHANGED <<forwarderVars, bounds, pollDue, history>>

\* Ten seconds without a message for p.
WriterGoesIdle(p) ==
  /\ InTime
  /\ WatchdogFires(p)
  /\ UNCHANGED <<forwarderVars, bounds, pollDue, history>>

MasterWrite == LocalFlash /\ UNCHANGED <<forwarderVars, bounds, pollDue, history>>

-----------------------------------------------------------------------------
(* Failures of the world.                                                   *)

LoseFrame(p) ==
  /\ losses < MaxLosses
  /\ down[p] # <<>>
  /\ down' = [down EXCEPT ![p] = Tail(@)]
  /\ losses' = losses + 1
  /\ UNCHANGED <<forwarderVars, fq, localReq, pad, masterBoot, agenda, asked, crashes,
                 pollDue, history>>

LoseReply ==
  /\ losses < MaxLosses
  /\ fq # <<>> /\ Taken.from \in Padawans
  /\ fq' = Left
  /\ losses' = losses + 1
  /\ UNCHANGED <<forwarderVars, down, localReq, pad, masterBoot, agenda, asked, crashes,
                 pollDue, history>>

Crash(p) ==
  /\ crashes < MaxCrashes
  /\ pad[p].mode # "restarting"
  /\ crashes' = crashes + 1
  /\ Becomes(p, Booted(pad[p].boot))
  /\ down' = [down EXCEPT ![p] = <<>>]
  /\ UNCHANGED <<forwarderVars, fq, localReq, masterBoot, agenda, asked, losses,
                 pollDue, history>>

System ==
  \/ Forward \/ TickStep \/ PollingTimerFires \/ Poll \/ ConfirmVersion \/ MasterWrite
  \/ \E t \in Timer : DeadlinePasses(t)
  \/ \E p \in Padawans : Write(p) \/ WriterGoesIdle(p)

World ==
  \/ Ask \/ LoseReply
  \/ \E p \in Padawans : LoseFrame(p) \/ Crash(p)

Next == System \/ World

Spec == Init /\ [][Next]_vars

\* Every task is scheduled and every timer fires; nothing obliges the operator
\* to ask or the world to fail.
FairSpec ==
  /\ Spec
  /\ WF_vars(Forward) /\ WF_vars(TickStep) /\ WF_vars(ConfirmVersion) /\ WF_vars(MasterWrite)
  /\ WF_vars(PollingTimerFires) /\ WF_vars(Poll)
  /\ \A t \in Timer : WF_vars(DeadlinePasses(t))
  /\ \A p \in Padawans : WF_vars(Write(p)) /\ WF_vars(WriterGoesIdle(p))

-----------------------------------------------------------------------------
Reason ==
  {"", "forwarder_busy", "order_list_too_large", "empty_order_list",
   "setup_failed", "no_firmware", "firmware_read", "begin_ack_timeout", "begin_nak",
   "data_retry_exceeded", "end_ack_timeout", "write_error", "premature_end_ack",
   "end_ack_rejected", "flash_failed", "flash_result_timeout", "version_unconfirmed",
   "self_flash_setup", "self_flash_timeout", "awaiting_post_reboot_version"}

RowType == [id : Padawans \cup {Master, "unknown"}, status : {"OK", "FAILED", "PENDING"},
            reason : Reason]

\* Type invariant.
TypeOK ==
  /\ phase \in Phase
  /\ SenderTypeOK
  /\ orderList \in Seq(Padawans \cup {Master})
  /\ nextOrderIdx \in 0 .. Len(orderList) + 1
  /\ masterRow \in 0 .. Len(orderList)
  /\ \A i \in DOMAIN results : results[i] \in RowType
  /\ timers \subseteq Timer
  /\ wireBusy \in BOOLEAN
  /\ heard \in [image : Image \cup {"none"}, fresh : BOOLEAN]
  /\ localReq \in Nat
  /\ Len(fq) <= QueueLength
  /\ pad \in [Padawans -> PadType]
  /\ masterBoot \in Image
  /\ pollDue \in BOOLEAN
  /\ strays \in Nat
  /\ unheard \in BOOLEAN

Ids(rows) == [i \in DOMAIN rows |-> rows[i].id]

\* The report of a deploy has one row per entry of its order list, in the
\* order the operator gave, wherever the master stands in the list and
\* whichever padawans failed at whichever step.
ReportMatchesOrder ==
  \A i \in DOMAIN reports :
    reports[i].order # <<>> => Ids(reports[i].rows) = reports[i].order

\* Every deploy asked for is answered by exactly one report: a busy forwarder
\* answers the second request without giving up or repeating the first.
OneReportPerDeploy ==
  Len(reports) + (IF phase = "IDLE" THEN 0 ELSE 1) = asked

\* A padawan reported OK runs the image of the deploy, and a master reported
\* PENDING will boot it: no stale poll answer, late result or interrupted flash
\* passes for an update.
SuccessIsReal ==
  \A i \in DOMAIN reports : \A j \in DOMAIN reports[i].rows :
    LET row == reports[i].rows[j] IN
    /\ row.status = "OK" => row.id \in Padawans /\ pad[row.id].image = "new"
    /\ row.status = "PENDING" => row.id = Master /\ masterBoot = "new"

WaitTimer ==
  [AWAITING_BEGIN_ACK |-> "beginAck", AWAITING_END_ACK |-> "endAck",
   AWAITING_FLASH_RESULT |-> "flashResult", AWAITING_VERSION_CONFIRMED |-> "versionConfirm",
   MASTER_SELF_FLASHING |-> "masterSelfFlash"]

\* While the forwarder waits for an answer the deadline of that very wait is
\* running or its sentinel is in the queue, however the deadline, the answer and
\* the answers of earlier waits cross: the one way to wait without a deadline is
\* that it passed while the queue was full.
WaitIsBounded ==
  phase \in DOMAIN WaitTimer =>
    \/ WaitTimer[phase] \in timers
    \/ \E i \in DOMAIN fq : fq[i].kind = SentinelKind[WaitTimer[phase]] /\ fq[i].from = Master
    \/ unheard

\* No deadline outlives its wait: a timer still running when the forwarder has
\* moved on would end another padawan's wait.
NoStrayTimer ==
  timers \ {"tick"} \subseteq (IF phase \in DOMAIN WaitTimer THEN {WaitTimer[phase]} ELSE {})

\* Polls are suspended for the whole transfer and resumed for the wait that needs
\* them; a deploy takes the wire as it is accepted, even if only the master is to
\* be flashed.  Until the wire is free again no poll gets out but the one whose
\* timer looked just before it was taken.
PollsYieldToTransfer ==
  /\ phase \in {"AWAITING_BEGIN_ACK", "STREAMING", "AWAITING_END_ACK", "AWAITING_FLASH_RESULT"}
       => wireBusy
  /\ phase \in {"IDLE", "AWAITING_VERSION_CONFIRMED"} => ~wireBusy
  /\ phase = "MASTER_SELF_FLASHING" /\ (\A i \in DOMAIN orderList : orderList[i] = Master)
       => wireBusy
  /\ strays <= 1

\* The padawan refuses a chunk of the stream.
Refused == phase = "STREAMING" /\ fq # <<>> /\ Taken.kind = "DATA_NAK" /\ FromCurrent(Taken)

\* Every deploy ends with a report, whatever a lost frame, a timeout, a failed
\* step or a power cut does to it, unless a padawan refuses its stream for ever:
\* STREAMING has no deadline of its own, and each refusal empties the slots whose
\* retries would end it.
DeployEnds ==
  []<>(phase = "IDLE") \/ (<>[](phase = "STREAMING") /\ []<>Refused)

-----------------------------------------------------------------------------
(* What comments of the source say of a deploy and the code does not keep.  *)

NoRowSays(reason) ==
  \A i \in DOMAIN reports : \A j \in DOMAIN reports[i].rows :
    reports[i].rows[j].reason # reason

\* "The dropped ACK/NAK will be reconstructed by the next padawan retransmit or
\* tick": losing one reply, with retries to spare, does not exhaust the retries.
LostReplyIsReconstructed == NoRowSays("data_retry_exceeded")

\* "A misbehaving caller or peer gets PREMATURE": the forwarder and a writer that
\* follow the protocol never meet it.
PrematureIsMisuse == NoRowSays("premature_end_ack")
=============================================================================
