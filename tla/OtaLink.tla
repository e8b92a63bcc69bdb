------------------------------ MODULE OtaLink ------------------------------
(***************************************************************************)
(* The queues between the firmware forwarder on the master and the         *)
(* firmware writers on the padawans.                                       *)
(*                                                                         *)
(*   fq       otaForwarderQueue: padawan replies put there by              *)
(*            routeOtaAckNakToForwarder and the sentinels posted by the    *)
(*            forwarder's own timers                                       *)
(*   down[p]  the frames on their way to padawan p: the radio and p's      *)
(*            otaWriterQueue, one FIFO since nothing else reads them       *)
(*   localReq the LOCAL_FLASH_REQ messages the master's own writer has not *)
(*            answered yet                                                 *)
(*                                                                         *)
(* The timers' periodic TICKs are not queued here: handling a late tick is *)
(* the same as handling one that has just fired.                           *)
(***************************************************************************)
EXTENDS Integers, Sequences

CONSTANTS
  Padawans,            \* the registered peers
  QueueLength,         \* slots of otaForwarderQueue
  WriterQueueLength    \* slots of a padawan's otaWriterQueue

ASSUME LinkAssumption == QueueLength \in Nat \ {0} /\ WriterQueueLength \in Nat \ {0}

VARIABLES fq, down, localReq

\* No real transfer has the id 255.
TimeoutId == 255

\* seq is the chunk of a DATA frame and the chunk count in a BEGIN or END.
Frame(type, x, seq) == [type |-> type, xferId |-> x, seq |-> seq]

\* arg is a sequence number, a status (0 is OK) or a NAK reason.  A sentinel has
\* no sender; its arg is history, the order-list position it was posted for.
Msg(kind, from, x, arg) == [kind |-> kind, from |-> from, xferId |-> x, arg |-> arg]

\* xQueueSend without waiting: a message that finds the queue full is dropped.
Post(q, m) == IF Len(q) < QueueLength THEN Append(q, m) ELSE q

\* Frames for a padawan whose queue is full are dropped.
Deliver(queue, frames) ==
  LET all == queue \o frames IN
  SubSeq(all, 1, IF Len(all) < WriterQueueLength THEN Len(all) ELSE WriterQueueLength)

LinkInit ==
  /\ fq = <<>>
  /\ down = [p \in Padawans |-> <<>>]
  /\ localReq = 0
=============================================================================
