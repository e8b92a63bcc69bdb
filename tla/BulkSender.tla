----------------------------- MODULE BulkSender -----------------------------
(***************************************************************************)
(* The sliding-window sender of lib_native/AstrOsBulkTransport, the pure   *)
(* state machine OtaForwarder drives once per padawan.                     *)
(*                                                                         *)
(* The sender's state is one record, tx.  Each method of the class is an   *)
(* operator from a sender record to a sender record, so that a handler     *)
(* that calls several of them can compose them, and an action on tx.       *)
(*                                                                         *)
(*   confirmed  folds anyConfirmed_ and highestConfirmedSeq_ into a count: *)
(*              0 when nothing is confirmed, highestConfirmedSeq_ + 1 else *)
(*   inFlight   the occupied rows of inFlight_, without their timestamps:  *)
(*              which rows have timed out is the argument of Tick          *)
(*                                                                         *)
(* The specification at the end runs the sender against a peer that may    *)
(* quote any transfer id and any sequence number at any time.              *)
(***************************************************************************)
EXTENDS Integers, FiniteSets

CONSTANTS
  MAX_WINDOW_SIZE,  \* rows of the in-flight table
  XferIds,          \* transfer ids begin() is given and a peer quotes
  Totals,           \* chunk counts begin() is given
  Windows,          \* window sizes begin() is given
  Retries,          \* retry limits begin() is given
  PeerSeqs          \* sequence numbers a peer quotes

ASSUME SenderAssumption ==
  /\ MAX_WINDOW_SIZE \in Nat
  /\ XferIds \subseteq Nat
  /\ Totals \subseteq Nat
  /\ Windows \subseteq Nat
  /\ Retries \subseteq Nat
  /\ PeerSeqs \subseteq Nat

VARIABLE tx

SenderStatus == {"IDLE", "AWAITING_BEGIN_ACK", "STREAMING", "DONE_OK", "ABANDONED"}
EndStatus == {"OK", "HASH_MISMATCH", "WRITE_ERROR"}
Slot == [seq : Nat, retryCount : Nat]

IdleSender ==
  [status |-> "IDLE", xferId |-> 0, total |-> 0, window |-> 0, maxRetries |-> 0,
   next |-> 0, highWater |-> 0, confirmed |-> 0, inFlight |-> {}]

-----------------------------------------------------------------------------
(* The methods, as operators on a sender record s.                         *)

\* Illegal parameters leave the sender idle.
BeginSender(x, n, w, r) ==
  IF n = 0 \/ w = 0 \/ w > MAX_WINDOW_SIZE \/ r = 0
  THEN IdleSender
  ELSE [IdleSender EXCEPT !.status = "AWAITING_BEGIN_ACK", !.xferId = x,
                          !.total = n, !.window = w, !.maxRetries = r]

AfterBeginAck(s, x) ==
  IF s.status = "AWAITING_BEGIN_ACK" /\ x = s.xferId
  THEN [s EXCEPT !.status = "STREAMING"]
  ELSE s

\* Mutant: one slot too many.
CanSendPastWindow(s) ==
  /\ s.status = "STREAMING"
  /\ s.next < s.total
  /\ Cardinality(s.inFlight) <= s.window

CanSend(s) ==
  /\ s.status = "STREAMING"
  /\ s.next < s.total
  /\ Cardinality(s.inFlight) < s.window

AfterSend(s) ==
  [s EXCEPT !.inFlight = @ \cup {[seq |-> s.next, retryCount |-> 0]},
            !.next = @ + 1,
            !.highWater = IF s.next + 1 > @ THEN s.next + 1 ELSE @]

\* Mutant: an acknowledgement is only held against the size of the file.
AckDecisionUnsent(s, x, q) ==
  IF s.status # "STREAMING" THEN "NOT_STREAMING"
  ELSE IF x # s.xferId THEN "WRONG_XFER_ID"
  ELSE IF q >= s.total THEN "OUT_OF_RANGE"
  ELSE IF q < s.confirmed THEN "STALE"
  ELSE "OK"

\* Mutant: a stale acknowledgement is taken for a fresh one.
AckDecisionNoStale(s, x, q) ==
  IF s.status # "STREAMING" THEN "NOT_STREAMING"
  ELSE IF x # s.xferId THEN "WRONG_XFER_ID"
  ELSE IF q >= s.total \/ q >= s.highWater THEN "OUT_OF_RANGE"
  ELSE "OK"

\* Mutant: the transfer id is not compared.
AckDecisionAnyXfer(s, x, q) ==
  IF s.status # "STREAMING" THEN "NOT_STREAMING"
  ELSE IF q >= s.total \/ q >= s.highWater THEN "OUT_OF_RANGE"
  ELSE IF q < s.confirmed THEN "STALE"
  ELSE "OK"

AckDecision(s, x, q) ==
  IF s.status # "STREAMING" THEN "NOT_STREAMING"
  ELSE IF x # s.xferId THEN "WRONG_XFER_ID"
  ELSE IF q >= s.total \/ q >= s.highWater THEN "OUT_OF_RANGE"
  ELSE IF q < s.confirmed THEN "STALE"
  ELSE "OK"

AfterAck(s, x, q) ==
  IF AckDecision(s, x, q) = "OK"
  THEN [s EXCEPT !.confirmed = q + 1,
                 !.inFlight = {e \in @ : e.seq > q}]
  ELSE s

\* Mutant: a negative acknowledgement may name a chunk not yet handed out.
NakDecisionAhead(s, x, q) ==
  IF s.status # "STREAMING" THEN "NOT_STREAMING"
  ELSE IF x # s.xferId THEN "WRONG_XFER_ID"
  ELSE IF q >= s.total THEN "OUT_OF_RANGE"
  ELSE "OK"

NakDecision(s, x, q) ==
  IF s.status # "STREAMING" THEN "NOT_STREAMING"
  ELSE IF x # s.xferId THEN "WRONG_XFER_ID"
  ELSE IF q >= s.total \/ q > s.next THEN "OUT_OF_RANGE"
  ELSE "OK"

\* Mutant: the cursor is rewound to the last good chunk, not the one after it.
AfterNakOneTooFar(s, x, q) ==
  IF NakDecision(s, x, q) = "OK"
  THEN [s EXCEPT !.confirmed = IF q > @ THEN q ELSE @,
                 !.next = q - 1,
                 !.inFlight = {}]
  ELSE s

\* Mutant: the highest chunk handed out is rewound with the cursor.
AfterNakRewindsHighWater(s, x, q) ==
  IF NakDecision(s, x, q) = "OK"
  THEN [s EXCEPT !.confirmed = IF q > @ THEN q ELSE @,
                 !.next = q,
                 !.highWater = IF q > s.confirmed THEN q ELSE s.confirmed,
                 !.inFlight = {}]
  ELSE s

\* A negative acknowledgement of q confirms the q chunks before it, rewinds
\* the send cursor to q and frees every slot.
AfterNak(s, x, q) ==
  IF NakDecision(s, x, q) = "OK"
  THEN [s EXCEPT !.confirmed = IF q > @ THEN q ELSE @,
                 !.next = q,
                 !.inFlight = {}]
  ELSE s

\* E is the set of slots whose acknowledgement timeout has passed.
Exhausted(s, E) == \E e \in E : e.retryCount + 1 > s.maxRetries

AfterTick(s, E) ==
  IF s.status # "STREAMING" THEN s
  ELSE IF Exhausted(s, E) THEN [s EXCEPT !.status = "ABANDONED"]
  ELSE [s EXCEPT !.inFlight =
          (@ \ E) \cup {[e EXCEPT !.retryCount = @ + 1] : e \in E}]

\* Mutant: completion is not checked against the watermark.
EndAckDecisionUnchecked(s, x, st) ==
  IF s.status # "STREAMING" THEN "NOT_STREAMING"
  ELSE IF x # s.xferId THEN "WRONG_XFER_ID"
  ELSE IF s.next # s.total THEN "PREMATURE"
  ELSE IF st = "OK" THEN "DONE_OK" ELSE "ABANDONED"

\* Mutant: neither the transfer id nor the watermark is checked.
EndAckDecisionBlind(s, x, st) ==
  IF s.status # "STREAMING" THEN "NOT_STREAMING"
  ELSE IF st = "OK" THEN "DONE_OK" ELSE "ABANDONED"

EndAckDecision(s, x, st) ==
  IF s.status # "STREAMING" THEN "NOT_STREAMING"
  ELSE IF x # s.xferId THEN "WRONG_XFER_ID"
  ELSE IF s.next # s.total \/ s.confirmed # s.total THEN "PREMATURE"
  ELSE IF st = "OK" THEN "DONE_OK" ELSE "ABANDONED"

AfterEndAck(s, x, st) ==
  IF EndAckDecision(s, x, st) \in {"DONE_OK", "ABANDONED"}
  THEN [s EXCEPT !.status = EndAckDecision(s, x, st)]
  ELSE s

-----------------------------------------------------------------------------
(* The sender against an arbitrary peer: one action per method.            *)

SenderInit == tx = IdleSender

Begin(x, n, w, r)  == tx' = BeginSender(x, n, w, r)
OnBeginAck(x)      == tx' = AfterBeginAck(tx, x)
NextChunkToSend    == CanSend(tx) /\ tx' = AfterSend(tx)
OnDataAck(x, q)    == tx' = AfterAck(tx, x, q)
OnDataNak(x, q)    == tx' = AfterNak(tx, x, q)
Tick(E)            == tx' = AfterTick(tx, E)
OnEndAck(x, st)    == tx' = AfterEndAck(tx, x, st)
Reset              == tx' = IdleSender

SenderNext ==
  \/ \E x \in XferIds, n \in Totals, w \in Windows, r \in Retries : Begin(x, n, w, r)
  \/ \E x \in XferIds : OnBeginAck(x)
  \/ NextChunkToSend
  \/ \E x \in XferIds, q \in PeerSeqs : OnDataAck(x, q)
  \/ \E x \in XferIds, q \in PeerSeqs : OnDataNak(x, q)
  \/ \E E \in SUBSET tx.inFlight : Tick(E)
  \/ \E x \in XferIds, st \in EndStatus : OnEndAck(x, st)
  \/ Reset

SenderSpec == SenderInit /\ [][SenderNext]_tx

-----------------------------------------------------------------------------
(* What the sender guarantees whatever the peer says.                      *)

\* The sender record of AstrOsBulkTransport.
SenderType(s) ==
  s \in [status : SenderStatus, xferId : Nat, total : Nat, window : Nat,
         maxRetries : Nat, next : Nat, highWater : Nat, confirmed : Nat,
         inFlight : SUBSET Slot]

Cursors(s) ==
  /\ s.confirmed <= s.highWater
  /\ s.next <= s.highWater
  /\ s.highWater <= s.total
  /\ \A e \in s.inFlight : e.seq < s.next /\ e.retryCount <= s.maxRetries

SlotTable(s) ==
  /\ IsFiniteSet(s.inFlight)
  /\ Cardinality(s.inFlight) <= s.window
  /\ s.window <= MAX_WINDOW_SIZE
  /\ \A d, e \in s.inFlight : d.seq = e.seq => d = e

\* Type invariant.
SenderTypeOK == SenderType(tx)

\* The three cursors stay ordered: nothing is confirmed that was never handed
\* out, nothing is handed out past the file, every occupied slot is behind the
\* send cursor and has been retried at most maxRetries times.
CursorsOrdered == Cursors(tx)

\* A chunk occupies at most one slot and the table never exceeds the window,
\* which is at most MAX_WINDOW_SIZE: nextChunkToSend cannot reach the abort()
\* at its end for want of a free row.
WindowRespected == SlotTable(tx)

\* DONE_OK is only reached with every chunk sent and confirmed, however early
\* or often the peer sends its OTA_END_ACK.
CompletionIsEarned ==
  tx.status = "DONE_OK" => tx.next = tx.total /\ tx.confirmed = tx.total

\* Within a transfer the watermarks never move back and the send cursor moves
\* forward by one chunk at a time: no acknowledgement, stale or invented, makes
\* the sender forget a confirmation or skip a chunk it never handed out.
CursorsNeverSkip ==
  [][tx.status = "STREAMING" /\ tx'.status = "STREAMING" =>
       /\ tx'.confirmed >= tx.confirmed
       /\ tx'.highWater >= tx.highWater
       /\ tx'.next <= tx.next + 1]_tx
=============================================================================
