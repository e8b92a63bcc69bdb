---------------------------- MODULE BulkReceiver ----------------------------
(***************************************************************************)
(* The in-order chunk receiver of lib_native/AstrOsBulkTransport, driven   *)
(* by OtaWriter on a padawan and by OtaReceiver on the serial upload path. *)
(*                                                                         *)
(* A receiver record rx holds active, xferId, the chunk count total and    *)
(* nextSeq, written next.  Sizes are abstracted: whether a chunk has the   *)
(* length and the checksum the grid calls for is the argument intact, and  *)
(* whether begin()'s sizes are consistent the argument legal.              *)
(***************************************************************************)
EXTENDS Integers

IdleReceiver == [active |-> FALSE, xferId |-> 0, total |-> 0, next |-> 0]

BeginReceiver(x, n, legal) ==
  IF n = 0 \/ ~legal
  THEN IdleReceiver
  ELSE [active |-> TRUE, xferId |-> x, total |-> n, next |-> 0]

\* Mutant: a chunk ahead of the expected one is committed in its place.
AcceptsAhead(r, x, q, intact) ==
  r.active /\ x = r.xferId /\ q >= r.next /\ q < r.total /\ intact

\* onChunk commits exactly the next chunk of its own transfer.
Accepts(r, x, q, intact) ==
  r.active /\ x = r.xferId /\ q = r.next /\ q < r.total /\ intact

AfterChunk(r, x, q, intact) ==
  IF Accepts(r, x, q, intact) THEN [r EXCEPT !.next = @ + 1] ELSE r

\* Why a rejected chunk is rejected.  A receiver that is not active answers
\* OUT_OF_ORDER with next 0 and window 0.
NakReason(r, x, q) ==
  IF ~r.active \/ x # r.xferId \/ q # r.next \/ q >= r.total
  THEN "OUT_OF_ORDER"
  ELSE "CRC"

\* Mutant: onEnd trusts the sender's chunk count.
EndResultTrusting(r, x, n) ==
  IF ~r.active THEN "NOT_ACTIVE"
  ELSE IF x # r.xferId THEN "WRONG_XFER_ID"
  ELSE IF n # r.total THEN "SENDER_TOTAL_MISMATCH"
  ELSE "OK"

EndResult(r, x, n) ==
  IF ~r.active THEN "NOT_ACTIVE"
  ELSE IF x # r.xferId THEN "WRONG_XFER_ID"
  ELSE IF n # r.total THEN "SENDER_TOTAL_MISMATCH"
  ELSE IF r.next # r.total THEN "RECEIVER_SHORT_COUNT"
  ELSE "OK"

\* shouldTeardownOnEndResult: a stray END leaves a live transfer alone.
TearsDown(res) == res \in {"OK", "SENDER_TOTAL_MISMATCH", "RECEIVER_SHORT_COUNT"}
=============================================================================
