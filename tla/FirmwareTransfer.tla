-------------------------- MODULE FirmwareTransfer --------------------------
(***************************************************************************)
(* What one padawan's firmware transfer promises the operator, without     *)
(* frames, windows, acknowledgements or retries: chunks are written one by *)
(* one, the master learns of a prefix of what was written, and a transfer  *)
(* is done only once all of it was written and the master knows.           *)
(***************************************************************************)
EXTENDS Integers

CONSTANT TotalChunks   \* chunks of the image

VARIABLES
  outcome,   \* "idle", "running", "done" or "failed"
  written,   \* the most chunks the padawan has written in this transfer
  known      \* the chunks the master knows to be written

vars == <<outcome, written, known>>

Init == outcome = "idle" /\ written = 0 /\ known = 0

Start ==
  /\ outcome # "running"
  /\ outcome' = "running"
  /\ written' = 0
  /\ known' = 0

\* The padawan may go on writing after the master has given its verdict.
Write ==
  /\ outcome # "idle"
  /\ written < TotalChunks
  /\ written' = written + 1
  /\ UNCHANGED <<outcome, known>>

Learn(k) ==
  /\ outcome = "running"
  /\ k \in known + 1 .. written
  /\ known' = k
  /\ UNCHANGED <<outcome, written>>

Complete ==
  /\ outcome = "running"
  /\ known = TotalChunks
  /\ outcome' = "done"
  /\ UNCHANGED <<written, known>>

Fail ==
  /\ outcome = "running"
  /\ outcome' = "failed"
  /\ UNCHANGED <<written, known>>

Forget ==
  /\ outcome' = "idle"
  /\ written' = 0
  /\ known' = 0

Next ==
  \/ Start
  \/ Write
  \/ \E k \in 1 .. TotalChunks : Learn(k)
  \/ Complete
  \/ Fail
  \/ Forget

Spec == Init /\ [][Next]_vars
=============================================================================
