----------------------------- MODULE OtaWriter -----------------------------
(***************************************************************************)
(* lib/OtaWriter on every padawan: it answers OTA_BEGIN, OTA_DATA and      *)
(* OTA_END, writes the chunks to the inactive partition, flips the boot    *)
(* partition and restarts.  On the master the same class flashes the       *)
(* staged file for the forwarder (LocalFlash).                             *)
(*                                                                         *)
(* pad[p] is padawan p: its BulkReceiver rx (active_ is rx.active, and the *)
(* chunks written are rx.next), the image it runs and the one it will boot,*)
(* whether it runs, sleeps before the flip or restarts, its idle watchdog, *)
(* whether a WATCHDOG_FIRE waits in its queue, and whether it has booted   *)
(* since its last flash result.                                            *)
(***************************************************************************)
EXTENDS OtaLink, BulkReceiver

CONSTANTS
  WriterFaults   \* subset of WriterFaultKinds

WriterFaultKinds == {"begin", "write", "corrupt", "verify", "flip", "rollback", "local"}

ASSUME WriterAssumption == WriterFaults \subseteq WriterFaultKinds

VARIABLES
  pad,
  masterBoot   \* the image the master will boot next

Image == {"old", "new"}

PadType ==
  [rx : [active : BOOLEAN, xferId : Nat, total : Nat, next : Nat],
   image : Image, boot : Image, mode : {"up", "flipping", "restarting"},
   watchdog : BOOLEAN, fired : BOOLEAN, fresh : BOOLEAN]

Factory ==
  [rx |-> IdleReceiver, image |-> "old", boot |-> "old", mode |-> "up",
   watchdog |-> FALSE, fired |-> FALSE, fresh |-> FALSE]

WriterInit ==
  /\ pad = [p \in Padawans |-> Factory]
  /\ masterBoot = "old"

\* resetOtaHandleAndSha.  A WATCHDOG_FIRE already in the queue stays there.
Released(w) == [w EXCEPT !.rx = IdleReceiver, !.watchdog = FALSE]

\* The writer reads the next frame of its queue.
Reads(p, type) ==
  /\ pad[p].mode = "up"
  /\ down[p] # <<>>
  /\ Head(down[p]).type = type
  /\ down' = [down EXCEPT ![p] = Tail(@)]
  /\ UNCHANGED <<localReq, masterBoot>>

Becomes(p, w) == pad' = [pad EXCEPT ![p] = w]

Reply(p, kind, x, arg) == fq' = Post(fq, Msg(kind, p, x, arg))

\* BUSY, NO_PARTITION and BEGIN_FAILED only differ in the reason of the NAK.
HandleBegin(p) ==
  LET m == Head(down[p])
      begun == BeginReceiver(m.xferId, m.seq, TRUE) IN
  /\ Reads(p, "BEGIN")
  /\ \/ /\ pad[p].rx.active \/ "begin" \in WriterFaults \/ ~begun.active
        /\ Reply(p, "BEGIN_NAK", m.xferId, 0)
        /\ UNCHANGED pad
     \/ /\ ~pad[p].rx.active /\ begun.active
        /\ Becomes(p, [pad[p] EXCEPT !.rx = begun, !.watchdog = TRUE])
        /\ Reply(p, "BEGIN_ACK", m.xferId, 0)

\* While no transfer is live, and after a failed write, the NAK says 0: start over.
HandleData(p) ==
  LET m == Head(down[p])
      w == pad[p]
      accepted == Accepts(w.rx, m.xferId, m.seq, TRUE) IN
  /\ Reads(p, "DATA")
  /\ \/ /\ ~w.rx.active
        /\ Reply(p, "DATA_NAK", m.xferId, 0)
        /\ UNCHANGED pad
     \/ /\ w.rx.active
        /\ ~accepted \/ "corrupt" \in WriterFaults
        /\ Reply(p, "DATA_NAK", m.xferId, w.rx.next)
        /\ Becomes(p, [w EXCEPT !.watchdog = TRUE])
     \/ /\ accepted /\ "write" \in WriterFaults
        /\ Reply(p, "DATA_NAK", m.xferId, 0)
        /\ Becomes(p, Released(w))
     \/ /\ accepted
        /\ Reply(p, "DATA_ACK", m.xferId, m.seq)
        /\ Becomes(p, [w EXCEPT !.rx = AfterChunk(w.rx, m.xferId, m.seq, TRUE), !.watchdog = TRUE])

\* A verified image is reported before the two-second sleep that precedes the flip.
HandleEnd(p) ==
  LET m == Head(down[p])
      w == pad[p]
      res == EndResult(w.rx, m.xferId, m.seq) IN
  /\ Reads(p, "END")
  /\ \/ ~w.rx.active /\ UNCHANGED <<pad, fq>>
     \/ /\ w.rx.active /\ res # "OK"
        /\ Reply(p, "END_ACK", m.xferId, 2)
        /\ Becomes(p, IF TearsDown(res) THEN Released(w) ELSE w)
     \/ /\ res = "OK" /\ "verify" \in WriterFaults
        /\ Reply(p, "END_ACK", m.xferId, 2)
        /\ Becomes(p, Released(w))
     \/ /\ res = "OK"
        /\ Reply(p, "END_ACK", m.xferId, 0)
        /\ Becomes(p, [w EXCEPT !.mode = "flipping", !.watchdog = FALSE])

\* The rest of handleEnd, after the sleep.
FlipBootPartition(p) ==
  LET x == pad[p].rx.xferId IN
  /\ pad[p].mode = "flipping"
  /\ \/ /\ Reply(p, "FLASH_RESULT", x, 0)
        /\ Becomes(p, [Released(pad[p]) EXCEPT !.boot = "new", !.mode = "restarting",
                                               !.fresh = FALSE])
     \/ /\ "flip" \in WriterFaults
        /\ Reply(p, "FLASH_RESULT", x, 1)
        /\ Becomes(p, [Released(pad[p]) EXCEPT !.mode = "up"])
  /\ UNCHANGED <<down, localReq, masterBoot>>

Booted(b) == [Factory EXCEPT !.image = b, !.boot = b, !.fresh = TRUE]

\* esp_restart: the bootloader may find the new image unfit and boot the old one.
Restart(p) ==
  /\ pad[p].mode = "restarting"
  /\ \/ Becomes(p, Booted(pad[p].boot))
     \/ "rollback" \in WriterFaults /\ Becomes(p, Booted("old"))
  /\ down' = [down EXCEPT ![p] = <<>>]
  /\ UNCHANGED <<fq, localReq, masterBoot>>

\* Ten seconds of silence put a WATCHDOG_FIRE in the writer's queue.
WatchdogFires(p) ==
  /\ pad[p].watchdog
  /\ Becomes(p, [pad[p] EXCEPT !.watchdog = FALSE, !.fired = TRUE])
  /\ UNCHANGED <<fq, down, localReq, masterBoot>>

\* By then a transfer may have made progress, or be another one.
HandleWatchdogFire(p) ==
  /\ pad[p].mode = "up" /\ pad[p].fired
  /\ Becomes(p, [(IF pad[p].rx.active THEN Released(pad[p]) ELSE pad[p]) EXCEPT !.fired = FALSE])
  /\ UNCHANGED <<fq, down, localReq, masterBoot>>

\* handleLocalFlashReq on the master, as one step: its result is posted last.
LocalFlash ==
  /\ localReq > 0
  /\ localReq' = localReq - 1
  /\ \/ /\ masterBoot' = "new"
        /\ fq' = Post(fq, Msg("LOCAL_FLASH_RESULT", "self", 0, 0))
     \/ /\ "local" \in WriterFaults
        /\ fq' = Post(fq, Msg("LOCAL_FLASH_RESULT", "self", 0, 1))
        /\ UNCHANGED masterBoot
  /\ UNCHANGED <<down, pad>>

WriterStep(p) ==
  \/ HandleBegin(p) \/ HandleData(p) \/ HandleEnd(p)
  \/ FlipBootPartition(p) \/ Restart(p) \/ HandleWatchdogFire(p)
=============================================================================
