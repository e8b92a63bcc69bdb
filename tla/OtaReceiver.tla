----------------------------- MODULE OtaReceiver -----------------------------
(***************************************************************************)
(* lib/OtaReceiver: the master stages an image that the server uploads     *)
(* over the serial line, hashes it as it comes, and moves it to a path     *)
(* named after its hash, from which OtaForwarder later deploys it.         *)
(*                                                                         *)
(* The server may send any message at any time.  The serial handler puts   *)
(* messages into otaQueue, as does the callback of the idle watchdog, and  *)
(* otaReceiverTask handles them one at a time.  The forwarder's task reads *)
(* the path and the file between any two steps, and the power may fail.    *)
(*                                                                         *)
(* A chunk carries a piece: which image it is of, where it belongs and how *)
(* long it is.  A file is a sequence of pieces, and a SHA-256 the sequence *)
(* that was hashed, so that different contents have different hashes and,  *)
(* in their first 16 digits, different paths.  The empty sequence stands   *)
(* for no path and for no staging file.                                    *)
(***************************************************************************)
EXTENDS Integers, Sequences, BulkReceiver, ChunkGrid

CONSTANTS
  Images,
  SizeOf,        \* the size of each image
  ChunkSize,
  XferIds,       \* what the server writes as a transfer id
  QueueLength,
  Faults         \* which operations may fail: "card", "write", "close",
                 \* "rename", "power"

ASSUME UploadAssumption ==
  /\ SizeOf \in [Images -> 0 .. Modulus - 1]
  /\ ChunkSize \in 1 .. Modulus - 1
  /\ XferIds \subseteq Nat
  /\ QueueLength \in Nat \ {0}

VARIABLES
  otaQueue,
  active,             \* active_
  bulk,               \* bulk_, but for its totalSize_
  totalSize,
  stagingOpen,        \* staging_ is a handle
  staging,            \* the pieces in the staging file
  shaActive, sha,     \* shaActive_, and the pieces hashed
  firmware,           \* the content of the file at each content-addressed path
  lastFirmwarePath,
  renaming,           \* the path handleEnd has unlinked and will rename to
  watchdog,           \* the timer is armed
  missed,             \* its signal met a full queue
  reader              \* what the forwarder has of the firmware file

receiver == <<active, bulk, totalSize, stagingOpen, staging, shaActive, sha>>
timer == <<watchdog, missed>>
store == <<firmware, lastFirmwarePath>>
vars == <<otaQueue, receiver, store, renaming, timer, reader>>

None == <<>>

Chunks(i) == chunksForSize(SizeOf[i], ChunkSize)
Piece(i, q, len) == [image |-> i, seq |-> q, len |-> len]

\* The content of image i, its pieces numbered from 0.
Whole(i) ==
  [k \in 1 .. Chunks(i) |-> Piece(i, k - 1, PieceLength(SizeOf[i], ChunkSize, k - 1))]

\* Mutant: every image goes to one path.
PathForOne(digest) == <<"firmware.bin">>

\* contentAddressedFirmwarePath.
PathFor(digest) == digest

\* parseStrictU8.
Parses(x) == x \in 0 .. 255

Reading == [path |-> None, stream |-> None, hash |-> None]

Init ==
  /\ otaQueue = <<>>
  /\ active = FALSE /\ bulk = IdleReceiver /\ totalSize = 0
  /\ stagingOpen = FALSE /\ staging = None /\ shaActive = FALSE /\ sha = <<>>
  /\ firmware = [p \in {} |-> None] /\ lastFirmwarePath = None /\ renaming = None
  /\ watchdog = FALSE /\ missed = FALSE
  /\ reader = Reading

-----------------------------------------------------------------------------
(* What is put into otaQueue.  A message the serial handler finds no room   *)
(* for is answered busy, CRC or IO_ERROR and changes nothing.               *)

Begin(x, i) == [kind |-> "BEGIN", x |-> x, size |-> SizeOf[i], total |-> Chunks(i)]
Chunk(x, p, intact) == [kind |-> "CHUNK", x |-> x, piece |-> p, intact |-> intact]
End(x, i) == [kind |-> "END", x |-> x, total |-> Chunks(i), sha |-> Whole(i)]
Fire == [kind |-> "WATCHDOG_FIRE"]

\* Mutant: one message too many.
HasRoomForOne == Len(otaQueue) <= QueueLength

HasRoom == Len(otaQueue) < QueueLength

Send(m) ==
  /\ HasRoom
  /\ otaQueue' = Append(otaQueue, m)
  /\ UNCHANGED <<receiver, store, renaming, timer, reader>>

\* The pieces of the images, the last of each padded to the full length as well.
Pieces ==
  UNION {{Whole(i)[k] : k \in DOMAIN Whole(i)}
           \cup {Piece(i, k - 1, ChunkSize) : k \in DOMAIN Whole(i)} : i \in Images}

\* What the server may say.  A piece may be damaged.
FromServer ==
  UNION {{Begin(x, i) : i \in Images}
           \cup {Chunk(x, p, TRUE) : p \in Pieces}
           \cup {Chunk(x, p, FALSE) : p \in Pieces}
           \cup {End(x, i) : i \in Images} : x \in XferIds}

ServerSends == \E m \in FromServer : Send(m)

\* watchdogTimerCb does not wait for room.
WatchdogFires ==
  /\ watchdog
  /\ watchdog' = FALSE
  /\ IF HasRoom
     THEN otaQueue' = Append(otaQueue, Fire) /\ UNCHANGED missed
     ELSE missed' = TRUE /\ UNCHANGED otaQueue
  /\ UNCHANGED <<receiver, store, renaming, reader>>

-----------------------------------------------------------------------------
(* otaReceiverTask.                                                         *)

Takes(kind) ==
  /\ renaming = None
  /\ otaQueue # <<>> /\ Head(otaQueue).kind = kind
  /\ otaQueue' = Tail(otaQueue)

\* resetCryptoAndFile(false): the staging file goes with its handle.
ResetCryptoAndFile ==
  /\ staging' = IF stagingOpen THEN None ELSE staging
  /\ stagingOpen' = FALSE /\ shaActive' = FALSE /\ sha' = <<>>

\* active_ and bulk_ are reset.
Inactive == active' = FALSE /\ bulk' = IdleReceiver /\ totalSize' = 0

Abort == Inactive /\ ResetCryptoAndFile

HandleWatchdogFire ==
  /\ Takes("WATCHDOG_FIRE")
  /\ IF active THEN Abort /\ missed' = FALSE ELSE UNCHANGED <<receiver, missed>>
  /\ UNCHANGED <<store, renaming, watchdog, reader>>

\* Mutant: the path of the previous image is left for a deploy to find.
ForgetPathNot == UNCHANGED lastFirmwarePath

ForgetPath == lastFirmwarePath' = None

\* Mutant: the watchdog waits for the first chunk.
WatchdogStartLater == UNCHANGED watchdog

\* A timer that is armed already keeps its deadline.
WatchdogStart == watchdog' = TRUE

\* A BEGIN while one is under way is answered busy.  The card may have no
\* directory, no room or no file to give.
HandleBegin ==
  /\ Takes("BEGIN")
  /\ LET m == Head(otaQueue) IN
       \/ /\ \/ active \/ ~Parses(m.x) \/ ~GridIsLegal(m.size, m.total, ChunkSize)
             \/ "card" \in Faults
          /\ UNCHANGED <<receiver, store, timer>>
       \/ /\ ~active /\ Parses(m.x) /\ GridIsLegal(m.size, m.total, ChunkSize)
          /\ active' = TRUE
          /\ bulk' = BeginReceiver(m.x, m.total, TRUE) /\ totalSize' = m.size
          /\ stagingOpen' = TRUE /\ staging' = <<>>
          /\ shaActive' = TRUE /\ sha' = <<>>
          /\ ForgetPath
          /\ WatchdogStart
          /\ UNCHANGED <<firmware, missed>>
  /\ UNCHANGED <<renaming, reader>>

\* Mutant: a NAK does not show that the server is alive.
WatchdogRestartIfAcked(acked) == watchdog' = acked

\* Stopped and started again after a chunk, accepted or not.
WatchdogRestart(acked) == watchdog' = TRUE

\* Mutant: what the card did not take is hashed and acknowledged all the same.
ShortWriteGoesOn(p) ==
  /\ sha' = Append(sha, p)
  /\ UNCHANGED <<staging, active, totalSize, stagingOpen, shaActive>>
  /\ bulk' = [bulk EXCEPT !.next = @ + 1]
  /\ UNCHANGED <<watchdog, missed>>

\* A short fwrite ends the transfer.
ShortWrite(p) == Abort /\ watchdog' = FALSE /\ missed' = FALSE

HandleChunk ==
  /\ Takes("CHUNK")
  /\ LET m == Head(otaQueue)
         q == m.piece.seq
         fits == m.piece.len = ExpectedLength(totalSize, ChunkSize, q) /\ m.intact
         ack == Accepts(bulk, m.x, q, fits)
     IN
       \/ /\ ~active \/ ~Parses(m.x)
          /\ UNCHANGED <<receiver, timer>>
       \/ /\ active /\ Parses(m.x) /\ ack
          /\ ~stagingOpen \/ ~shaActive \/ "write" \in Faults
          /\ ShortWrite(m.piece)
       \/ /\ active /\ Parses(m.x)
          /\ bulk' = AfterChunk(bulk, m.x, q, fits)
          /\ ack => stagingOpen /\ shaActive
          /\ IF ack
             THEN staging' = Append(staging, m.piece) /\ sha' = Append(sha, m.piece)
             ELSE UNCHANGED <<staging, sha>>
          /\ WatchdogRestart(ack)
          /\ UNCHANGED <<active, totalSize, stagingOpen, shaActive, missed>>
  /\ UNCHANGED <<store, renaming, reader>>

\* The transfer is over, whatever became of it; the handle is closed.
CloseAndStop ==
  /\ Inactive
  /\ stagingOpen' = FALSE /\ shaActive' = FALSE /\ sha' = <<>>
  /\ watchdog' = FALSE /\ missed' = FALSE

\* An END of another transfer, or of none, is answered IO_ERROR.  One that finds
\* the counts wrong discards what was staged.  With every chunk in, the file is
\* closed, and kept if that fails or its hash is not the one expected.
HandleEnd ==
  /\ Takes("END")
  /\ LET m == Head(otaQueue)
         result == EndResult(bulk, m.x, m.total)
         verified == sha = m.sha
     IN
       \/ /\ ~Parses(m.x) \/ ~TearsDown(result)
          /\ UNCHANGED <<receiver, store, renaming, timer>>
       \/ /\ Parses(m.x) /\ TearsDown(result) /\ result # "OK"
          /\ Abort
          /\ watchdog' = FALSE /\ missed' = FALSE
          /\ UNCHANGED <<store, renaming>>
       \/ /\ Parses(m.x) /\ result = "OK"
          /\ ~stagingOpen \/ ~shaActive \/ ~verified \/ "close" \in Faults
          /\ CloseAndStop
          /\ UNCHANGED <<staging, store, renaming>>
       \/ /\ Parses(m.x) /\ result = "OK" /\ stagingOpen /\ shaActive /\ verified
          /\ stagingOpen' = FALSE /\ shaActive' = FALSE /\ sha' = <<>>
          /\ renaming' = PathFor(sha)
          /\ firmware' = [p \in DOMAIN firmware \ {PathFor(sha)} |-> firmware[p]]
          /\ UNCHANGED <<active, bulk, totalSize, staging, lastFirmwarePath, timer>>
  /\ UNCHANGED reader

\* The rest of handleEnd, after the unlink.
Rename ==
  /\ renaming # None
  /\ renaming' = None
  /\ \/ /\ firmware' = [p \in DOMAIN firmware \cup {renaming} |->
                          IF p = renaming THEN staging ELSE firmware[p]]
        /\ staging' = None
        /\ lastFirmwarePath' = renaming
     \/ "rename" \in Faults /\ UNCHANGED <<staging, store>>
  /\ CloseAndStop
  /\ UNCHANGED <<otaQueue, reader>>

Receive == HandleWatchdogFire \/ HandleBegin \/ HandleChunk \/ HandleEnd \/ Rename

-----------------------------------------------------------------------------
(* startNextPadawan of the forwarder: the path is looked up, the file is    *)
(* opened for streaming, and opened once more to hash it.                   *)

LookUpPath ==
  /\ reader.path = None
  /\ lastFirmwarePath # None
  /\ reader' = [reader EXCEPT !.path = lastFirmwarePath]
  /\ UNCHANGED <<otaQueue, receiver, store, renaming, timer>>

OpenFirmware ==
  /\ reader.path # None /\ reader.stream = None
  /\ reader' = IF reader.path \in DOMAIN firmware
               THEN [reader EXCEPT !.stream = firmware[reader.path]]
               ELSE Reading
  /\ UNCHANGED <<otaQueue, receiver, store, renaming, timer>>

HashFirmware ==
  /\ reader.stream # None /\ reader.hash = None
  /\ reader' = IF reader.path \in DOMAIN firmware
               THEN [reader EXCEPT !.hash = firmware[reader.path]]
               ELSE Reading
  /\ UNCHANGED <<otaQueue, receiver, store, renaming, timer>>

CloseFirmware ==
  /\ reader.hash # None
  /\ reader' = Reading
  /\ UNCHANGED <<otaQueue, receiver, store, renaming, timer>>

Forward == LookUpPath \/ OpenFirmware \/ HashFirmware \/ CloseFirmware

\* The card keeps what was written of it; everything else is lost.
PowerCut ==
  /\ "power" \in Faults
  /\ otaQueue' = <<>>
  /\ Inactive
  /\ stagingOpen' = FALSE /\ shaActive' = FALSE /\ sha' = <<>>
  /\ \E k \in 0 .. Len(staging) : staging' = SubSeq(staging, 1, k)
  /\ lastFirmwarePath' = None /\ renaming' = None
  /\ watchdog' = FALSE /\ missed' = FALSE
  /\ reader' = Reading
  /\ UNCHANGED firmware

Next == ServerSends \/ WatchdogFires \/ Receive \/ Forward \/ PowerCut

Spec == Init /\ [][Next]_vars

\* The receiver's task runs and its timer fires; the server owes nothing.
FairSpec == Spec /\ WF_vars(Receive) /\ WF_vars(WatchdogFires)
-----------------------------------------------------------------------------
PieceType == [image : Images, seq : Nat, len : Nat]

Messages ==
  {Begin(x, i) : x \in XferIds, i \in Images}
    \cup [kind : {"CHUNK"}, x : XferIds, piece : PieceType, intact : BOOLEAN]
    \cup {End(x, i) : x \in XferIds, i \in Images}
    \cup {Fire}

\* Type invariant.
TypeOK ==
  /\ otaQueue \in Seq(Messages) /\ Len(otaQueue) <= QueueLength
  /\ active \in BOOLEAN
  /\ bulk \in [active : BOOLEAN, xferId : Nat, total : Nat, next : Nat]
  /\ totalSize \in Nat
  /\ stagingOpen \in BOOLEAN /\ staging \in Seq(PieceType)
  /\ shaActive \in BOOLEAN /\ sha \in Seq(PieceType)
  /\ DOMAIN firmware \subseteq Seq(PieceType)
  /\ \A p \in DOMAIN firmware : firmware[p] \in Seq(PieceType)
  /\ lastFirmwarePath \in Seq(PieceType) /\ renaming \in Seq(PieceType)
  /\ watchdog \in BOOLEAN /\ missed \in BOOLEAN
  /\ reader \in [path : Seq(PieceType), stream : Seq(PieceType), hash : Seq(PieceType)]

\* The handle, the hash context and the bulk receiver live and die together,
\* through every way a transfer can end.
OneTransfer ==
  /\ bulk.active = active
  /\ renaming = None => stagingOpen = active /\ shaActive = active
  /\ renaming # None => active /\ staging = renaming

\* What is hashed is what is in the file, and each piece of it has the length
\* that its place in an image of this size calls for.
StreamMatchesFile ==
  stagingOpen =>
    /\ sha = staging
    /\ Len(staging) = bulk.next /\ bulk.next <= bulk.total
    /\ GridIsLegal(totalSize, bulk.total, ChunkSize)
    /\ totalSize + ChunkSize <= Modulus
    /\ \A k \in DOMAIN staging :
         /\ staging[k].seq = k - 1
         /\ staging[k].len = PieceLength(totalSize, ChunkSize, k - 1)

\* No file under a content-addressed path is anything but what its name says.
FilesAreNamedRight == \A p \in DOMAIN firmware : p # None /\ firmware[p] = p

Contents == {Whole(i) : i \in Images}

\* Only what the server named as an image's hash becomes a path, and no path is
\* to be had while its file may be on its way out.
PathsAreVerified ==
  /\ renaming # None => renaming \in Contents
  /\ active => lastFirmwarePath = None
  /\ lastFirmwarePath # None =>
       lastFirmwarePath \in DOMAIN firmware /\ lastFirmwarePath \in Contents

\* What the forwarder holds is one image.
ReaderHoldsOneImage ==
  /\ reader.path # None => reader.path \in Contents
  /\ reader.stream \in {None, reader.path}
  /\ reader.hash \in {None, reader.stream}

\* Inductive invariant.
UploadInvariant ==
  /\ OneTransfer
  /\ StreamMatchesFile
  /\ FilesAreNamedRight
  /\ PathsAreVerified
  /\ ReaderHoldsOneImage

\* The path a deploy is given is that of a file, whole and with the hash the
\* server quoted for one of its images.
AccessorIsVerified ==
  lastFirmwarePath # None =>
    /\ lastFirmwarePath \in DOMAIN firmware
    /\ firmware[lastFirmwarePath] \in Contents

\* The file a deploy streams and the file it hashes have the same content, that
\* of an uploaded image, although the path is looked up and opened twice and
\* uploads go on meanwhile.
StreamedIsHashed ==
  /\ reader.stream # None => reader.stream \in Contents
  /\ reader.hash # None => reader.hash = reader.stream

\* A transfer under way is watched: the timer runs, or its signal waits in the
\* queue, unless it met a full queue.
Watched ==
  active /\ ~missed => watchdog \/ \E k \in DOMAIN otaQueue : otaQueue[k] = Fire

\* A server that falls silent does not hold the receiver for ever.
Released == []<>(~active \/ missed) \/ []<><<ServerSends>>_vars
=============================================================================
