-------------------------- MODULE OtaReceiver_proofs --------------------------
(***************************************************************************)
(* For every set of images, every chunk size, every queue and every fault: *)
(* the state keeps its type, what is hashed is what is staged, the path a  *)
(* deploy is given names a whole image, what it streams is what it hashes, *)
(* and a transfer under way is watched.                                    *)
(***************************************************************************)
EXTENDS OtaReceiver, ChunkGrid_proofs

-----------------------------------------------------------------------------
(* Lemmas about the data.                                                  *)

(* An image that is cut into chunks is a sequence of pieces.               *)
LEMMA WholeType ==
  ASSUME NEW i \in Images
  PROVE  /\ SizeOf[i] \in 0 .. Modulus - 1
         /\ Chunks(i) \in Nat
         /\ Whole(i) \in Seq(PieceType) /\ Len(Whole(i)) = Chunks(i)
<1>1. SizeOf[i] \in 0 .. Modulus - 1 /\ ChunkSize \in 1 .. Modulus - 1
  BY UploadAssumption
<1>2. Chunks(i) \in Nat
  BY <1>1, SerialGridIsLegal DEF Chunks
<1>3. ASSUME NEW k \in 1 .. Chunks(i)
      PROVE  Piece(i, k - 1, PieceLength(SizeOf[i], ChunkSize, k - 1)) \in PieceType
  <2>1. chunksForSize(SizeOf[i], ChunkSize) # 0 /\ k - 1 \in 0 .. Chunks(i) - 1
    BY <1>2 DEF Chunks
  <2>2. SizeOf[i] + ChunkSize <= Modulus /\ GridIsLegal(SizeOf[i], Chunks(i), ChunkSize)
    BY <1>1, <2>1, WrappedSizeIsRefused, SerialGridIsLegal DEF Chunks
  <2>3. PieceLength(SizeOf[i], ChunkSize, k - 1) \in 1 .. ChunkSize
    BY <1>1, <1>2, <2>1, <2>2, ExpectedLengthIsExact
  <2> QED
    BY <1>1, <1>2, <2>1, <2>3 DEF Piece, PieceType
<1>4. Whole(i) \in [1 .. Chunks(i) -> PieceType]
  BY <1>3 DEF Whole
<1> QED
  BY <1>1, <1>2, <1>4

(* What the messages of a kind look like.                                  *)
LEMMA MessageOfKind ==
  ASSUME NEW m \in Messages
  PROVE  /\ m.kind = "BEGIN" => \E x \in XferIds, i \in Images : m = Begin(x, i)
         /\ m.kind = "CHUNK" => m.x \in XferIds /\ m.piece \in PieceType /\ m.intact \in BOOLEAN
         /\ m.kind = "END" => \E x \in XferIds, i \in Images : m = End(x, i)
         /\ m.kind = "WATCHDOG_FIRE" => m = Fire
BY DEF Messages, Begin, End, Fire

(* Adding to a queue.                                                      *)
LEMMA Appended ==
  ASSUME NEW S, NEW q \in Seq(S), NEW m \in S
  PROVE  /\ Append(q, m) \in Seq(S) /\ Len(Append(q, m)) = Len(q) + 1 /\ Len(q) \in Nat
         /\ Append(q, m)[Len(q) + 1] = m
         /\ \A k \in 1 .. Len(q) : Append(q, m)[k] = q[k]
OBVIOUS

(* A queue with room for one more.                                         *)
LEMMA FitsIn ==
  ASSUME NEW S, NEW q \in Seq(S), NEW m \in S, NEW n \in Nat, Len(q) < n
  PROVE  Append(q, m) \in Seq(S) /\ Len(Append(q, m)) <= n
OBVIOUS

(* A bulk receiver whose next chunk is one later.                          *)
LEMMA NextBumped ==
  ASSUME NEW r \in [active : BOOLEAN, xferId : Nat, total : Nat, next : Nat]
  PROVE  [r EXCEPT !.next = r.next + 1] \in [active : BOOLEAN, xferId : Nat, total : Nat, next : Nat]
OBVIOUS

(* Taking its head.                                                        *)
LEMMA Beheaded ==
  ASSUME NEW S, NEW q \in Seq(S), q # <<>>
  PROVE  /\ Head(q) \in S /\ Tail(q) \in Seq(S)
         /\ Len(Tail(q)) = Len(q) - 1 /\ Len(q) \in Nat
         /\ Head(q) = q[1]
         /\ \A k \in 1 .. Len(Tail(q)) : Tail(q)[k] = q[k + 1]
OBVIOUS

(* What a power cut leaves of a file.                                      *)
LEMMA Truncated ==
  ASSUME NEW S, NEW q \in Seq(S), NEW k \in 0 .. Len(q)
  PROVE  SubSeq(q, 1, k) \in Seq(S)
OBVIOUS

-----------------------------------------------------------------------------
(* The type of the state.                                                  *)

(* The task takes the first message of the queue.                          *)
LEMMA TakesType ==
  ASSUME TypeOK, NEW kind, Takes(kind)
  PROVE  /\ otaQueue' \in Seq(Messages) /\ Len(otaQueue') <= QueueLength
         /\ Head(otaQueue) \in Messages /\ Head(otaQueue).kind = kind
<1>1. otaQueue \in Seq(Messages) /\ otaQueue # <<>> /\ QueueLength \in Nat
  BY UploadAssumption DEF TypeOK, Takes
<1>2. Len(Tail(otaQueue)) <= QueueLength
  BY <1>1, Beheaded DEF TypeOK
<1> QED
  BY <1>1, <1>2, Beheaded DEF Takes

(* What the server sends is a message.                                     *)
LEMMA SentIsMessage ==
  ASSUME ServerSends
  PROVE  \E m \in Messages : Send(m)
<1>1. PICK m \in FromServer : Send(m)
  BY DEF ServerSends
<1>2. ASSUME NEW p \in Pieces PROVE p \in PieceType
  <2>1. PICK i \in Images :
          \/ \E k \in DOMAIN Whole(i) : p = Whole(i)[k]
          \/ \E k \in DOMAIN Whole(i) : p = Piece(i, k - 1, ChunkSize)
    BY <1>2 DEF Pieces
  <2>2. Whole(i) \in Seq(PieceType)
    BY WholeType
  <2>3. PICK k \in DOMAIN Whole(i) : p = Whole(i)[k] \/ p = Piece(i, k - 1, ChunkSize)
    BY <2>1
  <2>4. k \in Nat \ {0} /\ Whole(i)[k] \in PieceType
    BY <2>2
  <2>5. ChunkSize \in Nat /\ k - 1 \in Nat
    BY <2>4, UploadAssumption, GridAssumption
  <2> QED
    BY <2>3, <2>4, <2>5 DEF Piece, PieceType
<1>3. PICK x \in XferIds :
        \/ \E i \in Images : m = Begin(x, i) \/ m = End(x, i)
        \/ \E p \in Pieces : m = Chunk(x, p, TRUE) \/ m = Chunk(x, p, FALSE)
  BY <1>1 DEF FromServer
<1>4. ASSUME NEW p \in PieceType, NEW intact \in BOOLEAN PROVE Chunk(x, p, intact) \in Messages
  BY DEF Chunk, Messages
<1>5. ASSUME NEW i \in Images PROVE Begin(x, i) \in Messages /\ End(x, i) \in Messages
  BY DEF Messages
<1> QED
  BY <1>1, <1>2, <1>3, <1>4, <1>5

(* Every step keeps the type.                                              *)
LEMMA TypeStep == TypeOK /\ [Next]_vars => TypeOK'
<1> SUFFICES ASSUME TypeOK, [Next]_vars PROVE TypeOK'
  OBVIOUS
<1> USE DEF TypeOK
<1>e. None \in Seq(PieceType) /\ <<>> \in Seq(PieceType) /\ Len(<<>>) = 0
  BY DEF None
<1>i. IdleReceiver \in [active : BOOLEAN, xferId : Nat, total : Nat, next : Nat]
  BY DEF IdleReceiver
<1>a. ASSUME Abort
      PROVE  /\ active' \in BOOLEAN /\ totalSize' \in Nat
             /\ bulk' \in [active : BOOLEAN, xferId : Nat, total : Nat, next : Nat]
             /\ stagingOpen' \in BOOLEAN /\ staging' \in Seq(PieceType)
             /\ shaActive' \in BOOLEAN /\ sha' \in Seq(PieceType)
  BY <1>a, <1>e, <1>i DEF Abort, Inactive, ResetCryptoAndFile
<1>c. ASSUME CloseAndStop
      PROVE  /\ active' \in BOOLEAN /\ totalSize' \in Nat
             /\ bulk' \in [active : BOOLEAN, xferId : Nat, total : Nat, next : Nat]
             /\ stagingOpen' \in BOOLEAN /\ shaActive' \in BOOLEAN /\ sha' \in Seq(PieceType)
             /\ watchdog' \in BOOLEAN /\ missed' \in BOOLEAN
  BY <1>c, <1>e, <1>i DEF CloseAndStop, Inactive
<1>r. Reading \in [path : Seq(PieceType), stream : Seq(PieceType), hash : Seq(PieceType)]
  BY <1>e DEF Reading
<1>1. CASE ServerSends
  <2>1. PICK m \in Messages : Send(m)
    BY <1>1, SentIsMessage
  <2>2. otaQueue' \in Seq(Messages) /\ Len(otaQueue') <= QueueLength
    BY <2>1, Appended, UploadAssumption DEF Send, HasRoom
  <2> QED
    BY <2>1, <2>2 DEF Send, receiver, store, timer
<1>2. CASE WatchdogFires
  <2>1. Fire \in Messages
    BY DEF Messages
  <2>2. otaQueue' \in Seq(Messages) /\ Len(otaQueue') <= QueueLength
    <3>1. \/ HasRoom /\ otaQueue' = Append(otaQueue, Fire)
          \/ otaQueue' = otaQueue
      BY <1>2 DEF WatchdogFires
    <3>2. CASE HasRoom /\ otaQueue' = Append(otaQueue, Fire)
      BY <2>1, <3>2, FitsIn, UploadAssumption DEF HasRoom
    <3>3. CASE otaQueue' = otaQueue
      BY <3>3
    <3> QED
      BY <3>1, <3>2, <3>3
  <2> QED
    BY <1>2, <2>2 DEF WatchdogFires, receiver, store
<1>3. CASE HandleWatchdogFire
  <2>1. otaQueue' \in Seq(Messages) /\ Len(otaQueue') <= QueueLength
    BY <1>3, TakesType DEF HandleWatchdogFire
  <2> QED
    BY <1>3, <1>a, <2>1 DEF HandleWatchdogFire, receiver, store
<1>4. CASE HandleBegin
  <2> DEFINE m == Head(otaQueue)
  <2>1. /\ otaQueue' \in Seq(Messages) /\ Len(otaQueue') <= QueueLength
        /\ m \in Messages /\ m.kind = "BEGIN"
    BY <1>4, TakesType DEF HandleBegin
  <2>2. m.x \in Nat /\ m.size \in Nat /\ m.total \in Nat
    <3>1. PICK x \in XferIds, i \in Images : m = Begin(x, i)
      BY <2>1, MessageOfKind
    <3>2. x \in Nat /\ SizeOf[i] \in Nat /\ Chunks(i) \in Nat
      BY WholeType, UploadAssumption, GridAssumption
    <3>3. m.x = x /\ m.size = SizeOf[i] /\ m.total = Chunks(i)
      BY <3>1 DEF Begin
    <3> QED
      BY <3>2, <3>3
  <2> HIDE DEF m
  <2>3. BeginReceiver(m.x, m.total, TRUE)
          \in [active : BOOLEAN, xferId : Nat, total : Nat, next : Nat]
    BY <2>2, <1>i DEF BeginReceiver
  <2>4. CASE UNCHANGED <<receiver, store, timer>> /\ UNCHANGED <<renaming, reader>>
    BY <2>1, <2>4 DEF receiver, store, timer
  <2>5. CASE ~UNCHANGED <<receiver, store, timer>>
    BY <1>4, <1>e, <2>1, <2>2, <2>3, <2>5 DEF HandleBegin, ForgetPath, WatchdogStart, m
  <2> QED
    BY <1>4, <2>4, <2>5 DEF HandleBegin
<1>5. CASE HandleChunk
  <2> DEFINE m == Head(otaQueue)
             q == m.piece.seq
             fits == m.piece.len = ExpectedLength(totalSize, ChunkSize, q) /\ m.intact
             ack == Accepts(bulk, m.x, q, fits)
  <2>1. /\ otaQueue' \in Seq(Messages) /\ Len(otaQueue') <= QueueLength
        /\ m \in Messages /\ m.kind = "CHUNK"
    BY <1>5, TakesType DEF HandleChunk
  <2>2. m.piece \in PieceType
    BY <2>1, MessageOfKind
  <2>3. /\ AfterChunk(bulk, m.x, q, fits)
             \in [active : BOOLEAN, xferId : Nat, total : Nat, next : Nat]
        /\ Append(staging, m.piece) \in Seq(PieceType) /\ Append(sha, m.piece) \in Seq(PieceType)
    <3>1. Append(staging, m.piece) \in Seq(PieceType) /\ Append(sha, m.piece) \in Seq(PieceType)
      BY <2>2, Appended
    <3>2. [bulk EXCEPT !.next = bulk.next + 1]
             \in [active : BOOLEAN, xferId : Nat, total : Nat, next : Nat]
      BY NextBumped
    <3> HIDE DEF m, q, fits, ack
    <3> QED
      BY <3>1, <3>2 DEF AfterChunk
  <2>4. UNCHANGED <<store, renaming, reader>>
    BY <1>5 DEF HandleChunk
  <2>5. \/ UNCHANGED <<receiver, timer>>
        \/ ShortWrite(m.piece)
        \/ /\ bulk' = AfterChunk(bulk, m.x, q, fits)
           /\ \/ staging' = Append(staging, m.piece) /\ sha' = Append(sha, m.piece)
              \/ UNCHANGED <<staging, sha>>
           /\ WatchdogRestart(ack)
           /\ UNCHANGED <<active, totalSize, stagingOpen, shaActive, missed>>
    BY <1>5 DEF HandleChunk
  <2> HIDE DEF ack, fits, q, m
  <2>6. CASE UNCHANGED <<receiver, timer>>
    BY <2>1, <2>4, <2>6 DEF receiver, timer, store
  <2>7. CASE ShortWrite(m.piece)
    BY <1>a, <2>1, <2>4, <2>7 DEF ShortWrite, store
  <2>8. CASE /\ bulk' = AfterChunk(bulk, m.x, q, fits)
             /\ \/ staging' = Append(staging, m.piece) /\ sha' = Append(sha, m.piece)
                \/ UNCHANGED <<staging, sha>>
             /\ WatchdogRestart(ack)
             /\ UNCHANGED <<active, totalSize, stagingOpen, shaActive, missed>>
    BY <2>1, <2>3, <2>4, <2>8 DEF WatchdogRestart, store
  <2> QED
    BY <2>5, <2>6, <2>7, <2>8
<1>6. CASE HandleEnd
  <2> DEFINE m == Head(otaQueue)
             result == EndResult(bulk, m.x, m.total)
  <2>1. otaQueue' \in Seq(Messages) /\ Len(otaQueue') <= QueueLength
    BY <1>6, TakesType DEF HandleEnd
  <2>2. CASE UNCHANGED <<receiver, store, renaming, timer>> /\ UNCHANGED reader
    BY <2>1, <2>2 DEF receiver, store, timer
  <2>3. CASE Abort /\ watchdog' = FALSE /\ missed' = FALSE /\ UNCHANGED <<store, renaming, reader>>
    BY <1>a, <2>1, <2>3 DEF store
  <2>4. CASE CloseAndStop /\ UNCHANGED <<staging, store, renaming, reader>>
    BY <1>c, <2>1, <2>4 DEF store
  <2>5. CASE /\ stagingOpen' = FALSE /\ shaActive' = FALSE /\ sha' = <<>>
             /\ renaming' = PathFor(sha)
             /\ firmware' = [p \in DOMAIN firmware \ {PathFor(sha)} |-> firmware[p]]
             /\ UNCHANGED <<active, bulk, totalSize, staging, lastFirmwarePath, timer>>
             /\ UNCHANGED reader
    BY <1>e, <2>1, <2>5 DEF PathFor, timer
  <2> QED
    BY <1>6, <2>2, <2>3, <2>4, <2>5 DEF HandleEnd
<1>7. CASE Rename
  <2>1. UNCHANGED <<otaQueue, reader>> /\ renaming' \in Seq(PieceType) /\ CloseAndStop
    BY <1>7, <1>e DEF Rename
  <2>2. /\ DOMAIN firmware' \subseteq Seq(PieceType)
        /\ \A p \in DOMAIN firmware' : firmware'[p] \in Seq(PieceType)
        /\ staging' \in Seq(PieceType) /\ lastFirmwarePath' \in Seq(PieceType)
    BY <1>7, <1>e DEF Rename, store
  <2> QED
    BY <1>c, <2>1, <2>2
<1>8. CASE Forward
  <2>1. reader' \in [path : Seq(PieceType), stream : Seq(PieceType), hash : Seq(PieceType)]
    BY <1>8, <1>r DEF Forward, LookUpPath, OpenFirmware, HashFirmware, CloseFirmware
  <2>2. UNCHANGED <<otaQueue, receiver, store, renaming, timer>>
    BY <1>8 DEF Forward, LookUpPath, OpenFirmware, HashFirmware, CloseFirmware
  <2> QED
    BY <2>1, <2>2 DEF receiver, store, timer
<1>9. CASE PowerCut
  <2>1. staging' \in Seq(PieceType)
    BY <1>9, Truncated DEF PowerCut
  <2>2. <<>> \in Seq(Messages) /\ 0 <= QueueLength
    BY UploadAssumption
  <2>3. /\ otaQueue' = <<>> /\ active' = FALSE /\ bulk' = IdleReceiver /\ totalSize' = 0
        /\ stagingOpen' = FALSE /\ shaActive' = FALSE /\ sha' = <<>>
        /\ lastFirmwarePath' = None /\ renaming' = None /\ watchdog' = FALSE /\ missed' = FALSE
        /\ reader' = Reading /\ firmware' = firmware
    BY <1>9 DEF PowerCut, Inactive
  <2> QED
    BY <1>e, <1>i, <1>r, <2>1, <2>2, <2>3
<1>10. CASE UNCHANGED vars
  BY <1>10 DEF vars, receiver, store, timer
<1> QED
  BY <1>1, <1>2, <1>3, <1>4, <1>5, <1>6, <1>7, <1>8, <1>9, <1>10 DEF Next, Receive

(* The constructor and Init establish the type.                            *)
LEMMA TypeInit == Init => TypeOK
<1>1. ASSUME NEW S PROVE <<>> \in Seq(S) /\ Len(<<>>) = 0
  OBVIOUS
<1>2. 0 <= QueueLength
  BY UploadAssumption
<1>3. ASSUME Init PROVE TypeOK
  <2>1. IdleReceiver \in [active : BOOLEAN, xferId : Nat, total : Nat, next : Nat]
    BY DEF IdleReceiver
  <2>2. Reading \in [path : Seq(PieceType), stream : Seq(PieceType), hash : Seq(PieceType)]
    BY <1>1 DEF Reading, None
  <2>3. DOMAIN firmware = {}
    BY <1>3 DEF Init
  <2> QED
    BY <1>1, <1>2, <1>3, <2>1, <2>2, <2>3 DEF Init, TypeOK, None
<1> QED
  BY <1>3

(* The state keeps its type, and the queue its length.                     *)
THEOREM UploadTypeCorrect == Spec => []TypeOK
BY TypeInit, TypeStep, PTL DEF Spec

-----------------------------------------------------------------------------
(* The invariant.                                                          *)

(* A step that touches neither transfer nor files nor the forwarder.       *)
LEMMA Untouched ==
  ASSUME UploadInvariant, UNCHANGED <<receiver, store, renaming, reader>>
  PROVE  UploadInvariant'
BY DEF UploadInvariant, OneTransfer, StreamMatchesFile, FilesAreNamedRight, PathsAreVerified,
       ReaderHoldsOneImage, GridIsLegal, PieceLength, receiver, store, Contents, Whole

(* A step that ends a transfer, whatever it does with the staging file.    *)
LEMMA Stopped ==
  ASSUME UploadInvariant,
         active' = FALSE, bulk' = IdleReceiver, stagingOpen' = FALSE, shaActive' = FALSE,
         renaming' = None, UNCHANGED <<store, reader>>
  PROVE  UploadInvariant'
<1>1. OneTransfer'
  BY DEF OneTransfer, IdleReceiver
<1>2. StreamMatchesFile'
  BY DEF StreamMatchesFile
<1>3. FilesAreNamedRight' /\ ReaderHoldsOneImage'
  BY DEF UploadInvariant, FilesAreNamedRight, ReaderHoldsOneImage, store
<1>4. PathsAreVerified'
  BY DEF UploadInvariant, PathsAreVerified, store
<1> QED
  BY <1>1, <1>2, <1>3, <1>4 DEF UploadInvariant

(* An accepted BEGIN: its grid is the serial handler's, so that no sum will
   wrap.                                                                   *)
LEMMA BeginStep == TypeOK /\ UploadInvariant /\ HandleBegin => UploadInvariant'
<1> SUFFICES ASSUME TypeOK, UploadInvariant, HandleBegin PROVE UploadInvariant'
  OBVIOUS
<1> DEFINE m == Head(otaQueue)
<1>1. renaming = None /\ m \in Messages /\ m.kind = "BEGIN" /\ UNCHANGED <<renaming, reader>>
  BY TakesType DEF HandleBegin, Takes
<1>2. PICK x \in XferIds, i \in Images : m = Begin(x, i)
  BY <1>1, MessageOfKind
<1>3. m.size = SizeOf[i] /\ m.total = chunksForSize(SizeOf[i], ChunkSize)
  BY <1>2 DEF Begin, Chunks
<1>4. \/ UNCHANGED <<receiver, store>>
      \/ /\ GridIsLegal(m.size, m.total, ChunkSize)
         /\ active' = TRUE
         /\ bulk' = BeginReceiver(m.x, m.total, TRUE) /\ totalSize' = m.size
         /\ stagingOpen' = TRUE /\ staging' = <<>> /\ shaActive' = TRUE /\ sha' = <<>>
         /\ lastFirmwarePath' = None /\ firmware' = firmware
  BY DEF HandleBegin, ForgetPath
<1>5. CASE UNCHANGED <<receiver, store>>
  BY <1>1, <1>5, Untouched
<1>6. CASE /\ GridIsLegal(m.size, m.total, ChunkSize)
           /\ active' = TRUE
           /\ bulk' = BeginReceiver(m.x, m.total, TRUE) /\ totalSize' = m.size
           /\ stagingOpen' = TRUE /\ staging' = <<>> /\ shaActive' = TRUE /\ sha' = <<>>
           /\ lastFirmwarePath' = None /\ firmware' = firmware
  <2> HIDE DEF m
  <2>1. m.total # 0 /\ m.total \in Nat
    BY <1>3, <1>6, WholeType DEF GridIsLegal, Chunks
  <2>2. bulk'.active = TRUE /\ bulk'.next = 0 /\ bulk'.total = m.total
    BY <1>6, <2>1 DEF BeginReceiver
  <2>3. SizeOf[i] + ChunkSize <= Modulus
    BY <1>3, <2>1, WholeType, WrappedSizeIsRefused, UploadAssumption
  <2>4. OneTransfer'
    BY <1>1, <1>6, <2>2 DEF OneTransfer
  <2>5. StreamMatchesFile'
    <3>1. Len(<<>>) = 0 /\ DOMAIN <<>> = {}
      OBVIOUS
    <3>2. bulk'.next <= bulk'.total
      BY <2>1, <2>2
    <3> QED
      BY <1>3, <1>6, <2>2, <2>3, <3>1, <3>2 DEF StreamMatchesFile
  <2>6. FilesAreNamedRight' /\ ReaderHoldsOneImage'
    BY <1>1, <1>6 DEF UploadInvariant, FilesAreNamedRight, ReaderHoldsOneImage
  <2>7. PathsAreVerified'
    BY <1>1, <1>6 DEF PathsAreVerified
  <2> QED
    BY <2>4, <2>5, <2>6, <2>7 DEF UploadInvariant
<1> QED
  BY <1>4, <1>5, <1>6

(* An accepted chunk goes to the file and into the hash, and is as long as
   its place calls for.                                                    *)
LEMMA ChunkStep == TypeOK /\ UploadInvariant /\ HandleChunk => UploadInvariant'
<1> SUFFICES ASSUME TypeOK, UploadInvariant, HandleChunk PROVE UploadInvariant'
  OBVIOUS
<1> DEFINE m == Head(otaQueue)
           q == m.piece.seq
           fits == m.piece.len = ExpectedLength(totalSize, ChunkSize, q) /\ m.intact
           ack == Accepts(bulk, m.x, q, fits)
<1>1. renaming = None /\ m \in Messages /\ m.kind = "CHUNK" /\ UNCHANGED <<store, renaming, reader>>
  BY TakesType DEF HandleChunk, Takes
<1>2. \/ UNCHANGED receiver
      \/ Abort
      \/ /\ bulk' = AfterChunk(bulk, m.x, q, fits)
         /\ ack => stagingOpen /\ shaActive
         /\ IF ack
            THEN staging' = Append(staging, m.piece) /\ sha' = Append(sha, m.piece)
            ELSE UNCHANGED <<staging, sha>>
         /\ UNCHANGED <<active, totalSize, stagingOpen, shaActive>>
  BY DEF HandleChunk, ShortWrite
<1>3. m.piece \in PieceType
  BY <1>1, MessageOfKind
<1> HIDE DEF m, q, fits, ack
<1>4. CASE UNCHANGED receiver
  BY <1>1, <1>4, Untouched
<1>5. CASE Abort
  BY <1>1, <1>5, Stopped DEF Abort, Inactive, ResetCryptoAndFile
<1>6. CASE ~ack /\ bulk' = AfterChunk(bulk, m.x, q, fits)
           /\ UNCHANGED <<staging, sha, active, totalSize, stagingOpen, shaActive>>
  <2>1. bulk' = bulk
    BY <1>6 DEF AfterChunk, ack
  <2> QED
    BY <1>1, <1>6, <2>1, Untouched DEF receiver
<1>7. CASE /\ ack /\ stagingOpen /\ shaActive /\ bulk' = AfterChunk(bulk, m.x, q, fits)
           /\ staging' = Append(staging, m.piece) /\ sha' = Append(sha, m.piece)
           /\ UNCHANGED <<active, totalSize, stagingOpen, shaActive>>
  <2>1. /\ bulk.active /\ q = bulk.next /\ q < bulk.total
        /\ m.piece.len = ExpectedLength(totalSize, ChunkSize, q)
    BY <1>7 DEF ack, Accepts, fits
  <2>2. bulk' = [bulk EXCEPT !.next = bulk.next + 1]
    BY <1>7 DEF AfterChunk, ack
  <2>3. /\ bulk'.active = bulk.active /\ bulk'.next = bulk.next + 1 /\ bulk'.total = bulk.total
        /\ bulk.next \in Nat /\ bulk.total \in Nat
    BY <2>2 DEF TypeOK
  <2>4. /\ sha = staging /\ Len(staging) = bulk.next
        /\ GridIsLegal(totalSize, bulk.total, ChunkSize) /\ totalSize + ChunkSize <= Modulus
        /\ \A k \in DOMAIN staging :
             /\ staging[k].seq = k - 1
             /\ staging[k].len = PieceLength(totalSize, ChunkSize, k - 1)
    BY <1>7 DEF UploadInvariant, StreamMatchesFile
  <2>5. staging \in Seq(PieceType) /\ totalSize \in Nat
    BY DEF TypeOK
  <2>6. m.piece.len = PieceLength(totalSize, ChunkSize, bulk.next) /\ m.piece.seq = bulk.next
    <3>1. totalSize \in 0 .. Modulus - 1 /\ ChunkSize \in 1 .. Modulus - 1
      BY <2>4, <2>5, UploadAssumption, GridAssumption
    <3>2. q \in 0 .. bulk.total - 1
      BY <2>1, <2>3
    <3> QED
      BY <2>1, <2>3, <2>4, <3>1, <3>2, ExpectedLengthIsExact DEF q
  <2>7. StreamMatchesFile'
    <3> DEFINE s == Append(staging, m.piece)
    <3>1. /\ DOMAIN s = 1 .. bulk.next + 1 /\ Len(s) = bulk.next + 1
          /\ s[bulk.next + 1] = m.piece
          /\ \A k \in 1 .. bulk.next : k \in DOMAIN staging /\ s[k] = staging[k]
      BY <1>3, <2>3, <2>4, <2>5, Appended
    <3>2. ASSUME NEW k \in DOMAIN s
          PROVE  s[k].seq = k - 1 /\ s[k].len = PieceLength(totalSize, ChunkSize, k - 1)
      <4> HIDE DEF s
      <4>1. CASE k = bulk.next + 1
        <5>1. k - 1 = bulk.next
          BY <2>3, <4>1
        <5> QED
          BY <2>6, <3>1, <4>1, <5>1
      <4>2. CASE k # bulk.next + 1
        <5>1. k \in 1 .. bulk.next
          BY <2>3, <3>1, <3>2, <4>2
        <5> QED
          BY <2>4, <3>1, <5>1
      <4> QED
        BY <4>1, <4>2
    <3>3. staging' = s /\ sha' = s /\ totalSize' = totalSize
      BY <1>7, <2>4
    <3>4. bulk'.next <= bulk'.total
      BY <2>1, <2>3
    <3> HIDE DEF s
    <3> QED
      BY <2>3, <2>4, <3>1, <3>2, <3>3, <3>4 DEF StreamMatchesFile
  <2>8. OneTransfer'
    BY <1>1, <1>7, <2>3 DEF UploadInvariant, OneTransfer
  <2>9. FilesAreNamedRight' /\ ReaderHoldsOneImage' /\ PathsAreVerified'
    BY <1>1, <1>7 DEF UploadInvariant, FilesAreNamedRight, ReaderHoldsOneImage,
                      PathsAreVerified, store
  <2> QED
    BY <2>7, <2>8, <2>9 DEF UploadInvariant
<1> QED
  BY <1>2, <1>4, <1>5, <1>6, <1>7

(* A whole transfer with the right hash has unlinked the path of its image,
   which no deploy can be given while the transfer is active.              *)
LEMMA EndStep == TypeOK /\ UploadInvariant /\ HandleEnd => UploadInvariant'
<1> SUFFICES ASSUME TypeOK, UploadInvariant, HandleEnd PROVE UploadInvariant'
  OBVIOUS
<1> DEFINE m == Head(otaQueue)
           result == EndResult(bulk, m.x, m.total)
<1>1. renaming = None /\ m \in Messages /\ m.kind = "END" /\ UNCHANGED reader
  BY TakesType DEF HandleEnd, Takes
<1>2. m.sha \in Contents
  <2>1. PICK x \in XferIds, i \in Images : m = End(x, i)
    BY <1>1, MessageOfKind
  <2> QED
    BY <2>1 DEF End, Contents
<1>3. \/ UNCHANGED <<receiver, store, renaming>>
      \/ Abort /\ UNCHANGED <<store, renaming>>
      \/ CloseAndStop /\ UNCHANGED <<store, renaming>>
      \/ /\ result = "OK" /\ stagingOpen /\ sha = m.sha
         /\ stagingOpen' = FALSE /\ shaActive' = FALSE
         /\ renaming' = PathFor(sha)
         /\ firmware' = [p \in DOMAIN firmware \ {PathFor(sha)} |-> firmware[p]]
         /\ UNCHANGED <<active, bulk, staging, lastFirmwarePath>>
  BY DEF HandleEnd
<1> HIDE DEF m, result
<1>4. CASE UNCHANGED <<receiver, store, renaming>>
  BY <1>1, <1>4, Untouched
<1>5. CASE Abort /\ UNCHANGED <<store, renaming>>
  BY <1>1, <1>5, Stopped DEF Abort, Inactive, ResetCryptoAndFile
<1>6. CASE CloseAndStop /\ UNCHANGED <<store, renaming>>
  BY <1>1, <1>6, Stopped DEF CloseAndStop, Inactive
<1>7. CASE /\ result = "OK" /\ stagingOpen /\ sha = m.sha
           /\ stagingOpen' = FALSE /\ shaActive' = FALSE
           /\ renaming' = PathFor(sha)
           /\ firmware' = [p \in DOMAIN firmware \ {PathFor(sha)} |-> firmware[p]]
           /\ UNCHANGED <<active, bulk, staging, lastFirmwarePath>>
  <2>1. bulk.active /\ bulk.next = bulk.total
    BY <1>7 DEF result, EndResult
  <2>2. sha = staging /\ Len(staging) = bulk.next /\ bulk.total # 0
    BY <1>7 DEF UploadInvariant, StreamMatchesFile, GridIsLegal
  <2>3. renaming' = staging /\ renaming' # None /\ renaming' \in Contents
    <3>1. Len(<<>>) = 0
      OBVIOUS
    <3> QED
      BY <1>2, <1>7, <2>1, <2>2, <3>1 DEF PathFor, None
  <2>4. active
    BY <2>1 DEF UploadInvariant, OneTransfer
  <2>5. OneTransfer'
    BY <1>7, <2>1, <2>3, <2>4 DEF OneTransfer
  <2>6. StreamMatchesFile'
    BY <1>7 DEF StreamMatchesFile
  <2>7. FilesAreNamedRight'
    BY <1>7 DEF UploadInvariant, FilesAreNamedRight
  <2>8. PathsAreVerified'
    BY <1>7, <2>3, <2>4 DEF UploadInvariant, PathsAreVerified
  <2>9. ReaderHoldsOneImage'
    BY <1>1 DEF UploadInvariant, ReaderHoldsOneImage
  <2> QED
    BY <2>5, <2>6, <2>7, <2>8, <2>9 DEF UploadInvariant
<1> QED
  BY <1>3, <1>4, <1>5, <1>6, <1>7

(* The renamed file is what its name says.                                 *)
LEMMA RenameStep == UploadInvariant /\ Rename => UploadInvariant'
<1> SUFFICES ASSUME UploadInvariant, Rename PROVE UploadInvariant'
  OBVIOUS
<1>1. /\ renaming # None /\ renaming' = None /\ UNCHANGED reader
      /\ active' = FALSE /\ bulk' = IdleReceiver /\ stagingOpen' = FALSE /\ shaActive' = FALSE
  BY DEF Rename, CloseAndStop, Inactive
<1>2. CASE UNCHANGED store
  BY <1>1, <1>2, Stopped
<1>3. CASE /\ firmware' = [p \in DOMAIN firmware \cup {renaming} |->
                            IF p = renaming THEN staging ELSE firmware[p]]
           /\ lastFirmwarePath' = renaming
  <2>1. staging = renaming /\ renaming \in Contents
    BY <1>1 DEF UploadInvariant, OneTransfer, PathsAreVerified
  <2>2. OneTransfer'
    BY <1>1 DEF OneTransfer, IdleReceiver
  <2>3. StreamMatchesFile'
    BY <1>1 DEF StreamMatchesFile
  <2>4. FilesAreNamedRight'
    BY <1>1, <1>3, <2>1 DEF UploadInvariant, FilesAreNamedRight
  <2>5. PathsAreVerified'
    BY <1>1, <1>3, <2>1 DEF PathsAreVerified
  <2>6. ReaderHoldsOneImage'
    BY <1>1 DEF UploadInvariant, ReaderHoldsOneImage
  <2> QED
    BY <2>2, <2>3, <2>4, <2>5, <2>6 DEF UploadInvariant
<1> QED
  BY <1>2, <1>3 DEF Rename

(* What the forwarder looks up, opens and hashes is one image.             *)
LEMMA ForwardStep == TypeOK /\ UploadInvariant /\ Forward => UploadInvariant'
<1> SUFFICES ASSUME TypeOK, UploadInvariant, Forward PROVE UploadInvariant'
  OBVIOUS
<1>1. UNCHANGED <<receiver, store, renaming>>
  BY DEF Forward, LookUpPath, OpenFirmware, HashFirmware, CloseFirmware
<1>2. OneTransfer' /\ StreamMatchesFile' /\ FilesAreNamedRight' /\ PathsAreVerified'
  BY <1>1 DEF UploadInvariant, OneTransfer, StreamMatchesFile, FilesAreNamedRight,
              PathsAreVerified, receiver, store
<1>3. ReaderHoldsOneImage'
  <2>1. reader \in [path : Seq(PieceType), stream : Seq(PieceType), hash : Seq(PieceType)]
    BY DEF TypeOK
  <2>2. /\ reader.path # None => reader.path \in Contents
        /\ reader.stream \in {None, reader.path} /\ reader.hash \in {None, reader.stream}
        /\ lastFirmwarePath # None => lastFirmwarePath \in Contents
        /\ \A p \in DOMAIN firmware : firmware[p] = p
    BY DEF UploadInvariant, ReaderHoldsOneImage, PathsAreVerified, FilesAreNamedRight
  <2>3. CASE reader' = Reading
    BY <2>3 DEF Reading, ReaderHoldsOneImage
  <2>4. CASE LookUpPath
    BY <2>1, <2>2, <2>4 DEF LookUpPath, ReaderHoldsOneImage
  <2>5. CASE OpenFirmware
    BY <2>1, <2>2, <2>3, <2>5 DEF OpenFirmware, ReaderHoldsOneImage
  <2>6. CASE HashFirmware
    BY <2>1, <2>2, <2>3, <2>6 DEF HashFirmware, ReaderHoldsOneImage
  <2> QED
    BY <2>3, <2>4, <2>5, <2>6 DEF Forward, CloseFirmware
<1> QED
  BY <1>2, <1>3 DEF UploadInvariant

(* Every step keeps the invariant.                                         *)
LEMMA UploadStep == TypeOK /\ UploadInvariant /\ [Next]_vars => UploadInvariant'
<1> SUFFICES ASSUME TypeOK, UploadInvariant, [Next]_vars PROVE UploadInvariant'
  OBVIOUS
<1>1. CASE ServerSends
  <2>1. PICK m \in Messages : Send(m)
    BY <1>1, SentIsMessage
  <2> QED
    BY <2>1, Untouched DEF Send
<1>2. CASE WatchdogFires
  BY <1>2, Untouched DEF WatchdogFires
<1>3. CASE HandleWatchdogFire
  <2>1. renaming = None /\ renaming' = None /\ UNCHANGED <<store, reader>>
    BY <1>3 DEF HandleWatchdogFire, Takes
  <2>2. CASE Abort
    BY <2>1, <2>2, Stopped DEF Abort, Inactive, ResetCryptoAndFile
  <2>3. CASE UNCHANGED receiver
    BY <2>1, <2>3, Untouched
  <2> QED
    BY <1>3, <2>2, <2>3 DEF HandleWatchdogFire
<1>4. CASE PowerCut
  <2>1. FilesAreNamedRight'
    BY <1>4 DEF UploadInvariant, FilesAreNamedRight, PowerCut
  <2> QED
    BY <1>4, <2>1 DEF PowerCut, Inactive, IdleReceiver, UploadInvariant, OneTransfer,
                      StreamMatchesFile, PathsAreVerified, ReaderHoldsOneImage, Reading
<1>5. CASE UNCHANGED vars
  BY <1>5, Untouched DEF vars
<1> QED
  BY <1>1, <1>2, <1>3, <1>4, <1>5, BeginStep, ChunkStep, EndStep, RenameStep, ForwardStep
     DEF Next, Receive

(* What is hashed is what is staged, files are what their names say, and only
   whole images are to be had.                                             *)
THEOREM UploadInvariantHolds == Spec => []UploadInvariant
<1>1. Init => UploadInvariant
  <2>1. Init => FilesAreNamedRight
    BY DEF Init, FilesAreNamedRight
  <2>2. Init => OneTransfer
    <3>1. IdleReceiver.active = FALSE
      BY DEF IdleReceiver
    <3> QED
      BY <3>1 DEF Init, OneTransfer
  <2>3. Init => StreamMatchesFile
    BY DEF Init, StreamMatchesFile
  <2>4. Init => PathsAreVerified
    BY DEF Init, PathsAreVerified
  <2>5. Init => ReaderHoldsOneImage
    BY DEF Init, ReaderHoldsOneImage, Reading
  <2> QED
    BY <2>1, <2>2, <2>3, <2>4, <2>5 DEF UploadInvariant
<1> QED
  BY <1>1, UploadStep, UploadTypeCorrect, PTL DEF Spec

(* The path a deploy is given names a whole image, verified.               *)
THEOREM AccessorAlwaysVerified == Spec => []AccessorIsVerified
<1>1. UploadInvariant => AccessorIsVerified
  BY DEF UploadInvariant, PathsAreVerified, FilesAreNamedRight, AccessorIsVerified
<1> QED
  BY <1>1, UploadInvariantHolds, PTL

(* A deploy streams one image and hashes the same.                         *)
THEOREM StreamedIsAlwaysHashed == Spec => []StreamedIsHashed
<1>1. UploadInvariant => StreamedIsHashed
  BY DEF UploadInvariant, ReaderHoldsOneImage, StreamedIsHashed
<1> QED
  BY <1>1, UploadInvariantHolds, PTL

-----------------------------------------------------------------------------
(* The watchdog.                                                           *)

FireIsQueued == \E k \in DOMAIN otaQueue : otaQueue[k] = Fire

(* Sending keeps a signal in the queue.                                    *)
LEMMA SendKeepsFire ==
  ASSUME TypeOK, NEW m \in Messages, otaQueue' = Append(otaQueue, m), FireIsQueued \/ m = Fire
  PROVE  FireIsQueued'
<1>1. otaQueue \in Seq(Messages)
  BY DEF TypeOK
<1>2. /\ DOMAIN Append(otaQueue, m) = 1 .. Len(otaQueue) + 1 /\ Len(otaQueue) \in Nat
      /\ Append(otaQueue, m)[Len(otaQueue) + 1] = m
      /\ \A k \in DOMAIN otaQueue :
           k \in 1 .. Len(otaQueue) + 1 /\ Append(otaQueue, m)[k] = otaQueue[k]
  BY <1>1, Appended
<1> QED
  BY <1>2 DEF FireIsQueued

(* Taking a message of another kind leaves it there.                       *)
LEMMA TakeKeepsFire ==
  ASSUME TypeOK, NEW kind, kind # "WATCHDOG_FIRE", Takes(kind), FireIsQueued
  PROVE  FireIsQueued'
<1>1. otaQueue \in Seq(Messages) /\ otaQueue # <<>> /\ otaQueue' = Tail(otaQueue)
      /\ Head(otaQueue).kind = kind
  BY DEF TypeOK, Takes
<1>2. PICK k \in DOMAIN otaQueue : otaQueue[k] = Fire
  BY DEF FireIsQueued
<1>3. k # 1
  BY <1>1, <1>2, Beheaded DEF Fire
<1>4. k - 1 \in 1 .. Len(Tail(otaQueue)) /\ DOMAIN Tail(otaQueue) = 1 .. Len(Tail(otaQueue))
  BY <1>1, <1>2, <1>3, Beheaded
<1>5. Tail(otaQueue)[k - 1] = otaQueue[k - 1 + 1] /\ k - 1 + 1 = k
  BY <1>1, <1>2, <1>4, Beheaded
<1> QED
  BY <1>1, <1>2, <1>4, <1>5 DEF FireIsQueued

(* Every step keeps a transfer under way watched.                          *)
LEMMA WatchedStep == TypeOK /\ Watched /\ [Next]_vars => Watched'
<1> SUFFICES ASSUME TypeOK, active /\ ~missed => watchdog \/ FireIsQueued, [Next]_vars,
                    active', ~missed'
             PROVE  watchdog' \/ FireIsQueued'
  BY DEF Watched, FireIsQueued
<1>1. CASE ServerSends
  <2>1. PICK m \in Messages : Send(m)
    BY <1>1, SentIsMessage
  <2> QED
    BY <2>1, SendKeepsFire DEF Send, receiver, timer
<1>2. CASE WatchdogFires
  <2>1. Fire \in Messages
    BY DEF Messages
  <2> QED
    BY <1>2, <2>1, SendKeepsFire DEF WatchdogFires
<1>3. CASE HandleWatchdogFire
  BY <1>3 DEF HandleWatchdogFire, Abort, Inactive, receiver
<1>4. CASE HandleBegin
  <2>1. Takes("BEGIN")
    BY <1>4 DEF HandleBegin
  <2>2. watchdog' = TRUE \/ UNCHANGED <<active, watchdog, missed>>
    BY <1>4 DEF HandleBegin, WatchdogStart, receiver, timer
  <2> QED
    BY <2>1, <2>2, TakeKeepsFire
<1>5. CASE HandleChunk
  <2>1. Takes("CHUNK")
    BY <1>5 DEF HandleChunk
  <2>2. watchdog' = TRUE \/ UNCHANGED <<active, watchdog, missed>>
    BY <1>5 DEF HandleChunk, WatchdogRestart, ShortWrite, Abort, Inactive, receiver, timer
  <2> QED
    BY <2>1, <2>2, TakeKeepsFire
<1>6. CASE HandleEnd
  <2>1. Takes("END")
    BY <1>6 DEF HandleEnd
  <2>2. UNCHANGED <<active, watchdog, missed>>
    BY <1>6 DEF HandleEnd, Abort, CloseAndStop, Inactive, receiver, timer
  <2> QED
    BY <2>1, <2>2, TakeKeepsFire
<1>7. CASE Rename \/ PowerCut
  BY <1>7 DEF Rename, CloseAndStop, PowerCut, Inactive
<1>8. CASE Forward \/ UNCHANGED vars
  <2>1. UNCHANGED <<otaQueue, active, watchdog, missed>>
    BY <1>8 DEF Forward, LookUpPath, OpenFirmware, HashFirmware, CloseFirmware,
                vars, receiver, timer
  <2> QED
    BY <2>1 DEF FireIsQueued
<1> QED
  BY <1>1, <1>2, <1>3, <1>4, <1>5, <1>6, <1>7, <1>8 DEF Next, Receive

(* A transfer under way is watched, unless its signal met a full queue.    *)
THEOREM AlwaysWatched == Spec => []Watched
<1>1. Init => Watched
  BY DEF Init, Watched
<1> QED
  BY <1>1, WatchedStep, UploadTypeCorrect, PTL DEF Spec
===============================================================================
