# A verification project for AstrOs.ESP

AstrOs.ESP is the firmware of a network of ESP32 controllers in a droid. One node, the *master*,
talks to a server over a serial line. The others, the *padawans*, talk to the master over ESP-NOW.
Every node plays animation scripts on servos, serial lines, I2C and GPIO; the master also
distributes firmware updates. This project models the parts of it whose correctness depends on
order, loss, time and several tasks, checks them with TLC on small instances and proves the most
important invariants with TLAPS for every value of the constants.

## 1. Inventory

| Component | State | Operations | Talks to | What is hard |
|---|---|---|---|---|
| **Bulk transport** `lib_native/AstrOsBulkTransport` | sender: status, cursors, in-flight table; receiver: next chunk | begin, ack, nak, tick, end | used by forwarder, writer, receiver | lost, repeated, late replies; window and retry limits |
| **OTA forwarder** `lib/OtaForwarder` | phase, order list, rows, deadlines, `wireBusy_` | one handler per queue message | writers over ESP-NOW, the server's report | sentinels of deadlines racing answers; partial failure; rows in order |
| **OTA writer** `lib/OtaWriter` | receiver, OTA handle, watchdog, boot partition | BEGIN, DATA, END, local flash, watchdog | forwarder, bootloader | failed writes, restart and rollback, watchdog racing a chunk |
| **ESP-NOW service** `lib/AstrOsEspNow` | peers, peer versions and uptimes, frames in the radio | receive, route, poll, register | all tasks, through queues | full queues, six frames in the radio |
| **OTA receiver** `lib/OtaReceiver` | receiver, staging file, running hash, path of the last image, watchdog | BEGIN, CHUNK, END, watchdog | serial handler, storage, forwarder | file, hash and path must go together through failures, a late watchdog, power cuts and a deploy under way |
| **Animation controller and engine** `lib/AnimationController`, `lib_native/AstrOsAnimationEngine` | script queue, event list, three atomics | queueScript, queueCommand, panicStop, loadNextScript, getNextCommandPtr | interface task, dispatch task | file read without the mutex, panic in between |
| **Peer list, ESP-NOW protocol, NVS** `lib_native/AstrOsEspNowPeers`, `AstrOsEspNowProtocol`, `lib/AstrOsStorageManager` | peers in memory, in the driver and in flash, the acknowledgement flags of the poll cycle | registration, poll cycle, save, load, erase | ESP-NOW service, polling timer, button | two nodes that must agree, each write to flash apart, power cuts, late acknowledgements |
| **Messaging** `lib_native/AstrOsMessaging` | packets of unfinished messages and when the last of each came | generatePackets, addPacket, getMessage, expire | ESP-NOW service | loss, repetition, expiry, ids drawn twice, a clock that runs over |
| **Serial protocol and handler** `lib_native/AstrOsSerialProtocol`, `lib/AstrOsSerialMsgHandler` | none to speak of | routing of requests | server, interface task | routing only |
| **main.cpp** | queues, tasks, timers, flags | task loops, polling timer | all | priorities; polls against transfers |
| Files on the card, output modules and buses, display, utilities, vendored `components/` | | input and output | | outside the models |

`PROJECT.json` lists every component with its status, and under `hazards` what is hard to test,
each at its line.

### What makes each correct

* Bulk transport: what the master counts as confirmed was written; the partition is a gap-free
  prefix; *done* means the whole image; the window is never exceeded (the code aborts otherwise).
* Deploy: each request gets one report, with one row per entry in the operator's order; OK means the
  padawan runs the image; each wait has its own deadline and no other; a deploy ends.
* Animation: scripts play whole and in order; after a panic nothing older is taken; the loaded flag
  promises an event; the controller falls idle.
* Upload: what is hashed is what is staged; a path the receiver hands out names a whole image with
  the hash the server quoted; a deploy streams the image it hashes; a silent server does not hold the
  receiver.
* Registration: the master lists nobody who has forgotten it; a restart gives back what was listed;
  the polls tell the server in the end who is there and who is not.
* Messages: what a padawan hands on is a whole message, once; one that arrives in time is handed on.

## 2. Modules

| Module | Models | State |
|---|---|---|
| `BulkSender` | `BulkSender`: pure operators on a sender record, and `SenderSpec`, the sender against a peer that may say anything | `tx` |
| `BulkReceiver` | `BulkReceiver` as operators on a receiver record | |
| `FirmwareTransfer` | the abstract transfer: chunks are written, then learnt of, then the outcome is known | `outcome, written, known` |
| `BulkTransfer` | sender and receiver, with the handlers that call them, over a network that loses, repeats, delays and reorders; implements `FirmwareTransfer` | `tx, rx, net, started, newest, flash, got` |
| `OtaLink` | the queues between forwarder and writers | `fq, down, localReq` |
| `OtaForwarder` | every handler, timer and deadline of `lib/OtaForwarder` | class members |
| `OtaWriter` | the writer on every padawan, and the master's self-flash | `pad, masterBoot` |
| `OtaDeploy` | the deploy end to end, with polls, losses, power cuts and the operator | bounds, `pollDue`, history `strays`, `unheard` |
| `ScriptPlayer` | the abstract player: scripts accepted, played in order, stopped | `playlist, playing, stopping` |
| `AnimationController` | controller, engine queue, interface task and dispatch task; implements `ScriptPlayer` | class members, program points |
| `ChunkGrid` | the 32-bit arithmetic that cuts an image into chunks: `chunksForSize`, the check of `begin`, the length `onChunk` expects | |
| `OtaReceiver` | staging over serial: every handler, the idle watchdog, the server, the card, and the forwarder's reads of the staged file | class members, `otaQueue`, `firmware`, `reader` |
| `PeerRegistry` | registration on both sides, the peer lists in memory, driver and flash, the poll cycle, power, buttons | `list, driver, flash, acked, queue, todo, view` |
| `PacketTracker` | cutting a message into packets, the link, `PacketTracker` and its clock | `packetMap, packetExpirationMap, link, handed` |
| `*_proofs` | the theorems | |
| `MC_*` | values of constants that a `.cfg` cannot write | |

`OtaDeploy` EXTENDS forwarder and writer, which drive the same `BulkSender` and `BulkReceiver`
operators that `BulkTransfer` drives and `BulkSender_proofs` is about; `OtaReceiver` drives the
same `BulkReceiver` with the lengths of `ChunkGrid`. What they share with each other is narrow:
`OtaReceiver` and the deploy meet in the staged path and its file, which `OtaReceiver` models with a
reader and `OtaDeploy` with the fault `unstaged`; `PeerRegistry` and the deploy meet in the polling
timer, which `OtaDeploy` models with the transfer's pause. An operator named
`...Unchecked`, `...Untimed` and so on, with the comment *Mutant:*, is a deliberately wrong variant
of the operator below it; no specification uses it.

### How state and actions correspond to the code

*Bulk transport.* `tx` has the fields of the class: `next` is `nextSeqToSend_`, `highWater` is
`highWaterSentSeq_`, `confirmed` is `highestConfirmedSeq_ + 1` or 0 (folding `anyConfirmed_`),
`inFlight` the occupied slots with their retry counts. Send times become the choice, in a tick, of
the set of slots that are overdue. Each method is one operator and one action.

*Forwarder.* One action per handler, `StartNextPadawan` included as part of the handler that calls
it: its loop over entries that cannot be set up is one choice of how many are skipped. A handler of
a message takes it from `fq` in the same step, since the task handles one message at a time. Set-up
failures that lead to the same row are merged. The timers are a set; the callback that posts a
sentinel is `TimerFires`; sentinels carry the id 255 and no sender, as in the code. A chunk or
resend that cannot be sent is a lost frame. Ticks are handled when they fire. A one-shot timer that
fires at a full queue loses its sentinel (`postTimeoutSentinel`): the timer is gone, nothing is
posted, and the history variable `unheard` remembers it for as long as that wait lasts.

*Polls.* `PollingTimerFires` is the timer's look at `wireBusy_`, `Poll` what the ESP-NOW task then
sends, whatever has become of the flag (`pollDue` in between), with the answer, which only the wait
for a version reads. The next look is four seconds away, so that one poll at most is waiting to be
sent. The history variable `strays` counts the polls sent since the wire was taken. The timer
also looks at the receiver and the master's own writer, which suspends more polls than the model
does. `handleDeployBegin` takes the wire for the whole deploy, a flash result gives it back, and the
next BEGIN takes it again; `startMasterSelfFlash` leaves it as it finds it (`HoldWire`).
`checkPeerVersionForCurrentPadawan` takes an answer to come from before the restart when its uptime
is not below the time waited; the bit `fresh` says it exactly. The two agree because the wait lasts 15
seconds and the transfer before it, all of which the padawan was up, about 100 for the 1.2 MB and the
12 KB/s of the project's documents; a version of it for images of a few KB would not.

*Writer.* `pad[p].rx.active` is `active_`; what is written is `rx.next`. The two-second sleep
between OTA_END_ACK and the flip of the boot partition is the mode `flipping`, and the time from the
flip to the end of the restart is `restarting`, whose end may find the image rolled back. The
radio and the writer's queue are one FIFO. A power cut empties it and boots the selected image.

*Animation.* A critical section of `animationMutex` is one action, except `panicStop`'s, split where
an unlocked reader can tell. `loadNextScript` is split where it gives up the mutex to read the file.
The interface task has the higher priority on the same core, so that it interrupts the dispatcher
anywhere, and is itself only interleaved where it blocks. `scriptEvents` is turned round: its head
is the back of the vector. Delays are left out.

*OTA receiver.* One action per message of `otaQueue`, the first choice in it the guards of the
handler and the later ones its failures: the card full, a short write, a close or rename that fails.
`handleEnd` is split between its unlink and its rename, where the power may fail and the forwarder
may look. Bytes are pieces: which image, which place, how long. A file is a sequence of pieces, and a
hash is the sequence that was hashed, so that a wrong byte, a missing chunk and a repeated one all
show; a path is the hash it is named after (the code uses its first 16 digits). The watchdog's
callback posts a `Fire`, which stands in the queue behind whatever is there, and `missed` says that
one met a full queue. The handler of a `Fire` does not stop the timer, as in the code, and a late one
may abort a transfer that is alive: the properties are about what must hold nevertheless.

*Peer registry.* `list` is `AstrOsEspNowPeers`, `driver` the peers of the ESP-NOW driver and
`flash` what NVS holds: the master's flag, the count and the key of each place. A handler that writes
to flash puts its writes in `todo`, and the node's task carries them out one by one, with power cuts,
button presses and the other nodes in between; a second message waits, as one task handles them all.
The load at boot reads missing keys as zeros and gives up at the first peer the driver refuses. The
acknowledgement flags of peers loaded at boot are uninitialised in the code and therefore arbitrary.
`handleRegistrationAck` also overwrites the master's own `mac` and `name` members; nothing reads
them afterwards, and they are left out.

*Packet tracker.* `Send` is `sendBasicCommand` down to the packets of `generatePackets`. `packetMap`
keeps the packets in the order they came, which is the order `getMessage` joins them in; no entry
and an empty one are the same. `nowMs` is time as the `int` it is cut to, so that it runs over, and
the sum that overflows in `expireMessages` may go either way. A message carries the life of the
master it was sent in, since ids come from a `rand()` nobody seeds. The burst of one message is not
interleaved with another's because one task sends them all.

## 3. Runs

| Run | Question | Bounds | States |
|---|---|---|---|
| `bulk_sender` | does the sender stay sane against any peer? | 4 chunks, windows 0-3 of at most 2, retries 0-2, numbers beyond the range | 1,861 |
| `bulk_transfer` | is the transfer correct and a refinement? | 2 chunks, window 2, 1 retry, 2 transfers | 225,533 |
| `deploy_ends` | rows in order, success is real, and does each deploy end? | padawan, master, padawan; 2 chunks, window 1, 1 loss, 1 power cut, every failure of forwarder and writer; patient, fair | 89,541 |
| `deploy_races` | one report per request, no stray timer, bounded waits, polls and success | two padawans; or one, no one and the same one again; or the master alone and then behind a padawan; 1 chunk, 1 loss, 1 power cut, every failure of the writer, a queue of 3 that fills; impatient; redeploying the running version | 2.10 million |
| `upload` | are file, hash and path one image, and is the receiver released? | two images of 2 chunks and 1, numbers of 4 bits, ids 1 and 256, queue of 2, every fault; fair | 631,540 |
| `animation` | panic, type and flag; refinement of the player; does the queue drain? | queue of 2 slots, scripts of 2 and 0 events, 1 command, 5 requests, timeouts; fair | 13,659 |
| `registry` | do master, padawan and flash agree, and do the polls tell the truth in the end? | a padawan that registers, one listed before and away; 4 places, 2 names, queues of 3, 2 troubles; fair | 166,414 |
| `messages` | is what arrives whole, and does what is in time arrive? | 2 ids, 2 lives of the master, 3 packets, 3 on the link, a clock of 8 values, expiry after 1, 4 ticks, 2 troubles | 1.85 million |

The violation runs each check what a comment or a test plan of the repository says and the code does
not keep; they are the `findings` of `PROJECT.json`:

* `no_firmware_row`: with no staged image, a master entry already deferred is missing in the report.
* `lost_last_ack`: losing the acknowledgement of the last chunk fails a transfer that was written whole.
* `premature_end`: at the radio's limit OTA_END overtakes a rewound cursor and a success is rejected.
* `lost_command`: a command accepted during the file read is overwritten by the script.

### Bounds, and why they are enough

Two chunks with a window of two show every relation of cursor, watermark and window (below, at, past
the end); `deploy_ends`, whose every failure is on, has a window of one (with one padawan and a
window of two, 304,000 states, it holds as well, but takes too long to keep beside the other); two transfers show every confusion of one with another; the theorems cover the rest.
`MaxRetries = 1` reaches exhaustion in one tick; the lost-ack run uses 3. Two padawans with the
master between them show carry-over from one entry to the next and the insertion of the master's
row. `MaxBacklog` bounds the frames and replies under way when an acknowledgement is overdue: it
cuts resending storms, which the code bounds only by its queues of 16 and 64. `QueueLength` and
`WriterQueueLength` are 3, far below the code's 16. `Agendas` (the order lists the operator sends,
one deploy after the other), `MaxLosses`, `MaxCrashes`, `MaxTransfers`, `MaxRequests`, `MaxTroubles`,
`MaxLives` and `MaxTicks` bound the environment. Deadlock checking
is off for deploys, which stop when the operator's requests are used up; the animation dispatcher
never stops.

`Patient` chooses between two views of time. Patient deadlines pass only when nothing else can
happen, as the firmware's times intend. Impatient ones race their answers.

In `upload` the 4-bit numbers stand for the code's 32: images of 7 and 4 bytes in chunks of 4 have a
short last chunk and a full one, and the id 256 is one the handlers must refuse, since an id is one byte.
The theorems about `ChunkGrid` are for any width. In `registry` two troubles are enough to cut both
of two saves short, or to lose an acknowledgement and press the button; four places are never filled
by the two padawans, as in the code, which has four names for ten places, but gaps left by saves cut
short count too. In `messages` a link of three packets holds one whole long message or the tail of
one and the start of another, an expiry of one tick lets a message be late by one, and the clock of
eight values runs over after three ticks; the bounds one larger each (expiry 2, clock of 12 values, 7
ticks, 4 on the link; 5.94 million states) were run once and hold too, but take too long to keep. The
second id and the second life show ids drawn again: a message of the second life can then be joined
with what is left of one of the first. `DeliveredWhole` allows that and nothing else; the code has no
defence against it but the expiry, and the chance of it lies in what `rand()` draws after a restart.

### Fairness

`deploy_ends` takes weak fairness of each task, timer, poll and writer: all are FreeRTOS tasks or
periodic timers that block only on their queues. The operator, losses and power cuts have none.
`DeployEnds` names the one way a deploy need not end under it: the forwarder streams for ever and a
padawan refuses its chunks again and again. In that run, which is patient, a deadline finds the queue
empty, so that its sentinel is never dropped; what a dropped one does to a wait is in `deploy_races`,
where `WaitIsBounded` has it as its exception. `animation` takes weak fairness
of the interface task finishing an operation it began and of the dispatch task, and strong fairness of
the dispatcher getting the mutex to take a script: the mutex is held for milliseconds, so that
waits of seconds for it do not run out every time. `upload` takes weak
fairness of the receiver's task and of its watchdog, and none of the server. `registry` takes weak
fairness of each node's ESP-NOW task and of the second half of an erase, and strong fairness of the
polling timer, whose post waits for room in the queue; power, buttons and losses have none.
`messages` asks for safety only: nothing is sent again at this level, so that nothing need arrive.

## 4. Proofs

All are for arbitrary constants that satisfy the modules' assumptions.

`BulkSender_proofs`: the sender record's type, order of cursors, slot table and earned completion
are one inductive predicate `SenderOK`, preserved by each operation; the action property that
nothing confirmed is forgotten follows from it.

`BulkTransfer_proofs`: `TransferInvariant` is inductive, `TypeOK` one of its parts. Its core is `FramesAreHonest` (a frame says
what was true of its transfer when sent, and what was written for a transfer never shrinks) and
`HandshakeFirst` (chunks flow only after the padawan accepted the BEGIN of their transfer). Without
the second, a chunk could meet a receiver that runs another transfer, whose refusal carries this
transfer's id with the other's position. From it follow the five safety properties and the
refinement: Init maps to Init and each step to an abstract step or a stutter. One assumption about
the network is in the model: once a padawan has seen the BEGIN of a transfer, no frame of an older
one reaches it (`newest`). ESP-NOW delivers the frames of one sender in order. Transfer ids are
fresh for each transfer in this module; in the code they are positions in an order list and start at
1 again with each deploy, which `OtaDeploy` models.

`OtaDeploy_proofs`: the handlers are classified once (`Moves`, `TickMoves`): whatever message comes in
whatever phase, the deploy stays where it is, shifts its phase, gives a padawan up or concludes the
master. What follows reads only the classification, and each of four invariants adds what its
properties need:

* `ControlInv` gives `OneReportPerDeploy`, `NoStrayTimer`, `WaitIsBounded` and `PollsYieldToTransfer`.
  A timer alone would not be inductive: a deadline may have passed and be on its way as a sentinel,
  which the invariant must therefore know to carry no id of a padawan (`SentinelIds`); or the queue was
  full, which stays `unheard` until the wait is over. A poll that is due can be the one stray or come
  after it, never both (`StraysCounted`), and in a deploy whose list names only the master no step
  before the last gives the wire back.
* `SuccessInv` gives `SuccessIsReal`: an OK or a flash result on its way, a row of the deploy under way
  and a row of any report are true of the padawan they name, and no step takes an image back.
* `OnceInv` gives `SuccessIsReal` again, where bootloaders roll back. A padawan whose turn is still to
  come has no frames on their way to it, a BEGIN is only ever the first of them, and the forwarder sends to
  none but the current padawan. So no BEGIN is left on its way to a padawan once its turn is over, and
  one that rests by then keeps its image (`Settled`); of one that still restarts, nothing is believed until
  it has been heard from again.
* `OrderInv` gives `ReportMatchesOrder`: rows and what is still to do make up the list. What
  `StartNextPadawan` skips is one ascending enumeration of positions (`PadawansIn`) and what the
  sender may have sent in one drain has a closed form (`Sent`), so that neither needs recursion; where an
  argument runs over positions it takes the least counterexample (`LeastNumber`).

Three of these have a hypothesis. `DeploySuccessIsReal` leaves rollback out, and takes any lists and any
version. `DeploySurvivesRollback` takes rollbacks, lists that ask for each padawan once over all deploys, and
a staged version other than the running one. Neither can be dropped: a bootloader that rolls back a later deploy of
the same padawan undoes an earlier success, and where the running version is deployed again a
rollback cannot be told from a success; TLC finds both. `deploy_races` falls under the first theorem and
`deploy_ends` under the second. `DeployReportMatchesOrder` takes lists that name
the master at most once: `handleDeployBegin` would defer the second entry over the first, and its row
would be lost; and, when the staged firmware may vanish, at the end, since a master deferred before
then gets no row, which is the finding of `no_firmware_row`.

`AnimationController_proofs`: type correctness, `LoadedMeansEvents` and `PanicHalts` hold with or
without timeouts of the mutex. `PanicHalts` follows from `PanicInvariant`: all that is queued, listed,
or being read under the current generation was asked for after the last panic. The clause on the
script being read is what `panicGeneration` is for; without it the event list would not stay recent
when the script is installed. A panic counts from when it has had the mutex: when `panicStop`'s wait
runs out it changes only the flag, as the code's own log line says, and nothing is claimed of it. Nor
is anything claimed of the event the dispatcher already holds when the panic comes. The refinement of
`ScriptPlayer` is proved for `Spec`, without fairness: each step of the controller is one of the player or
a stutter. A panic asks, clears and ends as the player's stop does, where `Cleared` is what lets it end:
nothing is accepted between clearing and the end. A script taken from the queue counts as waiting until
it is installed, and as gone once a panic has come meanwhile (`Ongoing`).

`ChunkGrid_proofs`: where `chunksForSize` answers at all its sum has not wrapped, what it answers is a
grid that `begin` accepts, and in such a grid the length `onChunk` computes in 32 bits is that of the
piece. The check of `begin` alone does not give the last: it accepts sizes near the top of the range
for which `committedBytes` plus a chunk wraps, and only the serial path's way to the number of chunks
keeps them out.

`OtaReceiver_proofs`: `UploadInvariant` is inductive. Handle, hash and bulk receiver live and die
together (`OneTransfer`), the hash is of what is in the file (`StreamMatchesFile`, which needs the
theorems of `ChunkGrid`), files are what their names say, and only what the server named becomes a
path (`PathsAreVerified`, whose clause that no path is to be had during a transfer is what keeps a
reader from a file that is being replaced). `AccessorIsVerified` and `StreamedIsHashed` follow;
`Watched` has its own step on top of the types.

`PeerRegistry_proofs`: `RegistryInvariant` is inductive: types, for each node that its flash, list,
driver and the writes still to do fit together (`NodeOK`), and that a padawan the master counts on,
at whatever stage of the exchange, has stored its master. The exchange alone would not give
`RegistrationIsKept`: the writes of the padawan come before its acknowledgement, those of the master
after, and the invariant has to say so at each of the five points in between.

`PacketTracker_proofs`: `TrackerInvariant` is inductive, and `DeliveredWhole` follows. The link keeps
the order of one message's packets (`LinkOrdered`), what is stored of it is behind what is on the
link (`StoredBehind`), so that the stored numbers climb (`Climbing`), and as many climbing numbers as
there are must be all of them. Once a message has been handed on no more of it is left than copies of
its last packet (`LastOnly`), of which no whole can be made again. `PunctualInvariant` adds that the
tracker holds all that has arrived in time of the message that is arriving, and nothing else
(`ArrivingTracked`), which needs that what the link repeats it repeats at once (`CopyIsHead`).

Only model-checked: liveness (`DeployEnds`, `PlaylistDrains`, `Released`, `AbsenceIsReported`,
`ReturnIsReported`), which is beyond the prover. Every invariant and action property of the passing
runs, and both refinements, are theorems. No proof needs the library's induction theorems.

## 5. Not modelled

* Within the models: the bytes of deployed chunks (a chunk is intact or not), delays between events,
  statistics frames, wording of reasons, loss of power of the master during a deploy, legacy padawans
  without uptime, a staged image whose version cannot be parsed, errors of NVS other than a missing
  key, names and crypto keys of peers, messages of more than 255 packets (their count is one byte).
* What a padawan does with a configuration, a script or a command, and the acknowledgements it sends:
  the packets choose a message for the interface task, which writes files, plays or drives outputs.
  COMMAND and PANIC_STOP are not acknowledged, so that there is no protocol to check. The
  interface queue (5 slots, dropped after 250 ms) is where such a message can be lost.
* The serial protocol and handler: parsing and routing without state.
* Animation commands, output modules, buses, display, utilities: pure functions on text, or
  input and output.
* `components/mdns`, `components/ssd1306`: third-party code, and with it all JavaScript in the
  repository, which is their generated documentation.

What the models show and no run states as a property, because the code lets it happen:

* A deploy can go on for ever. After a failed `esp_ota_write` the padawan's writer is idle and refuses
  every chunk, naming position 0; `onDataNak` rewinds, empties the slots and charges no retry, the
  forwarder streams again from the start, and STREAMING has no deadline of its own. Comments in
  `OtaWriter.cpp` expect otherwise: the reason WRITE is sent "so the master abandons rather than
  retransmitting into a writer that has no room" (400-402), and a window of 0 "prevents the master from
  retransmitting into a torn-down writer" (440-442); `handleDataNak` looks at neither. Without its
  second disjunct `DeployEnds` is violated by exactly this. The operator's job lock stays held.
* A wait whose sentinel met a full queue has no end but the answer; the code's own log line says
  "forwarder may hang".
* A `REGISTRATION_ACK` that is lost leaves a padawan that knows its master and never asks again, and a
  master that never lists it; only a long press helps.
* Two padawans that ask at once can be given the same name.
* A watchdog signal that waits behind an END and the next BEGIN aborts the fresh upload, and one that
  meets a full queue leaves a silent upload busy until the next message.
* In the last second before `nowMs` runs over, every 49 days from the 25th on, packets of long messages may be
  dropped as they come.

## 6. Plan

1. A run for the sentinel of a deadline that abandons the next padawan at once
   (`OtaForwarder.cpp:297`), against a doc that rules it out, should one be written.
2. A composition of `OtaReceiver` and `OtaDeploy` that replaces the fault `unstaged` by uploads
   during a deploy.
3. The interface task with its queue: configuration, scripts and commands from the server to what a
   padawan writes, and their acknowledgements.
