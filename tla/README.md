# rc-boat: models, checks and proofs

This directory holds TLA+ models of the two programs of the rc-boat repository,
the TLC configurations that check them on small instances, and proofs that the
TLA+ proof system (TLAPS) checks for every instance. Paths below are relative to
the repository (`src/`).

## 1. The system

The boat has two computers joined by one UART link. The **Pico** (`pico/`, a
microcontroller, one main loop and interrupts, no operating system) reads two
IMUs, a GPS module and a CAN bus. The **Zero** (`rpi/`, Linux, a main thread and
a LoRa thread) writes a log file, answers requests of one local client on a Unix
socket, and sends telemetry and log lines by LoRa.

| Component | State | Operations | Talks to |
|-----------|-------|------------|----------|
| Message counters (`common/comm/comm.c`, both sides) | transmit counter per type, receive slot per type (8 bits) | `comm_send`, `comm_send_text`, `comm_resend_text`, `handle_frame` | handlers of both mains |
| Framing (`comm.c` `send_frame`, `parse`) | receive buffer | `comm_read`, `parse`, `drop` | UART of both sides |
| Pico log queue (`pico/lib/log`) | queued lines and their bytes, line in flight and its counter, time of sending | `vlog`, `log_poll`, `on_ack`, `log_full` | every part of the Pico logs; text and text ack over the link |
| Pico main loop (`pico/main.c`) | settings, detected IMUs, running calibrations | steps for IMU, GPS and CAN, `read_link`, `log_poll`, the pause | all drivers |
| Pico requests (`pico/main.c`) | the same | `on_command`, `on_setting`, `on_can_tx` | storage, IMU, GPS, CAN; replies over the link |
| Storage (`pico/lib/storage`) | one flash region with tagged entries | `storage_open`, `storage_save`, `storage_load` | settings and calibrations |
| IMUs (`pico/lib/imu`) | registers, calibration sums, filter | open, read, set rate, calibrate, save, load | i2c, storage |
| GPS (`pico/lib/gps`) | parser state, last fix | `gps_open`, `gps_set_rate`, `gps_poll` | a UART to the module |
| CAN (`pico/lib/can`) | ring of received frames | interrupt callback, `can_receive`, `can_send` | interrupt and main loop |
| Zero requests (`rpi/main.c`) | client, line buffer, awaited reply and its deadline | accept, read, `process_client_lines`, `send_request`, `on_reply`, timeout | one socket client; the Pico |
| Zero log (`rpi/lib/log`) | file, lines before the file is open, LoRa queue | `log_open`, `log_close`, `vlog`, `log_lora_next` | main thread and LoRa thread |
| LoRa (`rpi/lib/lora`, `rpi/main.c`) | radio registers, telemetry flags | `lora_send`, setters, the LoRa thread | SPI, GPIO; the Zero log |
| Client script (`cmd.py`) | none | one line out, one line back | the socket |

What is hard here: log lines cross a lossy link by a stop-and-wait protocol with
8-bit counters, resends and acks of their own, while either side may start again
and forget its counters; the Pico's main loop stands still on the answer of the
other side; an interrupt and the main loop share a ring; two threads share the
Zero's log; a request may be answered late, after its time is over and the next
one was sent; the radio driver logs what it does into the queue that the radio
empties; the flash is erased before it is written; a setting is applied to a
device, stored, and taken back when one of the two fails.

What makes each component correct is stated with its module in section 3.

## 2. Modules

| Module | Models | Lines of code |
|--------|--------|---------------|
| `Comm` | the counters of one message type | `comm.c` counters, `handle_frame` |
| `LossyLine` | abstract: what the framing promises | |
| `Framing` | frames on a line that damages them, and the parser | `comm.c` (`comm_send`, `send_frame`, `comm_read`, `parse`, `handle_frame`) |
| `FramingProofs` | inductive invariants and proofs of `Framing` | |
| `LogRelay` | abstract: what the text link promises | README 10.2 |
| `TextLink` | the Pico's log queue, texts and acks over a lossy wire, the loop that pauses | `pico/lib/log/log.c`, `comm.c`, both mains |
| `TextLinkProofs` | inductive invariants and proofs of `TextLink` and `TextLinkRestarts` | |
| `TextLinkRestarts` | `TextLink` with restarts of either process | `uart_open`, `on_command` (reboot), `main` |
| `Storage` | the flash region with its entries, saves cut off by power losses | `pico/lib/storage/storage.c` |
| `StorageProofs` | inductive invariant and proofs of `Storage` | |
| `DropQueue` | abstract: what the CAN driver promises | |
| `CanRing` | the ring that interrupt and main loop share | `pico/lib/can/can.c`, `can_step` |
| `CanRingProofs` | proof that `CanRing` implements `DropQueue` | |
| `Requests` | the Zero's poll loop, its client, the request that waits | `rpi/main.c` |
| `RequestsProofs` | inductive invariant and proofs of `Requests` | |
| `ZeroLog` | the Zero's two threads around its log and its radio | `rpi/lib/log/log.c`, `rpi/lib/lora/lora.c`, `rpi/main.c` |
| `ZeroLogProofs` | inductive invariant and proofs of `ZeroLog` | |
| `PicoSettings` | `set` requests: device, flash and current setting | `pico/main.c`, `icm20948.c`, `gps.c` |
| `PicoCalibration` | search for the IMUs, calibrations, commands | `pico/main.c`, `pico/lib/imu` |
| `PicoCalibrationProofs` | inductive invariant and proofs of `PicoCalibration` | |
| `Gps` | set-up of the GPS module, the UBX parser | `pico/lib/gps/gps.c`, `ubx.c` |
| `PicoProofs` | inductive invariants and proofs of `PicoSettings` and `Gps` | |
| `MC*` | the modules TLC runs | |

`TextLinkRestarts` extends `TextLink`, which extends `Comm`, as `Framing` does.
`TextLink` implements `LogRelay`, `CanRing` implements `DropQueue`, and `Framing`
implements `LossyLine`: the line that `TextLink` and `Requests` take for granted, on
which a message arrives whole or not at all and in order. The modules meet at the link:
`Requests` sees the Pico as a process that does requests in order and answers a
gyro calibration late, `PicoSettings` and `PicoCalibration` are what it does.

## 3. What is checked

Each `violation` run checks one sentence of the README or a comment that the code
does not keep; they are listed in 3.11.

### 3.1 The text link

A Pico handler is an operator on the record `pico`, a Zero handler one on `zero`,
so that calls nest as in the code: an ack with a gap in its counter first queues a
warning (`on_comm_error`, `vlog`, which polls and may send), then drops the head
and sends the next line. A line is the number of its place among all lines queued;
its text is abstracted to that number and a length. A step of the Pico's loop is
an action: `StepsDone`, `PicoReceive` for each ack that `read_link` takes,
`PicoPoll` for `log_poll` with the head of the loop behind it. `LogLine` may
happen anywhere, since every driver and handler logs. On the Zero `ZeroReceive` is
`handle_frame` up to the call of the handler and `ZeroWrite` the handler: the ack
is on the wire between the two. In `TextLink` every write succeeds and lasts; writes
that fail and the buffer of the log file are in `TextLinkRestarts`.

The environment decides whether each `malloc` succeeds, whether the resend timer
has expired, and which frames are lost. A frame is lost only at the front of the
wire: the wire is first-in first-out, so that any loss is such a loss at a later
moment. A damaged ack also queues a line on the Pico (`COMM_ERR_CRC`).

Run `TextLink` checks `FileInOrder`, `ReleasedIsAccepted` and `TextNeverJumps`,
which also hold for every instance (section 4), and that the link implements
`LogRelay` (`ImplementsRelay`). `TypeOK` is proved and has no run. Under `FairSpec` it
checks that every queued line reaches the Zero's log (`EveryLineArrives`) and that a
pause for a full queue ends (`PauseEnds`), which would fail if `queued_bytes` drifted
away from what is queued.

Fairness: both loops go round for ever (`main` has no exit on the Pico, the Zero
polls), an ack on the wire is read when the Pico reads again and again, and
`malloc` and the resend timer are not against us for ever. Lines and losses are
bounded; with an unbounded rate of lines nothing ends a pause, and with acks lost
for ever each loss may add a line to the queue.

Bounds: a counter of 3 values is the smallest that has a resent text, a next one
and a lost one, and it wraps within the run, since each lost ack adds a line to
the 3 of the callers; 2 losses let a late ack of one line meet the next; queue
limit 2 with lengths 1 and 2 makes the queue pass its limit with one line or two.

### 3.2 Restarts

`TextLinkRestarts` adds `ZeroRestart` (systemd starts the program again; the
counters are gone and `tcflush` drops what is on the wire on its side) and
`PicoReboot` (the queue and the counters are gone, the bytes sent before are still
on the wire). It also takes the Zero's log apart into the file and the stdio buffer in
front of it: `write_line` (`rpi/lib/log/log.c:75`) leaves a line in the buffer, which is
flushed with the next line written when `CONF_LOG_FLUSH_MS` have passed. `flushed` is
how much of `zero.log` has left the buffer, `ZeroWriteFlush` and `OwnLineFlush` are the
writes of a line of the Pico and of one of the Zero's own that flush. A restart keeps any
part of the log from `flushed` on: all of it after a SIGTERM, which reaches `fclose`,
and only what was flushed after a kill (a buffer that ran full has put a part of it
into the file before). `ZeroWriteFails` is a `write_line` that returns -1, with the line
and whatever was still in the buffer: `on_text` does not look at the result. `cut` is
what the Zero confirmed and lost in one of the two ways.

Run `TextLinkRestarts` has one restart of each, at any moment. What is lost on the wire
is what the restart itself drops. `ConfirmedBeforeReboot` says that a confirmed line is in
the log, being written or in `cut`; `EveryLineSettled` that every line leaves the buffer
for the file or is in `cut`: what the Zero loses by its buffer is all that is lost, and
the link does not stop for it. Both are conditioned on no reboot of the Pico so far:
after one they do not hold (3.11). `TwiceOnlyByRestart` holds with reboots too.

Fairness beyond that of `TextLink`: the Zero logs lines of its own for ever (each frame
it receives, each step of its radio), so the buffer is flushed at some time. Bounds: the
lines, the restarts, and `MaxCut` (with 1, a second write fails only if nothing was lost
before; one loss may take any number of lines). What the kernel has taken is taken
for durable: a power loss of the Zero that drops its page cache is not modelled.

### 3.3 Storage

A region is its header (valid or not) and its entries in order; an entry is its
tag and a value, or `Damaged` when the CRC would tell. `SaveBegin` is
`storage_save` up to the point where the other core is held, `Erase` and `Program`
are the two halves of `flash_write_cb`. A power loss before the end of the erase
may leave any entry damaged, one during the programming leaves a prefix of the new
image. Damage is in values: the CRC (`storage.c:159`) covers nothing else, and the tag and
length of a half-erased entry are taken to read as before or to end the list. A tag
or length that flips into another valid one is not modelled. The ghosts `saved` and `unsure` hold what returned 0 and what was cut off.
`Occupied` counts the words of the region and `Others` picks the entries to keep by
their place among these (`Nth`): folds and filters of the libraries have no theory in
the prover, cardinalities have one.

`LoadIsSaved` says that no load returns a damaged or replaced value after any
sequence of saves and losses, and that without losses a save changes its own tag
only; `CanBeReplaced` that saving a tag again never runs out of room.

Bounds: three tags whose sizes do not all fit make the region full; two losses let
a save start from a region that an earlier loss has damaged.

### 3.4 The CAN ring

A frame is the number of its arrival. `head` and `tail` wrap at `Width`, the place
is taken modulo `RingSize`; with 3 and 6 both wrap within 10 frames. `can_receive`
is three steps between which the interrupt may run if interrupts are on: `Disable`,
`CopyFrame` or `Empty`, `TakeFrame`. `ImplementsQueue` shows the ring as a queue that
drops its oldest frame: frames come out once and in order, and each one is delivered,
waiting or counted in `errors`. Fairness is the loop of `main`, and the interrupt that is served once
interrupts are on again (strong, since they are off in each pass): `LastFrameArrives`.

### 3.5 Requests

`at` is the place in the pass of the Zero's loop: `poll`, the link, `accept`, the
read of the client, the timeout; `process` is `process_client_lines`, called from
two of them (`then` says where it returns to). `ready` is what `poll` reported, and
may be stale when the pass gets there. A line is its number, and in the socket and
the buffer it is a sequence of pieces of which the last ends it: over-long lines
and lines that arrive in parts are there, their words are not. What a line says is
abstracted to one request that is answered later (`gyro cal`), one that is answered
at once (`set beta`) and anything the Zero refuses. The client may send lines
ahead, close its end at any moment, and a second one may connect at any moment.
The Pico is external here: it does requests in order; frames may be lost.

Run `Requests`: `AnswersInOrder` (answers go to the client of the line, in order,
without a gap), `OwnUnlessAbandoned` (a result of another request only after one of
its kind was given up, and `ok` only for what the Pico did) and, with a loop that goes
round and a deadline that passes some time, `EveryLineAnswered`: also a line that waits behind a
request, for which no event of its own would wake the loop.

The properties allow what the code does in three places: the rest of an over-long
line is taken for a line, and answered again; a client that fills the buffer while
its request waits is closed, since a read of no bytes looks like its end
(`main.c:480`); a client that connects as the old one leaves may get `error busy`.

The program may end (`ended`): an answer to a client that has closed its end raises
SIGPIPE. Hence `CHECK_DEADLOCK FALSE`, and no property of the run promises anything
to a client that has gone.

Bounds: a buffer of 2 pieces and lines of 1 and 3 give whole lines, two lines in one
read, a full buffer and over-long lines; 2 lines and 2 clients are the smallest that
can have an answer in the wrong place.

### 3.6 Settings of the Pico

A `set` request is one action: nothing of the Pico runs between its parts, except
interrupts that do not touch the settings. What may happen inside is the set of
outcomes of each device operator: each register write of `write_rate` may be the
first to fail, the GPS module may or may not take a message, and its ACK may come in
time, late or never. `icm_set` and `gps_set` remember how the last write ended.

Run `PicoSettings`: `RestartKeepsSettings` (what runs is what the next boot loads),
`ImuFollows` (`IcmFollows` and `BetaFollows`) and `GpsRateFollows` (each device has
the value of its setting after any sequence of refusals and rollbacks, unless its last
write itself failed). All of them are proved for every instance, as is `TypeOK`. `GpsRateFollows` leaves out
a wait that was ended by the ACK of another message: `wait_ack` (`gps.c:46`) takes
any ACK for CFG-RATE, so the code may take a rate for set that is not.

Bounds: two rates and two gains are a setting and a new one; three requests between
two boots are a change, a refusal and one more; one late ACK.

### 3.7 Calibrations and commands of the Pico

`DetectImus` is the set of pairs that `detect_imus` may end with, for every wiring
and with opens that may fail. A pass of `calibration_step` is one action, a command
another. A calibration is abstracted to the number of samples it has summed, whether
a bias was measured, and whether the magnetometer's box has an extent.

Run `PicoCalibration`: `TypeOK` (with one calibration at a time), `AnsweredOnce`,
`OkAveragesAll` (an `ok` comes with the average of all samples asked for),
`ReliableBusFindsAll`, `SaveOkKeepsFusion` (a save that is answered `ok` has switched
the BNO055 back), and, as long as the loop goes round, `GyroCalEnds`.

Bounds: calibrations of 1 and 3 samples, so that a failure can come at the first,
a middle and the last one; three commands are a start, one in between and one after.

### 3.8 The Zero's log and radio

Two threads. `Push` is the first half of `vlog`, from the lock to the LoRa queue,
`Write` the second, to the file and the unlock; every line of the program goes through
the two. A line is the thread that logged it, and `filed` keeps the last lines of the
file that are in the queue too. The main thread may log at any place where it runs
code that logs (`MainLogs`).

`lora_send` is a list of `Steps`; `At` says that its caller has come to one of them and
is not in `vlog`, and `Done` that the step is done and the line it logs begun, since
`read_reg` and `write_reg` log each access. The radio is external: a transmission ends
at any moment (`TxDone`), in time or after the wait for it has timed out. A failed or
interrupted wait is a timeout here, as in the code (`rc <= 0`). The LoRa thread is
`LoopTop`, the burst, and the window; how much of the window's time has passed is
abstracted to any time from its first line on.

Run `ZeroLog`: `QueueIsEndOfFile` (also when a full queue drops lines), `ReportIsRight` (a stale edge or flag never makes
`send_packet` report what did not happen), `ClosedIsUnused`, and under `FairSpec`
`StopEnds` and `BothGoOn`. The last two are not plain, since one packet queues more
lines than it sends: the LoRa queue never empties again, and only the clock ends the
window.

Fairness: both threads run, a thread that waits for the lock gets it at some time
(strong, since the other takes it again and again, with I/O in between), a handler of
the main thread comes to its end, and time passes. `CHECK_DEADLOCK FALSE`, since the
program ends.

Bounds: a queue of two lines is full after two steps of the driver, in each packet; a
burst of two packets has one whose wait may meet the edge of the packet before.

### 3.9 Framing of the link

One direction of the line. A symbol is a byte, and the CRC of a frame is a symbol that
also knows the message it was computed for: it fits the bytes it was computed over and
no others. This is the one thing taken for granted: 16 bits let one damaged frame in
65536 pass, but no burst of up to 16 damaged bits. The value of its byte may be that of
any function (constant `CrcByte`; the sums of `crc16` themselves are not modelled). Length and CRC are one symbol each.
`Transmit` decides what the line does to a frame: nothing, lose it, change one byte, or
drop a run of bytes. `Receive` is one byte of `comm_read`; the branches of `parse` are
`Skip` (no first marker), `Return` (too few bytes), `NotMarker`, `BadCrc`, and for a good
frame `HandleResent` and `HandleNew`.

Run `Framing`: `ImplementsLine` (a message arrives as it was sent or not at all, at most
once, in the order of its type), `NothingMissed` (damage never costs a whole frame
behind it, although the parser may first have taken that frame for the rest of
another), `ReportsAreRight` (`COMM_ERR_LOST` exactly when messages of that type were
lost, other errors only after damage, and of these only a bad CRC: `HandleNew` has the
branches for an unknown type and a wrong length, and no good frame takes them), and `TypeOK` (the buffer has room for the byte
that `comm_read` puts in without asking).

`NothingMissed` does not say when: a damaged length of up to 65535 makes `parse` wait
for that many bytes (`comm.c:559`), without a timeout, and what lies behind it is
delivered only then. From the Pico this is a moment; to the Pico, where next to nothing
is sent, requests time out until it is over. And it supposes that no message holds the
bytes of a frame: two damaged frames could complete each other around a whole one, and
`parse` would drop it with them. Commands, settings and replies are too short for one,
and texts are plain characters; in CAN frames, IMU or GPS data a whole frame, with its
CRC, could appear by chance only.

Bounds: the first marker is also a length, a counter and a number of samples, and the
data of a CAN frame is the two markers, so that damage leaves false frames in true
ones; four messages, of which one is lost and one damaged, make the counter of 3
values wrap. `CHECK_DEADLOCK FALSE`: the frames are bounded.

### 3.10 GPS

`configure` of `gps.c` is `Begin`, `SwitchBaud`, `RepeatPrt`, `ConfigureRate`, `ConfigureMsg`
and the waits between them, which `Confirmed`, `Refused` or `Timeout` ends; `ReadOn` is a byte that
ends none, in `wait_ack` and in `gps_poll` later. `Parsed` is `ubx_parse`. The module is
external: it hears a command at its own baud rate, does it and answers, or refuses it,
or misses it; the ACK of a new baud rate may come at either rate; once it sends fixes
it goes on, also after an earlier run of the program. What is read at the wrong rate is
garbage that may begin like a frame.

Run `Gps`: `OpenIsRight` (set-up succeeds only with a module that is set up, although
ACKs of earlier attempts still come in, and gives up only when each attempt met a
fault or garbage), `Recovers` (after damage, once no false frame can hold them, frames
are taken again) and `GpsTypeOK` (a payload stays in its array). All three are proved for
every instance. Less than that is not
promised: `ubx.c:52` takes the start of a frame for the payload of one that was cut
off, and `ubx.c:60` does not take a repeated first sync byte as a new start.

Bounds: two attempts, so that one meets what the other left; two fixes, one of
them with the sync bytes inside; one fault and one damaged frame; payloads of up to 3
bytes. The module sends a fix only when the Pico has read what came before, which keeps
the line short. `CHECK_DEADLOCK FALSE`: it may give up.

### 3.11 Where code and documents differ

Each of the first two is a run with a counterexample.

- `TextLinkPicoReboot`: a first line of the new boot whose counter is the last one
  the Zero saw is confirmed as a resend and never logged.
- `PicoCalibrationSaved`: `save cal` while the gyro is being calibrated saves a
  sample count without a bias, and the next boot does not measure one.

Found while reading and modelling, without a run of its own:

- a power loss during the save of one tag loses all others (`storage.c:101`;
  README 330);
- the reply of a request that timed out answers the next one of its kind, which the
  Pico may never get (`rpi/main.c:275`; README 340): `OwnUnlessAbandoned` allows it;
- after a bad CRC `parse` looks for a frame from behind the marker (`comm.c:569`;
  README 495 says the frame is discarded);
- the ACK that the first wait of the GPS set-up takes may be that of the message at
  the default baud rate, read late (`gps.c:82`); the one for the rate proves it then;
- an answer to a client that has gone ends the program, since nothing ignores SIGPIPE
  (`main.c:190`; `ended` in `Requests`); systemd takes SIGPIPE for a clean end, so
  `Restart=on-failure` (`boat.service:11`) does not start it again;
- one log line sent by LoRa logs some fifteen lines of the driver, which go into the
  LoRa queue too (`lora.c:37`, `lora.c:44`): soon the queue holds little else;
- the text ack is sent before the line is written (`comm.c:523`; README 520 says
  the line is written first), and written means put into a buffer that is flushed at
  most every `CONF_LOG_FLUSH_MS` (`rpi/lib/log/log.c:75`): a Zero that is killed loses
  all lines it confirmed since the last flush, `cut` in `TextLinkRestarts`;
- the end of an over-long line is executed as a line (`main.c:441`);
- `error busy` for a client that connects after the old one has closed
  (`main.c:766`; README 313);
- a full buffer of a waiting client closes it (`main.c:480`);
- a late ACK of the GPS confirms another message (`gps.c:46`);
- a failed rate write leaves the ICM in bank 2 (`icm20948.c:108`; the comments at
  102 and 206 say bank 0), where the reads of the main loop find other registers;
- the end of a magnetometer calibration that did not move is answered `ok` without
  a new result (`calib.c:54`; README 321).

## 4. What is proved

`TextLinkProofs` proves, for every counter width of at least 2, every queue limit
and set of lengths, and any number of lines and losses:

- `TypeCorrect`: `Spec => []TypeOK`;
- `FileIsInOrder`, `ReleasedLinesAreAccepted`, `TextsNeverJump`: the three safety
  invariants of run `TextLink`;
- `RelayImplemented`: `Spec => Relay!Spec`, the refinement of `LogRelay`.

They rest on one inductive invariant, `IInv == TypeOK /\ LinkOK`. None of the properties is inductive: that a late ack drops
nothing depends on what is on the wire. `LinkOK` says where everything is in the
stop-and-wait protocol: `QueueOK` (the queue holds consecutive lines, the last one
logged at its end), `LogOK` (the log is a prefix of the lines), `LevelOK` (the Zero
has taken what the Pico dropped, or the line in flight too, and its receive slot is
one behind or equal to the Pico's counter), `TextsOK` (texts on the wire are the
line in flight, or the previous one before it) and `AcksOK` (acks on the wire are
for the line before or, once it is taken, the one in flight, in this order). The
lemma `IncFacts` (a counter and its successor differ, and `Inc` is injective) is the
only fact about counters that is needed, and is where the width of at least 2 comes
in. `queued_bytes` is typed `Int` in the proofs: that it is the exact sum is a
recursive fact, which stays with TLC (through `PauseEnds`).

For `TextLinkRestarts` the same module proves two invariants, for any number of restarts
of the Zero, reboots of the Pico, losses and lines. `LinkOK` does not survive a restart,
so each has an invariant of its own:

- `RepeatsNeedRestarts` (`TwiceOnlyByRestart`), by `RepeatInv`, for a log that may lose its
  unflushed end at a restart or a failed write: texts reach the Zero in
  the order of the lines, each line with one counter however often it is sent
  (`SentOK`), and a slot that knows a counter knows that of the line last taken
  (`SlotOK`). So the log is in order, a line is repeated only next to itself, and each
  repetition used up a restart that forgot the slot (`TakenOK`). Reboots do not matter:
  a rebooted Pico has other lines. A slot that knows a counter may be ahead of a log that
  has lost its end (`SlotAhead`), which takes repetitions away and adds none.
- `ConfirmedLinesAreTaken` (`ConfirmedBeforeReboot`), by `ShadowInv`: until it reboots
  the Pico cannot tell a Zero that was restarted from one that was not. There is a
  Zero `g` with the same acks on the wire for which `LinkOK` holds, and every line it
  has taken is in the log of the real one, being written, or in `cut`. The lemmas of
  `TextLink` say that each handler keeps `LinkOK` with `g`. What is left is a handler of the
  real Zero: when it takes a text again that `g` refuses, both send the same ack. The
  theorem is false after a reboot (finding of run `TextLinkPicoReboot`).

`PicoProofs` proves `TypeOK`, `RestartKeepsSettings`, `ImuFollows` and `GpsRateFollows` of
`PicoSettings` for any set of rates and gains and any number of requests, by an
invariant that is their conjunction. It also proves the three invariants of run `Gps`,
for any payloads, garbage and function for the checksum, and any number of attempts,
fixes, faults and damaged frames:

- `GpsTypes` (`GpsTypeOK`), by `ParserOK`: what is in the body in each state of the parser;
- `ParserRecovers` (`Recovers`), by `RecoverInv`: `FramesOK` and `WholeOK` say what is on
  the line; `CandidateOK` where a frame the parser is in would begin, and that the
  symbols since then are what it has seen; `StepOK` that the parser is in step with a
  frame behind quiet ones. The step that needs most (`FrameFound`) is that the parser is
  idle when such a frame begins: what it is in would have begun at a first sync byte, in
  the last `Grasp` symbols; of a quiet frame that is the first symbol only, and then the
  parser has accepted that frame. Where the frame before is not quiet it ends at the
  last place that counts, and the symbol behind it is the start of a frame and no second
  sync byte;
- `GpsOpens` (`OpenIsRight`), by `SetupInv`: an ACK in the stream was sent by a module that
  has done the command (`AcksOK`), and what was confirmed stays done (`ProgressOK`); in an
  attempt without a fault the parser is in step with all that is to be read, no refusal
  is among it, and the ACK that is waited for is (`CleanOK`).

The sending of a fix when the line is empty (3.10) is part of the model, so of the proofs.

`CanRingProofs` proves `TypeOK` and the refinement of `DropQueue` (`QueueImplemented`),
for any ring size and any width of the numbers that the size divides: the code's 16 and
2^32, on which the wrap of the place relies. The invariant says what the property
does not: the ring holds the last `Held` frames that arrived (`RingOK`), the
interrupt is on just outside `can_receive`, and a frame that was copied is still at the
tail when it is taken, which is what disabling the interrupt is for. The lemmas on
numbers that wrap (`Wrapped` and what follows it) are the only arithmetic.

`StorageProofs` proves the three invariants of run `Storage` for any tags, values, sizes
and region and any number of power losses. None is inductive. `RegionOK`: a tag is in
the region once, and with a value that was saved, may have been, or is damaged;
`ImageOK`: the same of the image of the save under way, so that it can come into
the region piece by piece; `ExactOK`: until the power goes, loads are exact, and the
image is exact for the other tags. `CanBeReplaced` needs that `Others` copies each
entry once, in order: `Nth` enumerates a finite set, and the words of the image inject
into those of the region.

`PicoCalibrationProofs` proves the four invariants of run `PicoCalibration` and its
action property `OkAveragesAll`, for any sample counts and wiring. The addition is
`CountOK`: a running gyro calibration has summed what it does not still have to
read. Assumption: the code for an empty place (`None`) is not a kind of IMU.

`ZeroLogProofs` proves the three invariants of run `ZeroLog` for any capacity of the
queue and length of a burst. `LockOK` says that the thread in `vlog` has the lock;
`QueueOK` that the queue is the end of `Lines`: of the file and the line that its
thread has queued and not yet written, which is how the property survives between the
two halves of `vlog`; `PlaceOK` and `ThreadOK` what is open at each place of the two
threads, and who may be in `lora_send`; `RadioOK` what `lora_send` has made of the
radio by each step: from the clearing of the edges on, an edge can only be of this
packet. `StopTakesFewSteps` is the part of `StopEnds` that is about steps and not about
fairness: after a signal `LoraLeft`, at most 47, falls with each step of the LoRa thread
(its places, three for each step of `lora_send` left, and the line it logs) and rises
with none, so that neither the queue, which never empties, nor the rest of a burst puts
off the join.

`RequestsProofs` proves the three invariants of run `Requests` for any buffer, lengths,
lines, clients and losses. `StreamOK`: what is in the buffer and the socket is the end
of the text of the present client, whole lines in their order, of which only the first
can have lost its beginning, and then it is longer than the buffer. `OrderOK`: each
request is on its way once (on the link, at the Pico, or its reply on the link),
requests go out in order, none is later than the one that waits or at or behind a line
that is left. `TakenOK` is the strengthening of `AnswersInOrder`: the lines that have an
answer or wait are exactly those in front of the stream. `GivenUpOK` is that of
`OwnUnlessAbandoned`: what is on its way and does not wait comes after a request of its
kind that was given up, so that a reply matched by its kind alone (`main.c:275`) is
late only after a time-out or a client that left.

`FramingProofs` proves, for any messages, any damage and losses, any number of frames
and any CRC function of the content:

- `TypeOK`, and `LineImplemented`, the refinement of `LossyLine`, by `IInv`: what is in
  the stream (the buffer and the wire behind it) carries CRCs of messages that were
  sent, in the order of sending, each behind all that were delivered (`Ordered`). A
  good frame has its content from its own CRC, whatever pieces it is made of; the
  order of the CRCs then gives the order and singleness of deliveries;
- `OnlyCrcErrors`: a good frame never has an unknown type or a length that is wrong for
  its type;
- `NothingIsMissed` and `ErrorsNeedDamage`, by `PlaceInv`: a whole frame was taken or all
  its bytes are still in the stream (`WholeOK`), frames lie one behind the other
  (`Tiled`), and between two bytes the buffer does not begin with a frame it has all of
  (`Waiting`). The step that needs most is a good frame at the front while a whole one
  lies inside it: the whole one would be in its content. Both theorems therefore assume
  `NoFrameInside` (3.9), which TLC finds true of the messages of the run;
- `ShortOrPlainIsEnough`: `NoFrameInside` follows where no type is a marker and each
  message is at most three packed bytes, or is free of the first marker and does not
  begin with the second. In the code, commands, settings and replies are so short (at
  most six bytes; with length and CRC of two bytes a frame inside needs eight, where the
  model's needs four), and a text is plain characters behind its severity. The hypothesis does not cover the data of CAN frames, IMU and
  GPS, where a whole frame could appear by chance;
- `LossReports`, by `CountInv`: the messages of a type have consecutive counters, each
  delivered one is in its turn, and the slot holds the counter of the last one. So a
  loss is reported exactly when the number of messages of the type lost in a row is no
  multiple of `CounterMod` (256 in the code), for any number of messages;
- `ReportsRight`: with at most `CounterMod + 1` messages that number cannot be such a
  multiple, and `ReportsAreRight` holds as the run checks it (4 messages, 3 counters).
  The bound is real: 256 messages of a type lost in a row go unreported.

Every safety invariant, action property and refinement of the passing runs is stated by a
theorem. Only model-checked are the liveness properties, since fairness and `ENABLED`
are beyond the prover: `EveryLineArrives`, `PauseEnds`,
`EveryLineSettled`, `LastFrameArrives`, `EveryLineAnswered`, `GyroCalEnds`, `StopEnds` and
`BothGoOn`. So are the two violations of 3.11.

## 5. What is not modelled

- The types of fixed length (IMU, GPS) are not told apart in `Framing`: packing copies
  their fields, and a wrong length is refused as for the others.
- The settings of the radio (registers written once) and receiving, which the Zero
  does not do.
- The Zero's page cache (3.2), and flipped tags and lengths in a half-erased region (3.3).
- What the GPS module does by itself: a power cycle after the set-up, NMEA before it.
- Telemetry packing, floating point (filter, rotations, averages): no control.
- Bus drivers (UART, SPI, I2C, GPIO): they appear as outcomes of the calls above.
- `cmd.py` but for what it does as a client; setup and build.

## 6. Plan

The plan of modules and theorems is carried out. Left out on purpose: the sums of `crc16`
(taken for granted in 3.9, and under the assumption about 16 bits there) and the
arithmetic of telemetry and sensors, which have no control. Widening the small instances
further would repeat what the theorems say for every value of the constants.
