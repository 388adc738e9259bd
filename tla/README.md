# Verification of the IFS09 telemetry and accumulator software

TLA+ models of the parts of this repository that carry protocol and concurrency, the TLC
configurations that check them on small instances, and theorems about them checked by TLAPS. Paths
are relative to `isc_realtime_26/` unless they begin with `firmware/`.

- [The system](#the-system)
- [Modules](#modules): what models what
- [Runs](#runs): what each configuration checks, its bounds, the fairness it assumes
- [Disagreements found](#disagreements-found)
- [Proofs](#proofs)
- [Limits](#limits)
- [Plan](#plan)

## The system

The car sends telemetry over an nRF24 radio in snapshots cut into fragments. An Arduino Nano receives
the fragments and passes them over USB; a Python program reassembles, shows and logs them. In the car,
the accumulator control unit (ACU) sends CAN frames, answers pit diagnostics and logs to an SD card. A
Rust tool talks to its bootloader over ISO-TP on CAN, and the Python window extracts the SD logs the
same way.

```
 ECU --> nrf24 node ~~radio~~> Nano sketch --USB--> receive_data --globals--> ui.py (window, wizard)
                                                        |
                                                      CSV log
 ACU: safety task --ring--> SD logger --FatFs--> card     ACU CAN task <--CAN--> session_temp.rs
                                                                          <--CAN--> ui.py extraction
```

| component | source | state it keeps | operations | interacts by | what is hard | what makes it correct |
|---|---|---|---|---|---|---|
| Fragment reassembly | `ISC_RTT_serial.py` `_process_fragment` | `_frag_buffers`: kind and sequence number to fragments | store, evict, complete | called by the loop | loss, 16-bit wrap, transmitter restart, full buffer | whole snapshots, each once, bounded memory |
| Receive loop | `ISC_RTT_serial.py` `receive_data` | port, badge, last sequence number and its time, status of the Nano, CSV timer | open, read, time out, lose the port, publish, log | bytes from the Nano; globals read by the window | unplugging, clock read before a blocking read, damaged frames | the badge tells the truth, a good link is logged |
| Sessions | `ui.py` `_start`, `_stop`, `_update`, wizard, notes; worker threads | `is_receiving`, buttons, `rx_thread`, `new_data_flag`, `_excel_logger` | start, stop, join with timeout, detect a dead thread, write a note | three globals, no lock | every interleaving of the window and the threads | one receiver, its own CSV, Stop and Start reachable |
| SD logger | `sd_logger_task_temp.cpp` | ring, mount, open file, its number and size, last sync | push, mount, open, write, seal, sync, tear down | ring between tasks; FatFs | failing calls, pulled card, power cut | rows once and in order, sealed files final, bounded unsynced data |
| CAN session | `session_temp.rs` | `command_lock`, `connected`, keepalive handle, reply channel | connect, reboot into the bootloader, commands, retries, broadcast, reconnect, keepalive, disconnect, drop | async tasks; CAN frames | late replies, repeated commands, cancellation, waiting on each other | one command in flight, matching replies, no hang |
| ISO-TP | `isotp_temp.rs` | reassembler state, expected sequence nibble, last time | feed, tick, reset, segment | fed by `rx_task` | loss, restart, nibble wrap | a completed message is the one sent |
| LogFS extraction | `ui.py` `AMSExtractionThread`, `AMSSimulatorThread`, buttons | thread: bytes so far, size, CRC, ISO-TP buffer; card: session, open file | connect, list, open, read, close | ISO-TP over CAN, Qt signals | replies that do not say whose they are, lost frames, two threads on one bus | the file saved is the file on the card |
| ACU CAN task | `acu_can_task_temp.cpp` | last transmissions, `s_pit_diag_enabled`, bus-off timer | wait for a frame, serve, arm, reboot, recover, transmit, scan | CAN peripheral, receive queue | full FIFO, Bus_Off, a Stop that times out, tick wrap | recovery always runs, cadence kept |
| Vehicle service | `vehicle_service_temp.cpp` | last request ticks | decode, freshness | called by the CAN task | wrapping tick, 0 as "never" | a stale request is never acted on |
| Nano sketch | `firmware/RTT_nano_26/RTT_nano_26.ino` | radio flags, last reception, last status, LED deadline | configure, check, forward, report status | SPI, USB serial | chip loss, `millis` wrap | status tells the truth |
| nRF24 node | `firmware/nrf24/Core/Src/` `nrf24.c`, `main.c` | chip registers | transmit, receive | SPI | timeout leaves a payload in the FIFO | no stale payload |
| Pit diagnostics host | `pit_diag_temp.rs`, `diagnose_temp.rs` | scan being collected | arm, stream, disarm | CAN | missing frames, early end | a scan reported complete is complete |

Wire encodings (`commands_temp.rs`, `opcodes_temp.rs`, `records_temp.rs`, `ids_temp.rs`) are pure and
have tests beside them. The bootloader jump, the BMS monitor script, the demo generator, the uploads,
drawing, vendored libraries, generated code and historical copies of the sketches have no state
machine worth a model. `PROJECT.json` lists every component with its status and every hazard at its
line, with the properties that watch it.

## Modules

| module | models | composed with |
|---|---|---|
| `Fragments` | the fragment format and the operators on `_frag_buffers` | used by the next three |
| `SnapshotLink` | abstract: snapshots handed up in order, each at most once | |
| `CardLog` | abstract: a card that grows at its new end, with logs sealed whole and for good | |
| `FragReassembly` | `_process_fragment` behind a lossy link and a transmitter that restarts | implements `SnapshotLink` |
| `Receiver` | the turns of `receive_data`, with its clock | reassembles with `Fragments` |
| `RadioNano` | setup and loop of the receiving sketch, its chip and its clock | its frames are those that `Receiver` reads |
| `RxSession` | the window and the receive threads it starts | a turn of the loop is one that `Receiver` details |
| `SdLogger` | the ring, the logger task and the card | implements `CardLog` |
| `VehicleService` | requests, their stamps and their freshness, as operators | used by `AcuCan` |
| `AcuCan` | the loop of the ACU's CAN task, its queue, its FIFO and the peripheral | drives `VehicleService` |
| `CanSession` | callers, keepalive, receive task and device of one CAN session | |
| `IsoTp` | segmenters of the nodes and the reassemblers of the host, with loss | implements `SnapshotLink` for each node; a message of `CanSession` is one that arrives here |
| `LogExtraction` | the extractions, their own ISO-TP, and the card | |
| `FragReassembly_proofs` | theorems | extends `FragReassembly` and `Receiver` |
| `RxSession_proofs`, `SdLogger_proofs`, `IsoTp_proofs`, `CanSession_proofs`, `RadioNano_proofs`, `AcuCan_proofs`, `LogExtraction_proofs` | theorems | extend the module they name |
| `MCFragReassembly`, `MCReceiver`, `MCAcuCan`, `MCCanSession`, `MCLogExtraction` | the constants that a cfg cannot write | |

How state and actions correspond to the code (the "map" of `PROJECT.json` gives the lines):

**Reassembly.** `pending` is the dict of dicts as the set of the fragments it holds; the bytes of a
fragment are the number of the snapshot it was cut from. `ProcessFragment` is `_process_fragment`:
evict (`Evictable`), store (`Stored`), and, if all indices are there (`Complete`), join, delete and
return (`Return`). `min` breaks ties by insertion order, which the model leaves open.

**Receive loop.** `OpenFails` and `Opens` are the reconnect at the top of a turn. `ReadBlocks` is
`_read_frame`, which waits for the port up to five times (`Reads`: two start bytes, length, payload,
checksum), each time as long as the read timeout; so it may block for five of them (`TurnT`) whatever
it returns, and "timeout" may come of any of its waits. What the turn does then is `ReadError`,
`ReadTimeout`, `StrayByte`, `BadFrame`, `StatusFrame` or `DataFrame`. `SeqSeen` is the sequence and
badge logic that every accepted frame passes, status frames included, since these are recognised only
after it; `echoes` counts those that advance the number. `now` is read at the top of the loop: `lag` is
the time between it and the read when the port was opened, `took` the time that the read blocked.

**Nano.** `pc` walks through setup (`Begin`, `Configure`) and a pass of `loop` (`Check`, `Led`, `Read`,
`Forwarded`, `Drained`). The chip is external: `chip` says whether it is powered, configured, or what
its data line is held at without power, and `IsChipConnected`, `Available` and `Received` are what
RF24 makes of that. `LosePower`, `PowerBack` and `Restart` may strike between any two steps. Time
passes between passes, while `Serial.flush` blocks, and while zeros are read off a dead line.

**Sessions.** Every access to a shared global is a step. A thread moves through `new`, `resetting`
(the flag and the CSV are set), `check`, `turn`, `publish`, `closing` (the `finally` of
`receive_data`), `leaving` (the `finally` of the worker) and `ending`. `Announce` is the write of 1 to
`new_data_flag` that can overwrite the window's -1. The window's `_stop` is `PressStop`, then
`JoinReturns` or, after 1.5 s, `JoinTimesOut`; which of the two is a choice whenever the thread still
runs, since the model has no clock here. `lost` counts, as history, notes that were reported as written
and are in no open log although a session ran.

**SD logger.** `phase` is where the task is in its tick: mount, open, drain, seal, sync. Each FatFs
call succeeds or fails. A file on the card is the sequence of its rows that a power cut cannot take;
`buf` holds the rows written since the last sync. `PowerCut` empties what is in RAM; `Settle` is the
moment from which nothing fails any more, the hypothesis of the liveness property.

**ACU CAN task and vehicle service.** One pass of `ams_acu_can_task_run` is `StartWait` (the deadline
arithmetic), `ServeFrame`, `Reboot` or `WaitTimesOut` (what the queue gave), `PollSkips`, `Recover` or
`RecoverFails` (the poll for Bus_Off with `HAL_FDCAN_Stop` and `Start`), `Send` (the ECU matrix),
`ScanFrame` (one blocking send of the pit scan) and `Health`. A payload is the number of frames it
takes; `fifo` is how many the peripheral holds. `last` maps each cadence to its tick. `hal` is the
state of the HAL handle, whose rules (Stop works on a started peripheral, Start on a ready one) are
external. `Elapse` is the tick: it passes while the task waits, spins, waits for room, or is delayed by
other tasks. `VehicleService` translates the decoding with its magic, `Age` with its rule for stamps
ahead of now, and the two freshness tests; `charge` and `balancing` are the true ages of the last
requests, kept beside the wrapping stamps.

**CAN session.** `lockQ` is tokio's fair mutex `command_lock`: a queue whose head holds it. `pc` says
where each task is: `queued`, `send`, `await` (under its timeout), `join` (awaiting the keepalive task
in `stop_keepalive_locked`), `trigger` and `pause` (outside the lock, in `reboot_and_connect`), and, for
the keepalive, `sleep` or `dead`. `Call` enters a method; `Trigger` and `Probe` are the two loops of
`reboot_and_connect`, `GoesOnAt` its window and cadence; `Retry` keeps the lock over the backoff of
`send_command_retrying`; `Collect` is `broadcast`; `ReceiveTaskEnds` closes the channel and `RxClosed` is
what a waiting task makes of it; `Drop` is the destructor. `SendFails` is a frame that the adapter
refuses: of a command that takes several (`Long`) those before it may be on the bus, and the device
then answers that it got half a message, whenever it gives up. The device may answer late, lose any
message, refuse, miss a frame of a command, drop its session, or run its application, which knows
the trigger only. Replies carry the call they answer (`by`) as history: the code does not match them,
and `Receive` takes whatever is at the head of the channel.

**ISO-TP.** `tx` is the segmenter of each node (`NextFrame` and `Advance` are the two halves of
`Iterator::next`), `rx` the map of reassemblers in `rx_task`. `Feed` gives what a reassembler keeps and
what it completes. A byte is a pair of message and place, so a spliced message shows. A frame is lost
(`LoseFrame`), cut to its PCI byte (`Receive` with `cut`) or no longer sent (`Abandon`). `Interrupt` is
a frame of a node that belongs to no message (`Loose`: flow control, a PCI without a meaning, no byte at
all): idle, the reassembler ignores it, and in a message it gives that up. `Tick` may
strike at any time; `rx_task` never calls it, so the behaviours without it are the program's, and the others
cover a caller that does.

**Extraction.** A thread goes through `CONNECT`, then `LIST` or `OPEN`, `READ` and `CLOSE`, then
`DISCONNECT`: `op` is the command it has sent, `phase` whether it waits for flow control (`AwaitFlow`)
or a reply (`Receive`). `Receive` is `isotp_recv` frame by frame: a first frame extends the buffer
whatever it holds, a consecutive frame is cut to what is missing (`Cut`) without a look at its
sequence number. `Reply` is what `run` does with a whole reply. A payload is a sequence of cells, two
to a frame, so that replies split between frames where those of the code do; the CRC of a file is its
number. `Serve` is the card as `AMSSimulatorThread` answers; every running thread hears every frame.

## Runs

| run | bounds | states | checks |
|---|---|---|---|
| `FragReassembly.cfg` | 2 kinds, sequence modulo 3, 2 partials, 5 snapshots | 1 034 244 | `TypeOK`, `PendingBounded`, `WholeUnlessSeqReused`, `FullReceptionReturned`, refines `SnapshotLink` |
| `Receiver.cfg` | 1 kind, sequence modulo 3, ticks of 0.2 s with long sleeps cut | 1 049 922 | `LoopTypeOK`, `StaleWhenQuiet`, `GoodLinkIsLogged` |
| `RadioNano.cfg` | `millis` modulo 12, limits 3, 2 and 1, FIFO of 2, 1 power loss, 1 restart | 1 663 280 | `TypeOK`, `HostHears`, `NoFalseAlarm` |
| `RxSession.cfg` | 3 sessions, 1 note | 127 474 | `TypeOK`, `OneReceiver`, `OwnOpenLog`, `RunningIsStoppable`, `StopReenablesStart`, `KeptStopEndsAll` |
| `SdLogger.cfg` | 5 records, ring of 2, files of 2 rows, 2 numbers, window of 3 ticks | 281 742 | `TypeOK`, `RowsOnceInOrder`, `UnsyncedIsYoung`, refines `CardLog`, `RowsLostByCreateOnly`, `SettledCardIsLogged` |
| `SdPowerCut.cfg` | 2 records, a card that never fails, power cuts | | violates `SyncedRowsSurvive` |
| `AcuCan.cfg` | tick modulo 12, periods 1, 2, 3, 6 and 6, a scan of 3 frames, FIFO and queue of 1, 2 frames received, 1 Bus_Off, 1 tick of delay | 6 056 995 | `TypeOK`, `SpinsOnlyBeforeWrap`, `CadenceKept`, `DeafOnlyInScan`, `StaleOnlyAfterWrap`, `FreshIsHonoured` |
| `AcuWedge.cfg` | the same, 1 frame received | | violates `RecoveryRuns` |
| `CanSession.cfg` | 2 callers, 2 attempts or probes, 1 request and 2 replies under way | 890 954 | `TypeOK`, `OneInFlight`, `RepliesMatch`, `KeepaliveRuns`, `ReturnsUnlessJoinHangs` |
| `CanSessionHang.cfg` | 1 caller, 1 message each way | | violates `AwaitsBounded` |
| `IsoTp.cfg` | 2 nodes, 3 messages of 0 to 6 bytes, frames of 2, 1 and 2 bytes, sequence modulo 2 | 133 997 | `TypeOK`, `WholeUnlessBurst`, `CleanIsReturned` |
| `LogExtraction.cfg` | 2 files of 3 and 2 bytes, blocks of 2, 3 extractions, 1 frame lost | 383 030 | `TypeOK`, `AloneSavesItsFile`, `ExtractionEnds` |

What they show:

- **Reassembly**: a snapshot handed up is one that was sent, unless its number was used twice; one that
  is received whole is handed up exactly once, and with its own bytes unless the last fragment of an
  earlier use of its number was pending: then, and only then, what is handed up instead is torn;
  partials stay bounded.
- **Receive loop**: a link that has gone quiet, or a port that is gone, shows as STALE within the stale
  limit and two turns of the loop, and status frames of the Nano put that off at most once; a good link
  is logged.
- **Nano**: the host hears something, data or status, in every period; it is never told that there is no
  transmitter shortly after it got data, also across the wrap of `millis`.
- **Sessions**: until a join times out there is one receiver, it owns the CSV, notes go into it, and a
  running session can be stopped; Stop gives Start back, and a Stop that is kept ends every thread.
- **SD logger**: rows are on the card once and in order, unsynced ones are young, sealed files final, a
  synced row is lost only when the file that holds it is created again, and a card that has settled is
  logged to.
- **ACU CAN task**: while the bus is up every cadence is kept within its period, the delay and a scan; a
  node in Bus_Off recovers within the retry period and a pass, whatever `Stop` does, unless it is
  inside a scan; stale requests have no effect until the tick wraps, and fresh ones always have.
- **CAN session**: the messages under way belong to one call; replies go to the call that caused them
  unless a call before it was over with a wait that timed out or a command sent in part; a connected
  session has a keepalive, also after a reconnect, unless a tick failed, and none outlives its session;
  every call returns, probes and retries included, but for the one hang.
- **ISO-TP**: a message handed up is the one that was sent unless two frames in a row were lost; a
  message of which nothing is lost is handed up once unless its sender puts a flow control frame, or
  one without a meaning, between its frames.
- **Extraction**: if no other extraction overlapped, and at most one command of an earlier one was still
  under way, what is saved is the selected file; every extraction ends.

Why the bounds are enough. Reassembly: five snapshots over three sequence numbers wrap the counter,
two partials fill the buffer with a third sequence number left to force an eviction. The eviction
distance only compares positions on the circle, so three values show every order. Receiver: a tick is
the read timeout and the stale limit of the code, and a turn takes any number of them up to five; the
sleeps of the reconnect path are cut to two, which exceed the stale limit as theirs do, and the loop
compares ages with that limit only. The interval of the CSV, 0.1 s, is rounded up to a tick. Nano: the
silence, the status period and a blocked flush fit into one turn of the clock with room to spare, so
that a deadline before, at and after the wrap occurs. Sessions: with three, an old thread can outlive
its stop while another one is started and stopped. SD logger: two files are sealed, numbers run out,
the ring overflows; one window spans several ticks. ACU CAN task: the periods keep the order of
`ams_config_temp.hpp`, the scan exceeds the FIFO (in the code some 60 frames against 16), the two
received frames arm and disarm, or ask and ask again, and the tick wraps within the longest period.
CAN session: two callers and the keepalive queue behind each other; the first attempt of a command can
be answered while the second is under way; the reply channel of two fills with late replies, and a
broadcast fills it alone. One caller enters the bootloader, retries, broadcasts and disconnects, the
other sends plain and session-gated commands beside it: the first needs the device, the second the
session, and giving each all methods adds no action. ISO-TP: six bytes take a first frame and three
consecutive ones, so the sequence number of modulus 2 wraps within a message, a burst of two losses
does splice, and the lengths 2 and 3 lie on both sides of the single-frame limit. Extraction: one file
takes two blocks and one has no CRC; three extractions overlap in pairs and one may follow on the
leftovers of another; one loss leaves a reply cut, or a command unanswered.

Deadlock checking is off where the program may really stop: nothing left to transmit, all sessions or
extractions used, all records captured, a closed CAN session, or the hang itself.

Fairness. `Receiver`: the loop's turns, because the thread runs as long as the program does; nothing is
assumed of the cable or the car until `Settle`. `RxSession`: threads and the window's own continuations
(the operating system schedules them, the Qt timer fires); the operator owes nothing. `SdLogger`: the
logger task; neither the records nor the faults. `CanSession`: the executor polls every task that is
ready, and a timer fires; the device owes nothing. `LogExtraction`: each thread's steps (it is
scheduled, and its waits have timeouts); the card and the bus owe nothing. `AcuCan` and `RadioNano` need
none: they have clocks, and say by when. No property assumes strong fairness.

Every property of a passing run has a mutant in `PROJECT.json`: a plausible bug, written beside the
definition it changes, under which TLC finds the property violated.

## Disagreements found

With a run and its TLC counterexample (details in `PROJECT.json`, "findings"):

1. `sd_logger_task_temp.cpp:138` opens the unsealed file of before a power cut with
   `FA_CREATE_ALWAYS`, so synced rows are lost, against "bounds data lost on a power-cut"
   (`SdPowerCut.cfg`).
2. `session_temp.rs:848` awaits the keepalive task while holding the lock that this task may be
   queued for: a reconnect or a disconnect then hangs, against "no unbounded `.await`"
   (`CanSessionHang.cfg`).
3. `acu_can_task_temp.cpp:221` waits for room in the FIFO within the task that would recover from
   Bus_Off: if Bus_Off strikes during a scan, the task waits for good, against "the loop still spins"
   (`AcuWedge.cfg`).

Met while modelling, built into the models as the code has them, without a run of their own:

- `ISC_RTT_serial.py:498` evicts the partial whose sequence number is nearest to the arriving one,
  usually the newest; the comment at line 155 says the oldest.
- `ISC_RTT_serial.py:494`: nothing clears a partial. If its last fragment is pending when its sequence
  number is used again (wrap, restart of the car), the new snapshot is handed up torn, although all of
  it was received, and its own last fragment stays behind, to do the same to the next use of the number.
  `FullReceptionReturned` says that this is the only way.
- `ISC_RTT_serial.py:1206`: a status frame of the Nano, "NO_SIGNAL" included, carries sequence number 0
  and so shows LIVE once when the last fragment had another number.
- `ISC_RTT_serial.py:360`: five waits of 0.2 s, and `now` read before them, make the 200 ms of
  `_STALE_T` up to 2.2 s until the badge shows STALE.
- `ui.py:3921`: the -1 of Stop can be overwritten by the 1 of a snapshot that completes; the join then
  gives up after 1.5 s and the receive thread lives on. The same happens without a snapshot when the
  thread sleeps in the reconnect path for longer than that. If a session is started then, there are two
  receivers, the old one can close the CSV of the new (`ISC_RTT_serial.py:1270`) and clear its
  `is_receiving` (line 3893). `OneReceiver`, `OwnOpenLog` and `RunningIsStoppable` say that it takes a
  join that gave up.
- `ui.py:3486` cannot detect a dead receive thread: its `finally` (line 3893) has already cleared the
  flag that guards the check. Start stays disabled and Stop returns at once.
- `ui.py:4317` reports a note as written although its CSV is closed, when no session runs.
- `ui.py:4586`: the buttons of the extraction stay enabled while one runs; two of them share the session
  and the open file of the card, and each takes the replies of the other. Then what is saved under the
  selected name may be another file, whose CRC fits because it came with it, or, of files without a
  CRC, a mixture. A download is only right if it was alone.
- `ui.py:4806`: nor is being alone enough after two extractions that were broken off. When a CONNECT of the
  one and an OPEN of the other are still under way, the next extraction takes the answer to that
  CONNECT for the answer to its own, then that to the OPEN likewise, and so has the size and the CRC of
  another file: if that one has no CRC, what is saved is the selected file cut to the wrong size. It
  takes four extractions to get there; the attempt to prove `AloneSavesItsFile` without the condition on
  what is under way (`Start`) showed it.
- `RTT_nano_26.ino`: a chip that loses power with its data line low reads as endless payloads of zeros,
  and no status frame goes out while it does ("Send status frame every 1000ms if not OK");
  `HostHears` counts anew after such a stall. A chip that returns is detected but not configured again
  (line 220). The LED deadline is compared without the wrap.
- `acu_can_task_temp.cpp:410`: in the last 65 s before the tick wraps a disarmed task no longer sleeps
  (`SpinsOnlyBeforeWrap` says only then); `vehicle_service_temp.cpp:73`: a request that was stale is
  fresh again after the wrap (`StaleOnlyAfterWrap`).
- `session_temp.rs:482`, `:622`: a probe or an attempt that is repeated can be answered twice; the
  second answer stays in the channel and every later command gets the reply of the one before, until a
  reply is lost. So does the refusal of a command that the adapter took in part (`:788`), which no wait
  has to time out for. `RepliesMatch` is stated up to both.
- `session_temp.rs:830`: a tick that fails ends the keepalive task and leaves `keepalive` Some and
  `connected` true, so that nothing starts it again, not even a reconnect, and the watchdog of the
  device ends the session. `KeepaliveRuns` is stated up to that.
- `isotp_temp.rs:367`: a flow control frame of a node between the frames of its own message makes the
  host drop that message ("the peer restarted the conversation"). Such a frame
  is about what the host sends to the node, not about what the node is sending. `CleanIsReturned` excepts
  it.

## Proofs

TLAPS checks, for all values of the constants that the named assumptions of the modules allow:

| theorem | says | by |
|---|---|---|
| `FragReassembly_proofs!TypeCorrect`, `BufferBounded` | types; at most `MaxPending` partials, none complete | the invariant below |
| `!WholeSnapshots` | a snapshot returned is one transmission unless its number was used twice | every pending fragment was cut from a transmission that was sent (`Provenance`) |
| `!FullReception` | a fully received snapshot is returned exactly once, and with its own fragments if and only if the last one of an earlier use of its number was not pending | while reception is clean the fragments so far are pending until something is returned (`Reception`), and that is too early exactly if the leftover is there (`Tearing`); the eviction never strikes the key that is being received |
| `!LinkRefinement` | the reassembly implements `SnapshotLink` | fragments of the snapshot on the air are the newest, and a returned one is gone (`Order`) |
| `!LoopTypeCorrect`, `LiveIsFresh` | types of `Receiver` (`LoopTypeOK`); LIVE outlasts the last advance by at most the stale limit and two turns of five reads, and a status frame advances at most once between two fragments (`StaleWhenQuiet`) | the clock that the badge is judged by is behind the time spent reading by the current turn at most (`Honest`), and a status frame leaves the number at 0 (`Echoes`) |
| `!LoopBufferBounded` | at most `MaxPending` partials, none complete, in the loop with all that `FragReassembly` leaves out: sessions that end and begin, damaged frames, status frames | the lemmas on `_frag_buffers` that `BufferBounded` rests on, stated for any buffer |
| `RxSession_proofs!TypeCorrect` | types | |
| `!LogsAreClosed` | a CSV that is open is the one `_excel_logger` names, and its session is in its loop: even the overlapping sessions after a join timed out forget none (`NoLogForgotten`) | inductive with the types |
| `!NoSecondReceiver`, `SessionOwnsLog`, `StopWithinReach` | until a join times out: one thread, its own open CSV that takes the notes, Stop reachable | a live thread is the one the window remembers (`Latest`) and an enabled Start button means there is none (`StartMeansNone`); so the globals have one writer |
| `SdLogger_proofs!TypeCorrect` | types | |
| `!RowsInOrder` | no row is on the card twice or out of order | what is safe on the card is older than what is in the buffer, that older than the ring, and nothing is newer than the last record captured (`Sequenced`) |
| `!SyncWindow` | unsynced rows are younger than a window | rows in the buffer are younger than the last attempt to sync (`Young`), and the task sleeps with such rows only if that attempt is recent (`Asleep`) |
| `!SealedFilesFinal` | no step changes a sealed file | only a rename adds one, and FatFs refuses an existing target |
| `!CardRefinement` | the logger implements `CardLog`, power cuts and failing calls included | the order of `RowsInOrder`, and that a sealed file and an unfinished one share no row, are what each step of the card needs |
| `!OnlyCreateLosesRows` | a row that was synced is lost only by `open_new_file`, over the file that held it (`RowsLostByCreateOnly`) | every other step leaves each file whole, renames it or makes it longer (`GrowthKeepsRows`) |
| `CanSession_proofs!TypeCorrect` | types | |
| `!OneCommandInFlight` | messages that somebody waits for belong to one call | who sends, waits or joins is the head of the lock (`Queue`), and who is waited for waits (`Waited`) |
| `!RepliesMatchCommands` | a reply is taken by the call it answers, until a call was over with a wait that timed out or a command sent in part | before that an attempt is over when the next is made (`OneAttempt`), and a message that nobody waits for is left by such a call, or by closing (`Strays`) |
| `!KeepaliveStays` | a connected session has a keepalive, a closed one none | a task is cancelled, or without a handle, only while a caller joins it (`Kept`), and nobody calls beside or after `disconnect` (`Consumed`) |
| `!LockGoesOn` | whoever waits for the lock is in its queue, and its holder can go on by itself or joins a keepalive that is over or about to hear that it is cancelled, unless that keepalive waits for the lock too (`OnlyJoinHangs`) | the queue holds nobody else (`Lined`), and a joined keepalive is cancelled (`Kept`) |
| `!HangStays` | that exception is a deadlock: once there it stays (`HangIsForEver`) | who left it would need the lock |
| `RadioNano_proofs!TypeCorrect` | types | |
| `!HostAlwaysHears` | the host is never without a frame for longer than `HeardCap` | what it waited is at most what the sketch reads of either kind of frame; or one of the two readings has wrapped, and then the other is not much larger (`Timely`) |
| `!NoFalseAlarmEver` | no NO_TRANSMITTER within the limit of a payload | up to the limit, what the sketch reads is the true silence (`Fresh`) |
| `AcuCan_proofs!TypeCorrect` | types | |
| `!StaleIsIgnored`, `FreshCounts` | a stale request has no effect before the tick wraps, a fresh one always has | the stamp tells the true age while that is fresh, or not wrapped (`Requests`) |
| `!SpinsOnlyWhenDue`, `CadencesKept` | no spinning without cause; every cadence within its period, the delay and a scan | what was sent in a pass is fresh at `now2` (`Served`), a scan takes a tick for each frame at most (`ScanTime`), the wait is no longer than what is left of any period (`Waiting`) |
| `!DeafnessEnds` | Bus_Off ends within the retry period and a pass, outside a scan | the node is deaf no longer than the retry timer says, and what has passed since the poll (`Recovering`) |
| `!DeafnessIsForEver` | a node that is deaf for longer than `DeafnessEnds` allows stays off the bus for good, waiting for room in the FIFO (`DeafForEver`) | it is in a scan that Bus_Off interrupted, and no step leaves that (`WedgedStep`) |
| `IsoTp_proofs!TypeCorrect` | types; a message in progress is shorter than announced | the invariant below |
| `!WholeMessages` | without a burst of losses, a message handed up is the one being sent, byte for byte | a reassembler in progress is in step with its sender, or one frame was lost and the next cannot continue it (`Linked`) |
| `!CleanReception` | a message of which nothing is lost, and that no loose frame of its node interrupts, is handed up exactly once | while clean, the reassembler is in step (`Received`), and a completed one is idle (`Once`) |
| `!LinksRefinement` | the messages of each node, taken alone, implement `SnapshotLink` (`ImplementsLinks`) | a step of one node is a step of its link and a stutter of the others |
| `LogExtraction_proofs!TypeCorrect` | types | every frame on the way is one of a reply that the card makes (`Wire`) |
| `!AloneIsRight` | an extraction that was alone saved the selected file | the invariant below (`Faithful`) |

None of the safety properties is inductive by itself. `OneReceiver`, for instance, is preserved by
`Start` only because an enabled button means that no thread lives, which in turn needs to know whom
the window waits for. Each proof module states its invariant as a conjunction of named parts, shows
that the initial states have it and each action keeps it, one step per action, and derives the
properties.

The longest arguments are those about what the code does not check. `LogExtraction` matches neither
replies nor sequence numbers, so `Faithful` follows an extraction that is alone command by command: what
is left of an earlier extraction can only answer its CONNECT (`Knocking`); then the inbox holds the
rest of the one reply that was asked for (`Coming`), or a frame of it was lost and what is left is
too short to ever complete a reply (`Broken`); so what was read of the file is a prefix of it
(`Halfway`). `CanSession` does not match replies to calls: that they match, until a call times out or
sends half a command, comes from the lock alone.

Each of the three runs that violate a property has a theorem beside it that bounds the damage. The rows
that `SdPowerCut` loses are lost by the re-creation of their file and by nothing else
(`OnlyCreateLosesRows`). The hang of `CanSessionHang` is for good (`HangStays`), and is the only way in which
the lock stands still (`LockGoesOn`). The wedge of `AcuWedge` is for good too, and outside it the node
recovers in time (`DeafnessIsForEver`, `DeafnessEnds`).

Five properties are stated in the proof modules, next to the invariants they follow from, and are
proved without a run of their own: `LoopPendingBounded`, `NoLogForgotten`, `OnlyJoinHangs` with
`HangIsForEver`, and `DeafForEver`. So are two of the models: `SealedIsFinal`, which
`ImplementsCardLog` contains, and `ImplementsLinks`.

What the proofs assume of the constants, beyond being numbers and sets of the right kind:

- `RadioNano`: the limits of silence, status and a blocked flush fit together into one turn of `millis`
  (the code: 2 s, 1 s and some milliseconds against 49 days), and a flush may take time. Without the
  latter, `HostHears` would be off by one tick.
- `AcuCan`: the sentinel of a disarmed scan is beyond every period and below the wrap (65 s, at most 2 s,
  49 days), and the fast period, a scan and the delay of the task fit into one turn of the tick. Without
  the last, the age of a cadence could pass through 0 unseen, and `DeafOnlyInScan` fails.
- `IsoTp`: a modulus of at least 2 for the sequence number (16 in the code).
- `Receiver`: every time is positive, and `_last_seq` before the first fragment is no sequence number
  (`TimeAssumption`).

Only model-checked: everything temporal that needs fairness (`GoodLinkIsLogged`, `StopReenablesStart`,
`KeptStopEndsAll`, `SettledCardIsLogged`, `ReturnsUnlessJoinHangs`, `ExtractionEnds`), which is out of
the prover's reach. Every other property of a passing run is a theorem.

## Limits

- `Receiver`: opening the port shows LIVE before any frame arrived, and only a session that has seen a
  fragment ever falls back to STALE; `StaleWhenQuiet` is stated from the first fragment on, and not for
  the turn that opened the port. Stray bytes skip the clock check and are excepted too: time counts from
  the last of them. The byte level of `_read_frame` is its outcome and the time it took; a payload that
  trickles in is short when the read timeout of pyserial is over, as the code has it.
- `RadioNano`: the header of a payload is valid or not; the detection LED mirrors the connection. What
  the chip answers without power is the level of its data line.
- `RxSession`: the join timeout has no clock. After a join timed out the three safety properties are
  not claimed: an old thread may then close the CSV of the next session.
- `SdLogger`: the body of a tick takes less than a tick. A row cut in the middle by a power cut counts
  as lost. FatFs is modelled by what the code relies on.
- `AcuCan`: `CadenceKept` is stated while the bus is up and excepts the pass in which the tick wraps
  between the poll and the wait, whose timeout may be too long. When the FIFO is full the
  acknowledgement of an arm command or the health frame is dropped; no property says otherwise. The
  DC-bus voltage that `VehicleService` stores has its reader in the safety task, which is not in the
  repository.
- `CanSession`: an ISO-TP message is one message, of which only that it was sent in part is kept. A
  timeout may fire at any time, so the lengths of the timeouts and of the backoff do not show.
  `send_command_to` is `send_command` with another destination. A keepalive that died is never
  restarted while its handle is there (`StartKeepalive`): `KeepaliveRuns` is stated up to that.
  Notifications are left out.
- `IsoTp`: frames of a node arrive in order and not twice, as CAN delivers them. A frame of the kind
  that carries a message is one the segmenter made; a loose frame is any other, of the same node. Two
  frames lost in a row are the hypothesis under which nothing is claimed: it is weaker than the
  sixteen that wrap the real sequence nibble within a message, but also covers the tail of one message
  and the head of the next. Not stated as a property: `feed` says every error leaves the reassembler
  idle, while `feed_cf` keeps the message in progress when a consecutive frame is too short
  (`isotp_temp.rs:469`); `FeedCf` does the same.
- `LogExtraction`: of extractions that overlap nothing is claimed but that they end.
  `AloneSavesItsFile` counts an extraction as alone if at most one command of earlier ones was under
  way when it began (see Disagreements). The window's Disconnect, a second simulator, the parsing of
  directory entries and what Qt does with a replaced `QThread` object are left out. CRCs do not
  collide.
- `log_ring.hpp` and the header of the CAN recovery are not in the repository; the ring and the
  recovery are modelled from their use.

Not modelled: the nRF24 node is a bring-up transmitter of eight constant tables whose payloads the Nano
does not accept; the pit diagnostics host is one sequential command that arms, prints and disarms, and
the side of it that schedules is in `AcuCan`; the wire encodings are pure and tested; the bootloader jump,
the BMS monitor, the demo generator, the uploads and the drawing keep no state that a property could be
about. By far most lines of the repository are ST's HAL and CMSIS, the RF24 library and older copies of
the sketches: the models cover the code that the team wrote, and what it uses of the libraries as
external definitions.

## Plan

The components with a protocol, a clock or concurrency are modelled, the safety properties of every run
are proved, and two abstract specifications are implemented. What is left:

1. The CAN session as a channel for one command at a time that `CanSession` implements, with
   `OneCommandInFlight` and `RepliesMatchCommands` as lemmas.
2. Action properties: the `last` of a cadence in `AcuCan` moves only when its frames were put into the
   FIFO or refused; a note in `RxSession` is written to no log but the session's.
3. The lemmas on sequences and on wrapping clocks that `RadioNano_proofs`, `AcuCan_proofs` and
   `LogExtraction_proofs` each state for themselves, in one place.
