# A TLA+ verification of sanbao_prot

`sanbao_prot` runs on an in-vehicle ADAS/DMS device. It turns the detections of
the vision algorithm, which arrive over a websocket, into alerts of the
"Su biao" protocol, sends them to a host over TCP (or RS232), keeps the photos
and videos that belong to them, and lets the host read and set parameters and
upgrade the program. This directory holds TLA+ models of its parts, the TLC
configurations that check them, and proofs for the TLAPS proof system.

## 1. Inventory

### Threads

| thread | entry | does |
|---|---|---|
| websocket | `wsi.cpp`, `pthread_websocket_client` | receives algorithm frames, runs `deal_wsi_adas_can700` / `deal_wsi_dms_info`, builds and queues alerts |
| receive | `process.cpp`, `pthread_process_recv` | connects, reads and parses frames, runs the command handlers, queues the replies |
| send | `process.cpp`, `pthread_process_send` | pops the send queue, transmits, waits for acknowledgements |
| snap | `process.cpp`, `pthread_snap_shot` | speed records, automatic snapshots, heartbeat supervision, closing the socket |
| save media | `rb_rw.cpp`, `pthread_save_media` and its pool | writes photos and videos |
| encoders | `rb_rw.cpp` | fill the camera ring buffers (camera library) |

### Components

| component | state | operations | talks to | what makes it correct |
|---|---|---|---|---|
| **uplink** | send queue `g_send_q_p`, semaphore `send_data`, flag `recv_ack`, status `process_socket_status`, socket `handle->fd`, media transfer `g_pkg_status` | push and post, pop, transmit, wait, time out, connect, `clear_queue`, command handlers, media packets | all four threads | no queued message without a wake-up; order kept; bounded retransmission; no stale message after a reconnection; the packet index stays in the file; the queue drains while the host reads |
| **framing** | `get_head`, `got_esc_char`, `cnt`, `rcvData` (static, they survive a connection) | escape, one byte of `unescaple_msg` | receive thread | no short run of bytes leads outside the buffer; loses at most one frame after a disturbance |
| **heartbeat** | `heart_beat_status`, silent seconds, status | mark, read, wipe, count, close | receive and snap threads | never closes a link that beats; always closes one that does not |
| **ADAS alerts** | last frame, `s_start_flag`, three time stamps | one frame: LDW, FCW, headway BEGIN / END | speed (receive thread), parameters | BEGIN and END pair up; the pause is kept |
| **DMS alerts** | last frame, six time stamps | one frame: five kinds by priority, driver change, absence release | speed, parameters | an alert is lost only for a reason that the filters give |
| **parameters** | structure in memory, file | load, set, factory reset, `write_file` | receive thread, all readers | what was acknowledged survives a restart; ranges hold |
| **media store** | counter `s_mm_id`, files, image queue, pool | take ids, delete old files, push, pull, record, restart | reporting threads, save thread | ids are unique; every id is accounted for; old files go; jobs finish |
| **upgrade** | `sum`, `sum_new`, `offset`, image file | CLEAN, TRANS, RUN | receive thread, `prot_upgrade.sh` | what the sum test lets through is the exact image, short writes and misplaced zeros aside; an undisturbed transfer is installed |
| **websocket client** | pointer `wsi_dumb`, index `msg_send_index`, rate limit | connect, callbacks, ask for a topic, receive | alerts (same thread) | every connection is asked for its topics; it never stops trying to connect |
| **snapshots, speed records** | two time stamps, last mileage | a round: record, supervise, photo by time or distance | heartbeat (same thread), uplink, media store | no burst, photos keep coming, the supervision is not disturbed |
| **shutdown** | `force_exit`, the semaphore, five threads | SIGINT, leave a loop, join | all threads | the process ends wherever SIGINT finds it, but in a write() that the host does not take |
| **camera resolution** | `s_type`, camera | `config_*_video_resolution` | parameters, save thread | the camera comes to what the parameters ask for |
| real-time data, CAN 760 | last value behind a lock | read, write | alerts, snapshots | the mileage is state of `SnapThread`, the speed an input of the alert modules that may change between any two steps |
| serial numbers | one counter | next | uplink | not modelled: nothing on the device reads them back |
| serial line, configuration, encoders, build | | | | not modelled: device and file I/O, a parse at start, a library, scripts |

### What is hard here

The threads share the queue, a semaphore, one acknowledgement flag, the
status and a file descriptor, and take no lock over more than one of them. Push
and post, status test and pop, close and set-off, read and wipe are pairs of
steps with room for another thread in between. The host may answer late, twice
or never; the connection may go at any step. The parser and the upgrade keep
their state in static variables which no reconnection resets. The parameter
file is truncated before it is filled. Old media files are deleted by id
arithmetic, and the ids start from what a crash left behind. One thread
supervises the link and takes the photos, each by a time stamp of its own. The
websocket client keeps its place in the subscribing in a static variable. The
send thread waits without a limit for a token, where SIGINT must find it, and
for a host that does not read, where nothing does. `PROJECT.json`
lists these hazards at their lines, with the property that would catch each.

## 2. Plan

1. `Uplink`, the core (done, with proofs);
2. `FrameParser`, `Heartbeat`, `AdasAlert`, the other state that several threads
   or connections share (done, with proofs);
3. `ParaStore`, `DmsAlert`, `MediaStore`, `Upgrade` (done, with proofs);
4. the compositions: `SnapThread` around `Heartbeat`, `Process` around
   `ParaStore`, `Wsi` around `DmsAlert`, each proved to implement what it is
   around (done);
5. `Channel`, what the send path promises, and `Uplink` proved to implement it
   (done);
6. left: the freeing of the send thread's buffers by a receive thread that
   leaves; the media transfer as a component of its own, over a file that is
   still being written.

Modules are written so that they can be proved about: no recursive operator,
constants with named assumptions, one action per stretch of code between two
points where another thread can interfere. The heartbeat's counting is outside
`Uplink`, which lets it run out at any moment (`HeartTimeout`) and so covers
every behaviour that `Heartbeat` allows it.

## 3. Modules

| module | part | around or under it |
|---|---|---|
| `Uplink` | uplink | implements `Channel`, the abstract specification |
| `FrameParser` | framing | |
| `Heartbeat` | heartbeat | implemented by `SnapThread` |
| `AdasAlert` | ADAS alerts | |
| `DmsAlert` | DMS alerts | implemented by `Wsi` |
| `ParaStore` | parameters | implemented by `Process` |
| `MediaStore`, `Upgrade` | media store, upgrade | |

Each `MC*` module extends its component and defines the constants that a
configuration cannot write. Each `*Proofs` module extends its component and
`TLAPS`. Definitions whose comment begins with "Mutation" or "Mutant" are
deliberately wrong variants, which no specification uses; each of them breaks
the property that `PROJECT.json` pairs it with.

### Uplink

One program counter per thread: `wpc` (websocket, as a raiser of alerts), `npc`
(snap), `rpc` (receive), `spc` (send).

| code | actions |
|---|---|
| `message_queue_send`, `ptr_queue_push` | `Enqueue`, then `Post` as a step of its own |
| alerts and snapshots | `WsRaise`, `WsPost`, `SnapRaise`, `SnapPost` |
| `tcp_socket_close` from `check_heart_beat` | `HeartTimeout`, `HeartClose`, `HeartOff` |
| `pthread_process_send`, `send_package` | `SemWait`, `SendCheck`, `SendPop`, `SendStall`, `SendOnce`, `SendTry`, `SendBlock`, `SendAcked`, `SendTimeout` |
| `do_stat_reset`, `clear_queue`, `socket_init`, `try_connect` | `RecvReset`, `RecvClear`, `RecvInit`, `RecvConnect`, `RecvSetOn`, `RecvReport`, `RecvPost` |
| `tcp_rcv`, `sample_on_cmd` | `RecvLost`, `RecvCommand`, `RecvSnap`, `RecvAck`, `RecvReqMM`, `RecvStartMM`, `RecvAckMM`, `RecvNextMM` |
| host and network (external) | `HostSilent`, `HostClose` |

A message is its number, class and packet index. A read returns one frame. The
host answers each transmission at most once and in TCP order; a duplicate
acknowledgement comes from a retransmission. A transmission is counted when
`tcp_snd` returns, whether or not the socket took it. `tcp_snd` is a loop of
`write()` without a time limit (`net.cpp:235-249`): `SendStall` is the beginning of
a wait in it, and `SendOnce` or `SendTry` ends it, if it ends. `stalled` also tells
that the connection went away meanwhile, so that what is then written reaches
nobody. `rep` stands for both bounds of the loop in `send_package`, `i < 3` and
`send_repeat >= 3`, which are the same number.

### Channel

What the raisers of messages may rely on, without queue, semaphore, connection
or threads: messages are accepted or refused, taken oldest first and one at a
time, transmitted at least once and at most `Repeats` times, and one that asks
for an acknowledgement is let go only for one that the host sent or after the
last transmission. It does not say that the acknowledgement was for this
message: the code's single flag does not know (section 6). The mapping is in
`Uplink`: the queue as a set, the message popped and not yet given up, and the
acknowledgements received and not consumed.

### FrameParser

One action per byte that arrives: noise, the bytes of an escaped frame, a loss
of the connection in mid-frame. The host escapes as it sends: `pos` is the byte
of the frame that `sample_escaple_msg` is at, and `tosend` what remains of that
byte escaped (`Escaped`). `unescaple_msg` is one operator per branch. The
bytes are the mark `7E`, the escape character `7D`, `01` and `02`, which follow
it, and one more. The checksum is left out: it can only reject a frame.

`MsgLen` is the limit that `prot_parse` passes (`SLIP_DATA_BUF_SIZE`, 131200,
`process.cpp:2767`) and `BufLen` the size of `handle->rcvData` (`DATA_BUF_SIZE`, 65536,
`process.cpp:2840`): nothing relates them in the model, as nothing does in the
code. `Store` notes in `strayed` that a byte went outside the buffer. What that
does to the memory there is undefined; the parser goes on as if it were
nobody's, and the properties claim nothing from then on.

### Heartbeat

`CheckOff`, `CheckStart` (at most once a second), `ReadDeath`, `ReadAlive`,
`Wipe`, `CloseSocket`, `SetOff` of the snap thread against `Beat`, `RecvLost`,
`Connected`, `SetOn` of the receive thread.

### SnapThread

`pthread_snap_shot` as a whole: `RecordSpeed` or `RecordNotDue`, then the steps of
`Heartbeat` (`HeartStep`, `HeartNotDue`), then `PhotoByTime`, `PhotoByDistance` or
`NoPhoto`. `SpeedInfo` (the mark and the mileage), `SetPhoto` and `Link` are the
receive thread, `Clock` a second that passes for all time stamps. The distance
is computed modulo `Modulus`, as the code's unsigned arithmetic does.

### AdasAlert, DmsAlert

The handling of one frame is one step per alert, because each alert reads the
speed when its turn comes. The clock is the number of seconds since each time
stamp. The speed is "slow" or "fast" with respect to the threshold. In
`AdasAlert` the time filter comes first and moves the time stamp of an alert
that the speed filter then refuses; in `DmsAlert` the order is the reverse.

### Wsi

`pthread_websocket_client` and `callback_lws_communicate`: `Connect` (at most every
two seconds), `Established`, `ConnectionError`, `Closed`, `Writeable` (one topic for
each call), `Receive`, which is `DmsAlert`'s `Frame`. Callbacks and judging run in
one thread; `Meanwhile` is the clock and the speed. `ConnectionError` and `Closed`
include the `WSI_DESTROY` callback that follows them. Library and server are external; a `WRITEABLE` callback may come at
any time while the link is up.

### ParaStore

`mem` and `file`. Setting is merge, check (ADAS build only), `fopen` (truncates
or creates), `fwrite`/`fclose`, answer. Each can fail where the code looks, and
`fclose` can fail where it does not. `Restart` may come at every step. It is
the end of the process, not a loss of power: what was handed to the system is
kept.

### Process

`Load` (the parameters, before there are threads), `Start`, `Join` of `main`;
`Signal` and `Notice`, the two halves of the handler; `Leave` for the threads whose
waits all have a limit; `SendTest`, `SendWait` and `SendPackage`, whose waits for a
token and for the host have none; `RecvGivesUp`
for a socket that cannot be made; `SettingCommand`, the steps of `ParaStore`;
`SaveIdle`, `ConfigureVideo`, `ConfigureImage`, `SaveLeave` of the save thread, whose
reconfiguring takes seconds; `NewProcess` after an end or a kill at any moment. A
token posted before `sem_init` may be lost.

### MediaStore

`Photos`, `Video`, `Clear`, `Push`, `Other` (the second camera) of each
reporting thread; `Pull` and `Record` of the save thread and its pool; `Restart`
and `RestartEmpty`. A file is its id and the write of a file is one step that
succeeds or fails. The END of a headway alert repeats the ids of its BEGIN and
takes none. An alert that asks for no photo has no job; a snapshot is enabled
whatever `photo_num` is (`process.cpp:906-909`, `969-973`), and `store_jpeg` is a
do-while loop (`rb_rw.cpp:489-505`): with 0 it writes one file, of id 0 (`PhotoIds`).

### Upgrade

`Clean`, `TransSum`, `TransData`, `Run`, `Crash`, with a host that sends packets
in order, may repeat the last one, and may start over. Bytes are 0 to 255 and
sums stay below 2^32. The sum does not see a packet of zeros, and the offset, in
which `packet_index` has no part, moves with it: `blank` tells that the process
took such a packet out of turn (repeated, of an abandoned transfer, or of one
whose sum it was not told). The installing script is one step. `GetSum` is the last value of
`Sums`, the running sum of `get_sum`'s loop, and `Content` the last of `Prefixes`;
both are recursive functions, about which theorems can be proved.

## 4. Runs

| run | bounds | checks | shows |
|---|---|---|---|
| `uplink` | queue of 2, 1 transmission, files of 2 packets, 4 messages, 1 connection; 3.6 M states | `TypeOK`, `TokenBalance`, `NoOvertaking`, `AckCredit`, `PacketIndexBound` | under every interleaving the queue, its tokens, the flag and the packet index agree |
| `uplink_reconnect` | queue of 2, 2 transmissions, 3 messages, 2 connections; 1.6 M states | `TransmitBound`, `FreshQueue`, `QueueDrains`, `KeepsPromise` | retransmission is bounded, a new connection starts with a fresh queue, the queue empties again and again unless a write lasts for ever, and `Uplink` implements `Channel` |
| `uplink_stale_off` | as above, smaller | `OffIsNotConnected` | violated: finding 1 |
| `parser` | limit of 6, buffer of 5, contents of up to 3 bytes, 5 bytes of noise; 1.5 M states | `TypeOK`, `OutsideOnlyAfterLongRun`, `ResyncAfterOne` | a byte goes outside the buffer only after as many bytes without a mark as fill it; the second intact frame after any disturbance is returned |
| `adas` | 3 levels, filter times 1 and 2; 4 M states | `TypeOK`, `NoOrphanEnd`, `EndLostOnlyByAbandon`, `BeginAfterPause` | BEGIN and END pair up, but for abandoned frames |
| `adas_end` | same | `BeginHasEnd` | violated: finding 2 |
| `wsi` | 3 signals, 2 settings of the filter times, 2 topics; 551 k states | `WsiTypeOK`, `LostOnlyToSpeed`, `HeldBackOnlyAfterReport`, `AskedFor`, `NeverGivesUp` | every connection is asked for its topics, and there is one or another attempt again and again; only the speed filter loses an alert, and what it refuses silences nothing later |
| `snap` | period 3, photos off, by time or by distance, 4 mileages, arithmetic modulo 16 | `SnapTypeOK`, `CloseAfterSilence`, `DeadLinkDropped`, `KeepsSupervising`, `NoBurst`, `PhotosKeepComing` | a link is closed after silence and only then, whatever else the thread does; no photo without a cause; photos keep coming |
| `process` | the two resolution fields, 3 values, ADAS build, 1 message token; 296 k states | `ProcessTypeOK`, `AckedSurvives`, `RangeKept`, `ExitToken`, `ExitEnds`, `CameraFollows` | acknowledged parameters survive SIGINT and kills, in range; SIGINT ends the process unless the send thread is held in `write()`; the camera follows |
| `para_adas` | 2 fields, 4 values, ADAS build | `ParaInRange` | violated: finding 3 |
| `media` | 2 threads, window of 2, queue of 1, photo ids up to 2 (ids up to 6), alerts and snapshots with a photo and without; 149 k states | `TypeOK`, `UniqueIds`, `RetainedWindow`, `NothingForgotten`, `JobsFinish` | ids are unique over restarts, deletion misses only what came too late and file 0, every job ends |
| `upgrade` | 2 data packets of 1 or 2 bytes, 4 packets per process, packets of zeros among them; 154 k states | `InstallExact`, `CleanTransferInstalls` | a file that is not the exact image is installed only after a short write or a packet of zeros out of turn |

**Why the bounds are enough.** In `uplink` four messages are the status report of
the connection, the reply to a media request and two packets, so that the
transfer runs to its end and its last acknowledgement competes with alerts; two
places fill up, so that pushes are refused. Two connections are needed for
anything stale. The safety properties of `Uplink` are moreover proved for every
value of the constants. In `parser` the limit is larger than the buffer, as in
the code, the noise fills both, and contents include marks and escape characters
in every position. In `adas` and `wsi` the ages go up to the longest filter time, beyond
which they do not differ; in `wsi` the three signals are an alert, the
absence, whose end is reported too, and the face, whose change is, and
connections break at every point of the subscribing, between two topics too. In `snap` the mileage goes back below its last value, so that the
modulus is met. In `process` a single token of a message is enough for the send
thread to use up the last one between its test and its wait. In `media` the window is smaller than the number of
ids, the queue overflows, and jobs can be recorded after their turn to be
deleted. In `upgrade` a process takes more packets than one image has, and images
of equal sums and of nothing but zeros occur.

**Deadlock** is checked except in the uplink runs, which end when the bounds on
messages and connections are used up.

**Fairness.** `Uplink`: the send thread, the posts, the snap thread's closing and
the receive thread's steps that wait for nobody are weakly fair: each is a
stretch of straight code of a scheduled thread, or a wait with a time limit.
The steps that begin or end a wait in `write()` are excepted: the socket has no
send timeout (`net.cpp:236`) and keepalive is commented out (`net.cpp:156`), so that a
host that keeps beating and does not read holds the thread for as long as it
likes, with the status ON. `QueueDrains` says so. Nothing is assumed of the host,
of connecting, or of the alerts. `SnapThread`:
time passes and the thread goes round its loop, which sleeps a tenth of a
second and waits for nobody. `Process`: every thread is scheduled, the handler
runs to its end, a command once begun is carried out, and the save thread finds
the image queue empty again and again, since alerts are spaced by their filter
times and a job is only handed to the pool. No token is assumed for the send
thread: that there is one is `ExitToken`; and none that its `write()` ends, so that
`ExitEnds` leaves out a send thread that stays in it. `Wsi`: the thread judges a
frame to its end, goes round its loop (`lws_service` returns within 200 ms), and
time passes; nothing is assumed of the server. `MediaStore`: the save thread polls
the queue, and the tasks of the pool go on, those that record ids also while
snapshots without a photo keep coming, since the pool starts its tasks in their
order; this assumes that the camera library delivers.

## 5. Proofs

All theorems hold for every value of the constants that satisfies the named
assumptions (`UplinkAssumption`, `ParserAssumption`, `AdasAssumption`,
`HeartAssumption`, `SnapAssumption`, `ParaAssumption`, `ProcessAssumption`,
`DmsAssumption`, `TopicsAssumption`, `MediaAssumption`, `UpgradeAssumption`), which say
that the sizes are natural numbers and the parameters have the right shape;
`UpgradeAssumption` also says that a data packet is a non-empty sequence of bytes,
and `MediaAssumption` that a snapshot has no video. Every safety property that a passing run checks is a theorem.

- **`UplinkProofs`**: `TypeCorrect`, `NoLostToken`, `BoundedTransmission`,
  `FifoTransmission`, `NoStaleMessage`, `NoInventedAck`, `BoundedPacketIndex`.
  The invariant is `UplinkInv`. `TypeOK` with `HeldMessage` and
  `PacketIndexBound` (`Shape` in the proofs) is inductive alone, and
  `TokenBalance` and `AckCredit` are on top of it. The order needs
  `QueueOrder`: the queue is increasing and lies beyond the message in hand.
  The bound needs `TransmitCount`: the transmissions of the message in hand are
  `rep`, and no message later than it was transmitted.
- **`UplinkProofs`**, second part: `UplinkImplementsChannel`, that is `Spec => KeepsPromise`:
  under `UplinkInv` every step of the four threads is a step of `Channel` or
  leaves its variables alone. A pop is `Take` because `QueueOrder` makes the head
  the oldest; `SendAcked` is `Release` because `AckCredit` says that there is an
  acknowledgement; the last `SendTimeout` is `Release` because `TransmitCount`
  ties `rep` to the transmissions.
- **`FrameParserProofs`**: `InsideUntilLongRun` (`OutsideOnlyAfterLongRun`),
  `ParserTypeCorrect`, `AtMostOneFrameLost` (`ResyncAfterOne`), from `ParserInv`,
  whatever the limit and the size of the buffer. The first needs `FrameState`:
  through every branch of `unescaple_msg` the parser holds, behind the last mark,
  no more bytes than came since, and a pending escape has a byte before it to
  replace. The resynchronisation needs `InStep`: once one
  frame has come through intact, what the parser has stored is the mark and what
  the host has sent of the next frame (the bytes before `pos`), an escape is
  pending exactly when the host owes its second half (`Half`), and between two
  frames nothing is left but perhaps a mark; and `EscapeInPhase`: already in the
  first frame no escape of before survives its first byte. No induction over
  the bytes of a frame is needed, because the host sends them one at a time and
  the invariant speaks of the prefix.
- **`AdasAlertProofs`**: `EndsMatchBegins`, `OnlyAbandonLosesEnd`,
  `BeginRespectsPause`, `AdasTypeCorrect`. The invariant relates `s_start_flag` to the number of
  open BEGINs, and the time stamp of the headway filter to the time of the last
  END, which it never precedes.
- **`HeartbeatProofs`**: `NoHastyClose` and `HeartTypeCorrect` for `Heartbeat`. The
  invariant is `CountedSilence`: each second counted is one without a beat, in
  spite of the beat that may fall between read and wipe.
  `SnapImplementsHeartbeat` (safety) carries both over to the thread
  (`NoHastyCloseInThread`). `OnePhotoPerCause` needs that a photo that is still
  due right after it was taken is due for a cause: the mileage remembered is the
  one it was taken at, and the time stamp is zero. `SnapTypeCorrect` types the
  thread on top of `HeartTypeCorrect`.
- **`ParaStoreProofs`**: `AckedParametersSurvive` (both builds),
  `AdasParametersInRange`, `ParaTypeCorrect` for `ParaStore`. The invariant adds
  `FileIsDurable`: a file that was written to its end holds what was checked and
  written. It needs the lemma that writing what was read back changes nothing.
  `ProcessImplementsPara` carries the first over to the whole process
  (`AckedSurvivesInProcess`). `SendThreadCanEnd` rests on `ExitInv`: after the
  handler's post a send thread that has passed its test with the flag unset has
  a token left, and one that takes it sees the flag. `RangeKeptInProcess` carries
  the ranges over as well. `ProcessTypeCorrect` rests on `OneMoreToken`: there is
  never more than one token beyond those of the messages, since the handler
  posts once and after it set `force_exit`.
- **`WsiProofs`**: for `DmsAlert`, `OnlySpeedLoses` and `OnlyReportsHoldBack`, by
  `DmsInv`: each time stamp is the age of the last report of its kind, and the
  alerts judged so far in a frame are accounted for. `ClientImplementsDms`
  carries the first to `Wsi` (`OnlySpeedLosesInThread`). For the client,
  `EveryConnectionAsked` and `WsiTypeCorrect`, by `ClientInv`: the pointer is set
  exactly while the library has a connection, and the topics before the index
  are those that this connection was asked for or lost.
- **`MediaProofs`**: `MediaTypeCorrect`, `NoSharedId`, `OldFilesGo`,
  `EveryIdAccounted`. The four invariants are inductive together with
  `EmptyHanded`: a thread holds ids only from taking them to pushing the job, and
  `VideoHasIds`: no job with a video has file 0. New
  ids lie beyond the counter, and the counter is never below an id in use, so
  they meet no other; a step that moves the counter past a file's window has,
  in the job it builds, the id that will delete the file. The restart needs that
  a bounded set of ids has a largest one, which rests on the well-foundedness of
  the natural numbers and not on induction.
- **`UpgradeProofs`**: `OnlyExactInstalled` (`InstallExact`) and
  `CleanTransferSucceeds` (`CleanTransferInstalls`), for every number of packets
  and all contents. The invariant is `UpgradeInv`. Its core is `SumTells`: in a
  transfer whose beginning the process saw, the sum added up is at least that of
  what the host has sent; and if it is no more, nothing came before and nothing
  was repeated but packets of zeros, so that without those the file is exactly
  what was sent and the offset its length. Any other repeated or left-over packet
  makes the sum too large for good, and the test at the last packet then fails.
  `Untold` covers a transfer that goes on after the process died: it is tested
  against the sum 0, which only packets of zeros meet.
  `CleanTells` says that an undisturbed transfer has just the sum of what was
  sent. What the recursive functions compute is proved by induction in a form
  that the provers take: `InductionUpTo` is about a set of numbers instead of a
  predicate and follows from the well-foundedness of the natural numbers
  (`WFMin`); `LoopComputes` derives from it that a loop function exists and
  satisfies its equation, `SumOfConcat` that sums add up over concatenation.

Model-checked only: the liveness properties (`QueueDrains`, `DeadLinkDropped`,
`KeepsSupervising` with its fairness, `PhotosKeepComing`, `ExitEnds`,
`CameraFollows`, `JobsFinish`, `NeverGivesUp`). They rest on fairness and `ENABLED`, which are out of
the prover's reach.

## 6. Findings

1. **A live connection marked OFF** (`process.cpp:2786-2788`).
   `tcp_socket_close` closes the socket and then sets the status. The receive
   thread may notice, reconnect and set the status ON in between; it is then
   overwritten. Nothing is sent and no heartbeat is checked until the host
   closes the connection.
2. **A headway BEGIN without END** (`process.cpp:1949`, `1973`). A frame that
   leaves red and carries a lane departure or collision refused for speed is
   left by `goto out` before the END is looked at; the next frame sees no change.
   A comment promises the opposite.
3. **All parameters zero after a crash** (`para.cpp:646`). A crash between the
   truncation of the parameter file and its content leaves a short file, which
   the next start reports and does not repair.

Other behaviour that a reader should know of, which the models contain and the
properties are stated around:

- an acknowledgement that comes after the last timeout of its message stays in
  `recv_ack` and ends the wait for the next one, which then counts as
  acknowledged (`process.cpp:1768-1776`);
- when the host closes the connection the status stays ON until the next one
  (`net.cpp:306`): what is popped meanwhile is transmitted into nothing;
- the message in the send thread's hand is not cleared with the queue, and goes
  out on the new connection;
- `tcp_snd` waits in `write()` for as long as the host does not read
  (`net.cpp:236`): with a host that keeps beating nothing closes the connection,
  the queue fills and refuses what is pushed, and after SIGINT main waits in
  `pthread_join` for the send thread (`wsi.cpp:1272`);
- the limit passed to `unescaple_msg` is `SLIP_DATA_BUF_SIZE`, 131200
  (`process.cpp:2767`), and the buffer `rcvData` has `DATA_BUF_SIZE`, 65536
  (`process.cpp:2840`): a frame longer than the buffer is stored beyond its end.
  `OutsideOnlyAfterLongRun` says that nothing shorter than the buffer leads there;
- a mark in mid-frame restarts the frame with an escape still pending
  (`process.cpp:2936`);
- `write_file` ignores the result of `fclose`: with a full disk the host is told
  that parameters were stored which were not (`rb_rw.cpp:86`); `AckedSurvives`
  and `RangeKept` exclude this case;
- the DMS build checks no range (`para.cpp:66`);
- a media transfer whose packet the full queue refuses, or whose file cannot be
  read, stays "waiting" and refuses every request until a message times out or
  the connection is made again (`process.cpp:2168`); the size of a file is taken
  while it may still be written (`process.cpp:2159`);
- a snapshot with `photo_num` 0 (the host may set it in the DMS build, and finding
  3 leaves it) writes the file of id 0: the next one replaces it, and
  `clear_old_media_file`, whose loops run to `photo_num`, never deletes it
  (`process.cpp:1172`);
- at `MESSAGE_INDEX_MIN` the `WRITEABLE` callback counts and asks for no other
  (`wsi.cpp:770`): the subscribing goes on only because the library calls it
  unasked;
- `dms_alert_last` survives a broken websocket connection: an alert that ended and
  rose again meanwhile is not reported (`process.cpp:1537`);
- a mileage that goes back is a huge unsigned distance, and takes one photo
  (`process.cpp:3020`);
- the answer to RUN of an upgrade is queued, and the process exits at once
  (`process.cpp:2567`);
- the answer to a factory reset is queued before the reset (`process.cpp:2690`);
- `sum_new` and `offset` are reset by nothing but the end of the process: a
  second transfer in one process cannot succeed; a short write moves the offset
  by less than the packet while the sum still fits, and `InstallExact` excludes it;
- a packet of zeros that is repeated, or left from an abandoned transfer, leaves
  the sum as it is and moves the offset, in which `packet_index` has no part
  (`process.cpp:2614-2616`): the sum test passes and the damaged file is installed.
  `InstallExact` excludes it by name;
- `filter_alert_by_speed` compares with the ADAS parameter also in the DMS build,
  where it stays 0.

## 7. Not modelled

- **Serial numbers** (`process.cpp:656-683`): after the wrap from 0xFF to 0 an
  acknowledgement of message 0xFF lifts the counter again, and two messages in
  a row carry the same number. Nothing on the device reads the number of an
  acknowledgement, so no property of the device depends on it.
- **CAN 760** beyond the speed: the last frame is stored behind a lock and read
  for reports only.
- **The RS232 build** (`uart.cpp`): reads and writes of a device file. It feeds the
  same parser, and the noise of `FrameParser` stands for the line's.
- **Configuration**: `prot.json` is parsed once at start.
- **Contents**: the fields of reports, the checksum, the message pack format,
  formatting of names and logs.
- **Camera and encoders**: ring buffers, JPEG and mp4 writers belong to a library;
  a write succeeds or fails.
- **Freed buffers**: a receive thread that leaves frees what the send thread may
  still use (`handle_distroy`, `process.cpp:2899`), which is undefined.
- **Build and packaging**: scripts.
