# PianoConnect in TLA+

PianoConnect plays two pianos as one: each process sends the MIDI messages of its
keyboards to the other, adds a latency to its own, and plays both streams on its output
devices by a common time it gets from an exchange of clock readings. This directory holds
TLA+ models of it, the TLC configurations that check them on small instances, and proofs
that hold for every value of the constants.

Source lines are given as `pianoconnect.cpp:120`; the files are in `src/src/` and
`src/include/`.

## 1. Inventory

| Part | State | Operations | Talks to |
|---|---|---|---|
| Application (`pianoconnect.cpp`, `.h`, `protocol.h`) | `current_serial`, `received_packets`, `message_queue`, `log_messages`, `mutex`, `config.latency` | `onMessage`, `onPacket`, `onTimer`, the loop of `main()` | called by the devices, the connection and the timer, each on a thread of its own; calls the connection and the output devices |
| Clock synchronisation (same files) | `delta_rs`, `latency_rs`, `delta`, `latency` | ClockSync sent by `main()`, answered and evaluated in `onPacket` | the application reads `delta` and `config.latency` |
| UDP connections (`networking.cpp:31-201`) | socket, `delegate`, `endpoint_client` | `send`, a listen thread | `onPacket` |
| TCP connection (`networking.cpp:203-285`) | socket, `delegate` | `send`: header, then body; a listen thread that takes the stream apart | `onPacket` |
| HMAC wrapper (`networking.cpp:288-332`) | `connection`, `delegate`, `key` | adds a digest, checks it | between application and connection |
| Timer (`timer.cpp`) | `delegate`, `should_stop`, `duration` | a thread that calls every 0.1 ms; `precise_time` | `onTimer` |
| MIDI devices (`midi.cpp`) | RtMidi object, `delegate` | open, callback, `sendMessage` | `onMessage` |
| RtMidi, input (`RtMidi.cpp`, vendored) | `connected_`, `usingCallback`, `userCallback`, `ignoreFlags`, a ring with its `size`, the message being put together; per platform: port and thread id (ALSA), client and endpoint (OS X), device, buffers and a critical section (Windows) | open, close, destructor, callback, `ignoreTypes`, `getMessage`, a handler on a thread of its own | `midi.cpp`; the MIDI service of the system |
| RtMidi, output (same file) | `connected_`, virtual port, the buffer and encoder of ALSA | open, close, `sendMessage` | `midi.cpp`; the MIDI service of the system |
| Configuration (`pianoconnect.cpp:31-95`) | `auto_latency`, `latency`, `duplication`, `log_file`, addresses | `read` | every part, at start |
| Startup (`pianoconnect.cpp:197-326`) | the objects above, as they come to be | constructs and connects them, in an order | threads of earlier objects run while later ones are made |

At run time one process has a callback thread per input device, a receive thread, a timer
thread and `main()`. `message_queue` and `log_messages` are guarded by `mutex`. Nothing
else is: `current_serial`, `delta`, `config.latency` and the connection are shared without
a lock.

**What is hard here.**

* *Interleaving.* Two devices race on `current_serial` (120, 125); two senders interleave
  in a TCP stream (`networking.cpp:269`); the timer reads the clock before it has the lock.
* *The channel.* Messages are sent `duplication` times over a channel that loses, repeats
  and reorders; `received_packets` must tell a late copy from a new message, although the
  counter in its key wraps and is shared.
* *Time.* Two clocks that are not the same, one of which may be set while the window of 40
  samples still holds offsets of before; a latency that changes while messages are queued.
* *MIDI ports.* RtMidi's handler shares its data with the program without a lock while ports
  are closed and opened again, callbacks are taken away and types to ignore change; sysex
  messages come in parts.
* *Startup.* Every callback source is started before its delegate is set, and `delta` is
  zeroed after the threads that use it run.

**What makes each part correct.**

* Application: no message heard twice; none taken for a duplicate that is not one; neither
  piano plays a stroke sooner than the latency granted to it, in true time, up to the error
  of the clocks; everything due is played; the strokes of one device keep their order unless
  the latency drops; the log is what was played.
* Clock synchronisation: the offset is wrong by no more than the latency measured, and
  exact if latency is symmetric; the error of a clock that was set is gone after one window.
* TCP: what comes out is what went in, whole, once, in order, whatever threads send; all of
  it unless the connection fails.
* UDP: a server finds its client, and finds it again when either is restarted; nothing is
  sent to nobody; a process that runs hears.
* Startup: no callback goes through a pointer that is not set, or at least none once
  `setDelegate` was called; no event is lost between opening a port and setting its
  callback; what was measured or scheduled during the start is not lost.
* MIDI ports: `closePort` returns, and after it no handler runs and no callback comes;
  nothing is used after it was freed; messages come out whole, once and in order, from the
  queue too; a send that reports nothing was heard.

PROJECT.json lists every hazard at its line, with the properties that watch it. Many of
them the code does not avoid: there a note says that the property bounds the hazard (says
exactly when it bites, and that nothing else does the same harm) instead of excluding it.

## 2. Plan

In the order of what matters to the player. All of these are done.

1. **PianoConnect** with its abstract specification **Ensemble**: the threads of two peers
   and the channel. Proofs: types, at most once, never early, the log, the refinement, the
   order at home, the time from stroke to sound, and that only duplicates are dropped.
2. **ClockSync**: the exchange and its statistics. Proofs: types, every sample and every
   average is sound.
3. **TcpFraming**: the byte stream. Proofs: types, and for any number of senders what
   takes the stream out of step.
4. **UdpEndpoints**: how the two processes find and lose each other. Proofs: types, where
   datagrams go, what makes a process deaf.
5. **Startup**: the order of construction in `main()` with the callbacks running
   meanwhile. Proofs: types, every danger is over when `setDelegate` was called, none is
   left when the timer runs.
6. **MidiApi** and **MidiInApi**, what the objects of RtMidi have in common, and on them
   **MidiInAlsa**, **MidiInCore** and **MidiInWinMM**, the inputs of the three platforms
   `CMakeLists.txt` builds for (55, 61, 74). Proofs for all three: types, the queue is first
   in, first out, messages come out whole and in order. For ALSA and Windows: nothing goes
   wrong but for the causes named; for ALSA: nothing comes after `closePort`.
7. **MidiOut**: the outputs of the three. Proofs: types, no fault while there is memory, a
   send that reports nothing was heard.

What could follow: `Configuration::read` as a function of the lines of a file; a restart of
a peer as an action of PianoConnect.

## 3. The modules

### PianoConnect and Ensemble

State: one function per field of the application object, indexed by peer (`serial`,
`delta`, `latency` for `config.latency`, `received`, `queue`, `logq`, `copied`, `logged`),
the local variables of `onMessage` per device (`packet`, `loaded`, `due`), the program
counters `ipc` and `tpc`, and `net`, the datagrams in flight. `played` records what the
output devices were sent, `struckAt` and `granted` when a key was struck and the latency its
callback added; no guard reads these three.

| Code | Actions |
|---|---|
| `onMessage` 111-135 | `MidiStamp` (clock), `MidiSerial` (reads the counter), `MidiSend` (sends; the increment loads), `MidiBump` (stores it; latency is added), `MidiPush` |
| `onPacket` 141-152 | `AcceptMidi`, `DropMidi` |
| `onPacket` 163-176 | `Resync`: leaves any value within `EstErr` of the true offset in `delta`, and with automatic latency any of `LatencyEst` in `config.latency`. How the values come about is ClockSync |
| `onTimer` 180-195 | `TimerWake` (T), `TimerLock`, `PlayTop`, `TimerUnlock` |
| loop of `main()` 340-358 | `LogCopy` (one critical section), `LogWrite` (one line) |
| the channel | a datagram taken may stay in `net` (a repeat), `Lose`; `net` is a set, so order is free |

An action is what a thread does between two points where another thread can interfere.
The timer holds the mutex from `TimerLock` to `TimerUnlock`; the other critical sections
are single actions with `MutexFree` as guard. `message_queue` is a set whose elements
carry the number of their push, because two entries may be equal in the code; `IsTop`
leaves the choice among equal times open, as `std::priority_queue` does. Strokes are
model values `<<device, k>>`; an oversized message changes nothing and is not an action.
Reads and writes of `delta`, `config.latency` and `current_serial` are atomic, as aligned
words are on the machines the program is built for. The serial is an `unsigned int`
(`SerialMod`), and uninitialised in the code (`SerialInit` is the set of what it may hold).

Ensemble is the promise without threads: a stroke is made, and each piano may render it
once. PianoConnect implements it with `struck` the events the devices reported and `heard`
the messages of `played`.

### ClockSync

One direction of the exchange: `SendClockSync` (328-335), `AnswerClockSync` (153-162),
`HandleAck` (163-176), with `Feed` and `Average` of RunningStatistics
(`pianoconnect.h:56-79`). A packet that was sent stays in `asked` or `answered`, so it can
come late, again, out of order or never. `SetClock` sets one of the two clocks
(`precise_time` is the local wall-clock time, `timer.cpp:15`). Samples are doubled and
averages are fractions, so that arithmetic is exact; the rounding of the floating-point
`sum` in the code is not modelled. `samples` and the fields `at`, `turned`, `era` are
history: no guard reads them except to bound the number of acks.

### TcpFraming

`WriteHeader` and `WriteBody` are the two writes of `send` (267-271), by any of the threads
of `Thread` at any time: `writing` is the packet whose body a thread has still to write.
`ReadHeader`, `StartBody`, `ReadBody` and `Deliver` are the listen thread (209-232), `Stop` its
end at an error. The thread runs from the constructor on (248, 264); `SetDelegate` is
`pianoconnect.cpp:233` by way of 273-275, and `HandOver` the test of line 225, which drops a
packet that is whole before it (`early` counts them). A byte knows the packet and the place it is from, so a size read from bytes that are
not a header is recognised ("astray"; what the code would do next depends on the bits).
`SplitHeader` says whether `read_some` may return part of a header.

### UdpEndpoints

Two processes and the sockets between them, "udp" with "udp" or "server" with "client"
(`Kind`).

| Code (`networking.cpp`) | Definitions |
|---|---|
| constructors 53-66, 112-125, 171-182 | `FirstPort`, `FirstDest`, `Init` and, for a process started again, `Start` |
| `send` 68-70, 127-130, 184-186 | `Send`; a server without a client drops the packet, so its action has the guard `dest[n] # NoPort`; a socket without a port gets one |
| `send_to` that throws | `SendThrows` in `main()` (`app_pianoconnect.cpp:10` ends the process) or a callback; in the listen thread the branch of `Receive` that ends it |
| listen threads 37-50, 94-109, 155-168 | `Receive` (with `Heard`: lines 100-101); `receive_from` that throws, which `catch(...)` (46, 105, 164) takes for the end: `ReceiveThrows` (no port yet, or no network) and `Refused` |
| outside | `Quit`, `Lose`, `Outage`, `Repair` |

Of what a packet carries only one thing is kept: a clock request makes the listen thread
send. The assignment of `endpoint_client` and its flag is one step; for IPv4 the address and
the port share one aligned word, so another thread reads the old or the new endpoint. A
client has another port in each run, as the system chooses. Whether `receive_from` on a
socket without a port waits (Linux) or fails (WinSock) is `UnboundFails`; whether it fails on
a socket with one, after a datagram came to a port nobody has (WinSock's connection reset), is
`ResetFails`. `Refused` takes the arrival at that port and the failing call as one step.

### Startup

One process, `main()` as a program counter, and the three kinds of threads it starts.

| Code | Actions |
|---|---|
| constructor of the connection | `Connect` (delegate NULL, thread started) |
| `HMAC_Wrapper` 291-296 | `Wrap` (293), `Unwire` (295) |
| `pianoconnect.cpp:233` | `Delegate` |
| `midi.cpp:13-18` | `OpenPort` (15), `SetCallback` (16), `ClearDevice` (17); `SetDevice` is `pianoconnect.cpp:288` |
| `pianoconnect.cpp:293-309` | `OpenOutputs`, `Reset` |
| `timer.cpp:88-94`, `pianoconnect.cpp:313-314` | `StartTimer`, `SetTimer` |
| the loop | `SendClockSync` |
| listen thread, `HMAC_Wrapper::onPacket` | `ReceivePlain`, `ReceiveWrapped` (the test at 314), `ForwardPacket` (the second read at 319) |
| RtMidi's handler, the callback `midi.cpp:35-38` | `Event` |
| timer thread | `Tick` |

A field that no constructor has written holds any value of `Garbage`. A call through such a
pointer, or through NULL, is undefined in C++; the model takes the outcome that ends the
process and notes where in `crash`. Messages are counted, not told apart: what happens to
each is PianoConnect. An "ack" arrives only after a request of this run. An "old ack"
answers a request of an earlier run and may come at any time, where the port is the same in
every run (`fixed`: the "udp" and "server" modes).

### MidiApi and MidiInApi

RtMidi is third-party code that is kept in the tree, changed with it and compiled into the
program. MidiApi is what all its objects share: a program calls functions one at a time
(`Begin`, `Call`, `Continue`), a call of the system may fail (`Fail`; `error()` throws and
the function ends where it is), and the code may do what C++ leaves undefined (`fault`),
where the model stops. A constant, `Programs`, says which functions a program calls.
PianoConnect itself calls only `openPort` or `openVirtualPort`, `setCallback` and
`sendMessage`; the other programs are of the interface RtMidi offers (`RtMidi.h`).

MidiInApi is `class MidiInApi` with the end of each platform's handler, which is the same
text three times.

| Code (`RtMidi.cpp`) | Actions |
|---|---|
| `setCallback`, `cancelCallback` 289-319 | `SetCallback`; `CancelFunction` (316) and `CancelUsing`, two stores another thread sees one at a time |
| `ignoreTypes` | `IgnoreTypes`, then one `IgnoreFlag` for each flag |
| `getMessage` 329-351 | `GetNothing`, `GetMessage`; `queue.size--` (345) is `GetLoad` and `GetStore` |
| end of a handler, 1300-1314 for ALSA | `TestCallback`, `CallUser`; `TestRoom`, `StoreMessage`; `queue.size++` (1310) is `LoadSize` and `StoreSize` |

What a device sends is a stream of chunks: a note is one, a sysex message one or more. With
`Ragged` a device may leave a sysex message unfinished. `raced` and `retyped` record that two
updates of the size overwrote each other, and that the types changed while messages came.

### MidiInAlsa

| Code (`RtMidi.cpp`) | Actions |
|---|---|
| `openPort`, `openVirtualPort` 1468-1636 | `OpenConnected`, `OpenPort`, `OpenFails`, `OpenVirtual`, `OpenVirtualFails`; the thread is made in `StartHandler` or `StartFails` |
| `closePort` 1638-1664, destructor | `Close`, `Trigger` (the byte in the pipe), `CheckThread`, `Join` (reads the id a second time), `Joined`, `Destroy` |
| `alsaMidiHandler` 1132-1318 | `Prepare`, `PrepareFails`, `TestInput`, `Poll`, `Input` or `Overrun` (`snd_seq_event_input` reports an error, 1186-1195: what the buffer lost is gone, the loop goes on), then the common end |

`thread` is the id in `AlsaMidiData`: the handler sets it to the dummy's on its way out. The
dummy is the thread that made the object, and `foreign` says whether the calls come from
another. Taken from the system: `pthread_join` of oneself fails at once, and a joined id
names nothing. For a port opened a second time the address of the receiver was never filled
in (1526), so that client 0 is subscribed; the model records it (`link = "other"`) and
claims nothing of what follows.

### MidiInCore

`Deliver` is a call of `midiInputCallback` (399-547) with a list of packets, `Empty`,
`NextPacket`, `MoreSysex`, `Broken`, `Sysex` and `Short` take one packet or message each.
`MoreSysex` reads `ignoreFlags` once where the code does at 451 and 458. `OpenFails` disposes
of the client of the object as the code does (614-639), after which nothing can be opened; being
connected without a client turned out unreachable. Taken from the system: one callback at
a time, disposing of a port waits for it, a sysex message is alone in its packet.

### MidiInWinMM

`Short`, `Long`, `LongError`, `NoBuffer`, `GiveBack` and `Clear` are `midiInputCallback`
(1943-2040), and `EmptyBuffer` and `LeaveEmpty` its calls with the empty buffers `midiInReset`
hands back, which it does not give to the device again (2009, 2019). `Close`, `Reset`, `Flush`,
`Unprepare` and `UnprepareFails` are `closePort` (2160-2185) in its critical section; `Flush` is
the end of `midiInReset`. That the next callback does not begin before the last returned is
taken from the system; whether `midiInReset` waits for one is not, and `waits` is either.

### MidiOut

One module for the three, `api` says which. `Grow` and `SendAlsa` are ALSA's `sendMessage`
with `bufferSize`, the encoder's room and the buffer's as three numbers; `SendCore` sends to
the virtual port and then to the destination; `SendWin` and `Played` are the two halves of
a send that waits. ALSA's `sendMessage` puts the message into the sequencer's output buffer
(1893, whose failure it reports) and drains that (1899, whose failure it does not look at; the
sequencer is opened not to wait, 1694): `buffered` is what stays there, and a later drain
takes it along. A history records who was to hear each message, who did, and who left
(`left`) while a message was in the buffer.

### MC modules

The MC modules give the function-valued constants and `Programs` their values. An operator whose comment begins "Seeded fault" is an action with one
plausible mistake in it. No specification uses it; it is there to see that the
properties notice.

## 4. The runs

| Run | Configuration | Asks | Distinct states |
|---|---|---|---|
| one_device | MCOneInput | one keyboard, two strokes, sent twice, counter starting at its maximum, synchronisation in between: types, `Bookkeeping` (the inductive invariant) with `AtMostOnce`, `DuplicatesOnly`, `NeverEarly`, `HeardAfterStroke`, and the refinement `ImplementsEnsemble` | 1.3 million |
| local | MCLocal | duplication 0, the latency jumping between 0 and 2 while two strokes are queued, the log copied: `LocalOrder`, `LogExact`, and `HeardAtHome`, `PlayedIsLogged` under fairness | 115 000 |
| clock_sync | MCClockSync | window of 2, four acks, a clock set once: types, `SampleWithinLatency`, `OffsetWithinLatency`, `SymmetricIsExact` | 1.9 million |
| tcp_framing | MCTcpFraming | two threads that send, header and bodies in pieces of any length, the delegate set at any time: `InStepUnlessTorn`, and `Arrives` under fairness | 179 000 |
| udp_server | MCUdpServer | server and client, each started twice, one outage, an unbound socket cannot receive and a bound one fails after a datagram to nobody: types, `Addressed`, `DeafHasCause`, and `Found` under fairness | 48 000 |
| start | MCStartup | two devices, with and without HMAC, with a fixed port or not: types, `SafeOnceTied`, `StrandedAtOpening`, `AstrayOnlyAtStart`, `OnlyOldSyncLost`, `PlayedOnAll`, and `EventuallyPlayed` under fairness | 122 000 |
| alsa_in | MCMidiInAlsa | three programs, called by the thread that made the object or another: `Quiet`, `FaultHasCause`, `Intact`, and `CallReturns` under fairness | 1.7 million |
| core_in | MCMidiInCore | four programs, packets grouped in every way: `QueueExact`, `Intact`, `NotesSwallowed` | 963 000 |
| winmm_in | MCMidiInWinMM | three programs, one buffer: `OneBufferEach`, `FaultHasCause`, and `CallReturns` under fairness | 291 000 |
| midi_out | MCMidiOut | a program that calls everything on each platform: `FaultHasCause`, `SilentIsHeard` | 70 000 |
| serial_race | MCTwoInputs | violates `DuplicatesOnly` | |
| tcp_two_senders | MCTcpTwoSenders | violates `InStep` | |

What the violations show:

* **serial_race.** Two keyboards of one peer struck within one tick of the clock. Both
  callbacks read the same `current_serial`, both messages get the same UniqueIdentifier, and
  the receiver drops the second one. A tick is a microsecond on Linux and MacOS, several
  milliseconds on Windows.
* **tcp_two_senders.** `send` takes no lock and several threads call it: a header may
  follow a header.

More dangers are stated as the exact condition under which they bite, by properties that
hold:

* `InStepUnlessTorn`: `networking.cpp:217` reads the rest of a header over its beginning
  (`split`), and a header may be written before another packet's body (`mixed`, the finding of
  tcp_two_senders). Nothing else takes the listen thread out of step, however many threads
  send. `Arrives` has the same two exceptions, and names the packets that are dropped because
  they are whole before `setDelegate` (225).
* `DeafHasCause`: a listen thread ends at any exception (`networking.cpp:46`) and the process
  runs on, deaf: when it answers a clock request, or receives, while the network is out of
  reach; in a UDP client whose thread receives on a socket that has no port before the first
  send, where that fails; and in any process that sent to a port the other did not have at
  that time, where `receive_from` reports it. On a system where the last two do not happen,
  only an outage does it.
* `SafeOnceTied`: three callbacks may run before their delegate is set. The wrapper clears
  its own after it has asked to be called (`networking.cpp:293`), the timer's is never
  initialised (`timer.cpp:88-94`), a device's is not tested (`midi.cpp:37`). After
  `setDelegate` none of them can go wrong.
* `AstrayOnlyAtStart`: a message of the other process that arrives while devices are still
  being opened is moved by a `delta` nobody has written (308 comes last). Once the timer runs
  none is.
* `StrandedAtOpening`: a message between `openPort` and `setCallback` stays in RtMidi's queue,
  and no other does (`RtMidi.h:264` advises the other order).
* `HeardAfterStroke`: a message that came in before the first ClockSyncAck is scheduled with
  `delta = 0`, that is, by the sender's clock, and may be played early by all the clocks differ
  (`Ahead`). Afterwards only the error of the offset is left. The property speaks of when a
  stroke is played and of one side only: how late it is depends on the channel and on the
  scheduling of the threads, and two peers that added different latencies play apart by the
  difference.
* `OnlyOldSyncLost`: an acknowledgement of an earlier run that comes to the same port before
  `main()` sets `delta` to zero (308) is overwritten. Nothing measured later is.
* `Quiet`, `FaultHasCause` and `CallReturns` of MidiInAlsa: a handler that gets no memory clears
  `doInput` itself and is still on its way out, when the next `openPort` starts a second one
  and the destructor frees what it uses. After a thread that could not be started, or a
  handler that left its id behind, `pthread_join` is given an id that names nothing.
  `cancelCallback` takes the function away before the flag. `closePort` reads the handler's
  id twice and the handler resets it in between (1661): a caller that did not make the object
  then waits for the thread that did (`Misled`). Nothing else goes wrong, and without those
  failures no callback comes after `closePort`.
* `CallReturns` of MidiInWinMM: `closePort` calls `midiInReset` inside the critical section, and
  the callback gives its buffer back inside it too. If `midiInReset` waits for callbacks, a
  sysex message at that moment stops both for good (`Embraced`). If it does not wait,
  `FaultHasCause` names the price: buffers deleted under a callback. The other cause is a
  buffer Windows keeps: `closePort` throws inside the critical section (2172) and the next
  one deletes its buffers again.
* `QueueExact`: the ring loses its place only when `queue.size++` and `queue.size--` overlap. Up
  to then it is a bounded first-in-first-out queue.
* `Intact`: messages come out whole and in order unless the types to ignore change while
  messages come, ALSA's port is closed inside a sysex message or its input buffer runs over
  inside one (1187: the part before is joined with what comes later), CoreMIDI's list has an
  empty packet before others (424), a system call fails, or the device puts something between
  the parts of a sysex message.
* `OneBufferEach`: Windows' callback hands over each buffer as a message. This differs from what
  ALSA and CoreMIDI do and from `RtMidi.h:476-477` ("Each message represents one and only one
  MIDI message."): a sysex message longer than a buffer (1024 bytes, `RtMidi.cpp:1924`) comes in
  parts, each as a message. The last conjunct says that without such a message the header is
  right.
* `NotesSwallowed`: what CoreMIDI's callback swallows as the rest of a sysex message is never
  more than what comes before its end.
* `FaultHasCause` of MidiOut: only ALSA can write past its buffer, and only after an
  allocation failed: `bufferSize` is raised before there is room (1863). A subscription freed
  twice turned out unreachable. `SilentIsHeard` takes `sendMessage` without a connection as
  heard by all there are, that is, nobody: the code says nothing then. With ALSA it says
  nothing either of a drain that fails (1899): the message is then in the output buffer
  until a later one takes it along, or the receiver has left before (`RtMidi.h:404-408`
  promises an exception if an error occurs during output).

**Bounds.** Two peers are all there are. Two strokes are enough for a duplicate, a
reordering and a wrap (`SerialMod` 3, `SerialInit` 2 or 0), and one at each of two devices
for a collision (serial_race); a third meets no state a pair does not. Strokes at both peers
at once, and what a collision leaves intact, are left to the proofs. `MaxNow` 2 with latency 1 or {0, 2} and offsets of 2 puts a message
before, at and after its time at both peers, late ones included. One acknowledgement makes
the step from unsynchronised to synchronised, two let the latency go up and down. In
ClockSync a window of 2 is filled, left and refilled by 4 acks from 2 requests, so requests
answered twice, late and in the wrong order are among them, and the jumps (-5, 4) are
larger than any round trip. In TcpFraming a header of two bytes and a body of three can
be cut everywhere a longer one can, and two threads with five packets between them mix and
have more to send when the listen thread is out of step or the delegate is set. In UdpEndpoints two runs of each process and one outage
give a client that moves, a server that forgets, late datagrams of an earlier run and a
thread that ends. In Startup the second device opens while the first one already delivers,
and two events and three packets meet every step of `main()`; a ring of one fills up and
turns the second away. In the modules of RtMidi four calls (five
for MidiOut) open, close and open again, or open, set and cancel a callback with one call
to spare; two chunks make a message in parts or two messages, three one that is cut by
another; a ring of one or two is full, empty and wraps. No symmetry is
used. Time is bounded, so
PianoConnect never deadlocks only because the timer thread always has a step; the other
specifications stop at their bounds (or with the process) and are run without the deadlock
check.

**Fairness.** `FairSpec` of PianoConnect assumes that the operating system schedules each
thread and that time passes: weak fairness of `Tick`, of the timer's steps and of the steps
of a callback that has begun. `MidiPush` and `LogCopy` need the mutex, which the timer
takes and gives back in every round: strong fairness, that is, a mutex that does not
starve a waiter forever. Nothing is assumed of the channel, the pianist or clock
synchronisation.
`TcpFairSpec` of TcpFraming assumes that a thread in `send` goes on and that TCP delivers;
`Stop` may happen at any time. `FairSpec` of UdpEndpoints assumes that `main()` sends its
clock requests as long as it can (every 0.2 s, `pianoconnect.cpp:329`) and that a request
sent again and again arrives once: weak fairness of `Send(n, "request")`, strong fairness of
`ReceiveFresh`. Restarts and outages are bounded and never assumed. `FairSpec` of Startup
assumes that `main()` goes on and the timer comes round; no event and no datagram is.
`Spec` of MidiInAlsa and MidiInWinMM assumes that a function that was called goes on and so do
the handler and the callback, that is, that the system schedules the threads: weak fairness
of the steps of each. No call, no message and no failure is assumed, and where a thread
waits for another its step is disabled, so that a deadlock is not fair away.

## 5. The proofs

All are for every value of the constants that satisfies the assumptions next to them
(`PeerAssumption`, `ConfigAssumption`, `BoundAssumption`, `ClockSyncAssumption`,
`NodeAssumption`, `StartupAssumption`, `ApiAssumption`, `InAssumption`, `WinAssumption`,
`OutAssumption`): any number of devices, any duplication and serial width, any window, any
jumps, any number of restarts, any programs, failures and message lengths, any ring.
`WinAssumption` has `Buffers` at least one (`RT_SYSEX_BUFFER_COUNT` is 4, `RtMidi.cpp:1925`).

Several of them are inductions over sequences: sums of a window, the bytes of a stream, the
chunks of a message. The library's induction takes the predicate as an operator, which the
provers cannot instantiate; `SetInduction` (proved from the well-foundedness of the naturals)
takes it as a set, which they can.

**PianoConnectProofs**

* `TypeCorrect`: `Spec => []TypeOK`.
* `BookkeepingHolds`, `NothingTwice`: `AtMostOnce` is not inductive. A message could be
  played again if its datagram were in flight and its identifier forgotten, or if the
  callback pushed a stroke already scheduled. `Bookkeeping` adds what excludes this:
  the callback works on the device's last event (`LastEvent`), only events already sent are
  in flight and each as one datagram (`InFlight`), only events already sent are scheduled,
  at home after the callback's push (`SentBefore`), and the identifier of a datagram still in
  flight whose message is scheduled away from home is in `received_packets` (`Known`). One
  lemma per action, with lemmas on `Push` and `PlayTop` they share. Identifiers may
  collide: that loses messages but repeats none.
* `NothingEarly`: `NeverEarly`, from the invariant that T is never ahead of the clock.
* `Refinement`: `Spec => ImplementsEnsemble`. `MidiStamp` is Ensemble's `Strike`, `PlayTop`
  its `Hear`, by `AtMostOnce` and `SentBefore`; every other step stutters.
* `LogComplete`: `LogExact`, by the laws of concatenation.
* `OrderKept`: `LocalOrder`. It speaks of what was played; `Overtaken` adds what still waits:
  if a later stroke was played while an earlier one of its device waits at home, it is due no
  later. `PlayTop` keeps it because it takes an entry that none precedes, a push because the
  callback works on the last stroke of its device (`Bookkeeping`).
* `NeverBeforeStroke`: `HeardAfterStroke`. `Stamped` says that the callback and the datagrams carry
  the time of the stroke by the sender's clock, and that the callback has added the latency it
  says (`granted`); `Measured` that `delta` is 0 before the first acknowledgement and an estimate
  after; `Moved` that an entry is due at the time of its stroke plus its latency, away from home
  less the offset its peer went by. That a new stroke disturbs none of this is `Bookkeeping`:
  nothing in flight or scheduled is it already. An entry that is taken is due by its peer's
  clock (`TakenOnTime`), and what is left is the error of the offset (`ConfigAssumption`).
* `NothingNewDropped`: `DuplicatesOnly` if `OneEach` holds, that is, with one device at each peer
  and no more strokes than serials. From the value the uninitialised counter happened to
  have, each stroke has the next serial (`Numbering`: in the counter, in the callback, in
  the datagrams, and in `received_packets`, whose identifiers all stand for something that was
  scheduled). serial_race shows that the first half of `OneEach` is needed.

**NetworkProofs**, on UdpEndpoints, TcpFraming and ClockSync, which is why the definitions of
the last two have names of their own (`TcpSpec`, `SyncSpec`).

* `UdpTypeCorrect`, with the lemmas that a process's ports are its own.
* `DeafHasItsCause`: `DeafHasCause`. A bound socket keeps its port and the network fails only in an
  outage; and what is refused was sent to a port the other process had or has (`Addressed`), so
  that nobody has it because the other process is gone or has been started again.
* `AlwaysAddressed`: `Addressed` is inductive with the types. What a server remembers is the
  source of a datagram, every datagram comes from a port its sender had, and ports once had
  stay had (`HadStays`).
* `TcpTypeCorrect`, for packets and headers of any size.
* `TcpInStep`: `InStepUnlessTorn`, for any number of threads that send. `Following` says where
  stream and listen thread are as long as no header was cut or mixed: packets are numbered
  as their headers are written and at most the last has its body outstanding (`Numbered`),
  those handed over are whole and follow those dropped before `setDelegate` (`Handed`),
  the stream leads byte by byte (`Linked`) from the one the listen thread waits for to the one
  that is written next (`Aligned`), and what was read of a header or a body is the beginning
  of that one (`Read`).
* `SyncTypeCorrect`, with `FeedTypes` on RunningStatistics.
* `EverySampleSound`: `SampleWithinLatency`, from `InOrder`: an answer carries the readings
  of its request and is neither before the request nor in the future. Delays, losses,
  repetitions and reordering play no part, and symmetry is not needed.
* `OffsetSound` and `SymmetricOffsetExact`: `OffsetWithinLatency` and `SymmetricIsExact`, for a
  window of any size. `Measured` says that `sum` is the sum of the window (`Averages`; `FeedAdds`
  is the lemma on `RunningStatistics::feed`), that both windows end with the same sample, and what
  each value in them tells of the offset between the clocks, as long as none was set since the
  request of its sample (`Windows`). `SumsWithin` carries a bound on each value over to the sums.

**StartupProofs**

* `StartInvariant`: `IInv` joins `TypeOK` with what `main()` has done where it stands: the
  connection calls the wrapper only once that is made (`Wired`), only the device being opened
  can have a callback and no delegate (`Hooked`), the timer runs with the outputs open and
  `delta` written and is tied one step later (`Ticking`), acknowledgements come after `delta = 0` (`Asked`).
* From it `StartTypeCorrect`, `SafeOnceMainHasTied`, `PlainIsAlwaysSafe`, `AllOutputsPlay`, and
  the action properties `OnlyOldSyncIsLost`, `StrandedOnlyAtOpening` and `AstrayOnlyFromStart`.
  `PlainIsAlwaysSafe` says that a connection without HMAC never calls through a bad pointer; it
  is proved and part of `IInv`, and no run lists it.

**MidiInApiProofs** holds what the proofs of the three inputs share: what every function of a
program and every step of a handler's end preserves, and lemmas on the operators.

* `CallbackSafe`: a program that does not cancel its callback has a function whenever the
  flag says so, and when the handler has read the flag.
* `InTypes`: the types of what is shared. `size` may be read by one thread, changed by the other
  and then written, so that it stays within the ring is not inductive by itself: what was
  read to be raised is below the limit, what was read to be lowered is above zero.
* `InRing`, for `QueueExact`: until the two overwrite each other, the messages from the one
  `getMessage` is through with (`Done`) to the one just written stand behind `front`, at positions
  modulo the size of the ring.
* `UnignoredAppend` and `FlattenAppend`: what ignoring and joining make of one more chunk or
  message. Both are functions defined by recursion, `Recursion` shows that there are such
  functions and they are unique.

**MidiInAlsaProofs**

* `ClosedIsQuiet` (`Quiet`) and `FaultsHaveCauses`. Neither is inductive: they need where the
  handler is while a function waits for it. `Tracked`, as long as there is memory, says that
  `doInput` and the id tell: the handler runs with input, or it was told to end and a function
  is waiting for it, with its id if it has got as far as joining. `Named`, as long as there are
  threads too, says that every id means something.
* `AlsaTypeCorrect` and `AlsaQueueExact`, from `Typed` (types, and `InRing`).
* `AlsaMessagesIntact`: `Intact`. `Assembled` says when `continueSysex` is set: inside a message the
  program wants, which then is in `message` from its first part on. `Faithful` adds that what was
  handed over and `message`, one after the other, are the chunks taken that are not ignored.

**MidiInWinMMProofs**

* `FaultsHaveCauses`, from `Orderly`: if `midiInReset` waits and the driver lets go of its
  buffers, they exist while the object is connected, and without a connection no callback
  runs.
* `WinTypeCorrect`, `WinQueueExact` and `WinBuffersInOrder` (`OneBufferEach`), in the same way:
  `message` is empty between two callbacks, those with an empty buffer included, so each part
  is a message (`Singles`).

**MidiInCoreProofs**

* `CoreTypeCorrect` and `CoreQueueExact`, from `Typed`. `InPackets` adds that what is not parsed
  yet (`Unparsed`) is the end of what was taken (`Ends`), that a packet with a sysex chunk has no other,
  and that a packet is begun only outside a sysex message. Each step takes the chunks of one
  packet, or one of them, off the beginning (`Takes`).
* `CoreNotesSwallowed`: `NotesSwallowed` is about a callback that has returned. `Swallows` says it
  of what is parsed (`Parsed`) at any time, and that `continueSysex` is set only where a sysex
  message has begun and not ended (`OpenAt`).
* `CoreMessagesIntact`: `Intact`. `Faithful` says that `continueSysex` is set exactly when the last
  chunk parsed is no last part, and `message` holds something exactly when, besides, sysex
  messages are wanted. Then a packet that begins inside a message (`Broken`) does not come, and
  nothing in one that continues a message (`MoreSysex`) is anything else: the next chunk is a
  first part exactly when `continueSysex` is not set (`NextFirst`).

**MidiOutProofs**

* `OutTypeCorrect`; `FaultsNeedMemory`, from `Roomy` (encoder and buffer have the room
  `bufferSize` says while there is memory) and `Subscribed` (ALSA's connection has its
  subscription); `SilentHeard`, from `Numbered` (a message is new when it is sent) and `Held`
  (what is said of the output buffer between two calls).

**Only model-checked.** All liveness (`HeardAtHome`, `PlayedIsLogged`, `Arrives`, `Found`,
`EventuallyPlayed`, `CallReturns`), which rests on fairness and ENABLED; both are out of the
prover's reach. Every invariant and action property the runs check is stated by a theorem
too, one of them under a hypothesis: `DuplicatesOnly` under `OneEach`. serial_race shows what
happens without it. The type invariants of
TcpFraming and of the three inputs are proved and no run lists them.

## 6. Not modelled

* `Configuration::read`, a sequential parser, and the restart of a peer in PianoConnect (104),
  whose `received_packets` is empty again.
* Of RtMidi: JACK and the dummy, which the build does not compile; names and counts of ports,
  which are queries; `setErrorCallback`, with which functions go on after an error (nobody in
  the program sets one); `closePort` from inside a callback; two sources into one object; on
  Windows, calls from two threads (a critical section its owner may enter again).
  `sendMessage` without a connection is silent, which `RtMidi.h:406` describes as an exception.
* Opening the log in `main()` (317-325) while the timer runs, a torn read of an IPv6
  `endpoint_client`.
* The digest of the HMAC wrapper, the formatting of log and status line, device lists and
  prompts: pure computation or I/O.
* The NTP line of the log, `num_packets` and `num_midi_messages`: written, never used for a
  decision.
* The Windows timer: the system calls `onTimer` instead of a thread, which is `TimerStep`
  as well.
* The end of a process: `main()` loops for ever, and nothing is persisted but the log.
* The growth of `received_packets`: nothing depends on its size.
