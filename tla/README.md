# A verification project for the GPR mini server

The GPR mini server runs on a Raspberry Pi inside a ground-penetrating radar.
An app on a tablet connects over Wi-Fi, sets a recording up, and pushes the cart;
a wheel encoder triggers a pulse of the radar chip every few millimetres, and
each pulse becomes a row of 640 bytes in a file and in the app's picture.  This
directory holds TLA+ modules of that program, TLC configurations that check them
on small instances, and proofs that the TLA+ proof system checks for all of them.

`PROJECT.json` is the index: components, runs, the mutants each property is
tried against, the lines of code each definition stands for, hazards, theorems.

## 1. The system

### Threads and what they share

| thread | where it runs | what it does |
|---|---|---|
| main | `main.c:16-104` | opens the server socket, accepts one client at a time, reads bytes, parses them into events, handles each event to its end |
| interrupt | `encoder.c:18-42`, started by wiringPi | on an edge of the wheel encoder: captures a pulse over SPI, writes a row, notifies the app; or takes a row back |
| battery | `encoder.c:95-149` | every 5 s: reads the gauge over I2C, writes a buffer that nobody has filled to the Arduino |
| file sending | `gpr_socket_ana.c:154-209`, one per ANA event, detached | reads a recording and sends it in frames; can be cancelled |
| USB copy | `gpr_socket_ana.c:99-151`, one per ANA event, detached | mounts a drive, copies, unmounts, answers |

Beside the process there are the app, the kernel (TCP, keepalive), and an Arduino
that reads lines from the serial port and drives LEDs and the power switch.

There is no lock in the program.  `acqCon` (the recording), `client_socket`,
`NVAParam` and the SPI bus, and the serial port are shared between threads as
they are.  Within a thread everything is sequential: wiringPi calls
`encoder_interrupt` again only after it has returned, and the main thread handles
one event at a time.

### Components

| component | state | operations | what makes it correct |
|---|---|---|---|
| frame parser (`gpr_socket_data.c`, `socket_write`) | `tcpData`: index, length, checkSum, data_buffer | `convertEvent` per byte, `socket_write` | every event sent arrives once, unaltered, in order; one buffer per frame, freed once; nothing is stored past the buffer |
| recorder (`gpr_socket_acq.c`, `encoder.c`) | `acqCon`: runAcq, fp, dataCnt, dataSize3D; the file's offset | `startAcq`, `endFileWrite`, `stopAcq`, ACQ_REFRESH, `frontRowData`, `backRowData` | a recording that is over has no file and (almost) no more rows; 3D files have at most their target's rows; the count covers the file |
| recording store (`gpr_socket_acq.c`, `gpr_socket_ana.c`, `dir_control.c`) | files and folders under the data root, `savePath`, `fileName`, descriptors | `makeSavePath`, start, save, cancel, refresh, abnormal quit, list, delete | what was acknowledged as saved stays until the user removes it, from when it has reached the card |
| session (`main.c`, `gpr_socket.c`) | sockets, `server_restart`, laser and encoder power, LED lines | the two loops of `main`, `socket_ready`, `socket_client_accept`, `socket_close` | nothing stays on between clients; a vanished client does not hold the only slot; a Wi-Fi change takes effect; LEDs follow |
| Arduino (`arduino_code.c`) | LEDs, boot timer, bar of lights | `loop`, the timer's interrupt | shows what the server told last; a started server is not shown as starting or failed; a greater number lights no less of the bar |
| battery thread (`encoder.c`) | gauge, last percentage | `setBatteryGauge` and its thread | a percentage that rises with the voltage (that it reaches the Arduino is what the comments say and the code does not do) |
| file sending (`gpr_socket_ana.c`) | `file_thread`, an open FILE, the socket | start, send, cancel, cleanup | the code that ends a load comes after all of it; a cancelled one sends no more |
| USB copy (`usb_control.c`, `gpr_socket_ana.c`) | the mount, the copy | mount, copy, unmount, cancel | no unmount under a copy; every request is answered |
| pulse chip (`NVA_SPI.c`, `NVA_CON.c`) | registers of the radar chip, `NVAParam`, a shared buffer | initialisation, capture, a spike filter | a row is sampled in one sweep with the settings in force; measurements put back what they moved |
| timing measurement (`GPR_TimingMeasurement.c`) | sampler registers | four searches for a delay, their average, an adjustment | the first steady edge is found, the search ends, the adjustment is the excess measured |
| chip settings (`NVA_file.c`) | a settings file, `NVAParam` | load, change, save | a start after any stop finds usable settings |
| Wi-Fi selector (`wifi_selector.c`) | `hostapd.conf` | scan, choose, restart | the chosen channel is used after the restart |
| encoder queue (`encoder_queue.h`) | a ring of edges | put, get | none: nothing calls it (the README of the program says it was given up) |
| parameters (`gpr_param.c`), cJSON, log, build files | - | - | data, third-party code, build rules |

### How they interact

* Bytes of the app go through `convertEvent`; a complete frame with a right sum
  goes to `socket_read`, a switch over the event code that runs in the main
  thread and answers with `socket_write`.
* ACQ events change `acqCon`; the interrupt thread reads and writes the same
  structure and calls `socket_write` on the same socket.
* ANA events list and delete recordings on the main thread, and start the
  threads that send and copy them.
* When the client goes, `socket_close` calls `stopAcq` and `acqOff`, and nothing
  else: `tcpData`, `savePath`, a sending thread, a copy live on.
* `main`, and the battery thread, write lines to the Arduino's serial port.

### What is hard

* **Interleaving.**  `fp` is tested and then used while the main thread closes it;
  `dataCnt++` races with `dataCnt = 0`; a refresh swaps the file under a running
  interrupt.
* **Sessions cut anywhere.**  A connection may end inside a frame, inside a
  recording, before an acknowledgement; with or without the kernel noticing.
* **State that outlives its session.**  The parser, the save path, descriptors.
* **Long sequences.**  Which file an event works on depends on every earlier
  event, listing and restart.
* **Partial failure.**  `fopen` fails, `fwrite` is cut short, descriptors run out.
* **What the other side cannot know.**  A copy tells its end before its cleanup; the
  code that ends a file does not say whose it is; ACQ_SAVE_NTF comes before the card
  has the header.

The list with lines is `hazards` in `PROJECT.json`.

## 2. The plan

1. `FrameParser` - the bytes of the link *(done, proved)*, and `FrameChannel`, what
   it promises *(done; the refinement proved)*
2. `Recorder` - the two threads of a recording *(done, proved)*
3. `RecordingStore` - the files *(done, proved)*
4. `Session` - the main loop, the laser, the LEDs *(done; safety proved)*
5. `UsbCopy` - mount and unmount of overlapping copies, cancellation *(done; safety
   proved)*
6. `FileSend` - sending threads, their shared handle, cancellation, cleanup, over
   sessions *(done; safety proved)*
7. `PulseChip` - SPI transfers of two threads over one chip *(done; safety proved)*
8. `TimingSearch`, `ChipSettings`, `DirTree`, `PulseRow`, `BatteryBar`, `BootBar`,
   `ChannelScan` - what shares nothing, checked side by side in `MCParts` *(done;
   safety proved)*

Every safety property that a run checks is proved (section 6); what stays with TLC
is the liveness.

Composition.  `Session`, `RecordingStore` and `Recorder` look at the same events
at three grains: which events reach the recording (`Session`), what an event does
to the files (`RecordingStore`, an event is one step), what its statements do
between those of the interrupt thread (`Recorder`).  `FrameParser` is what lets
all of them speak of events.
`FileSend` takes sessions, threads and frames together.  `PulseChip` is what lies
between `Edge` and `WriteRow` of `Recorder`: the row that is written there as a unit.
It leaves what a search finds open, and `TimingSearch` is that search, with nobody
else in the chip; `ChipSettings` is the file between two runs of the program.

## 3. What is modelled

### FrameParser

`ConvertByte(b)` is one iteration of the loop of `convertEvent`
(`gpr_socket_data.c:35-93`), a disjunct per branch.  `tcpData` is the global of
the same name; `live` counts the buffers that `calloc` gave and `free` has not
taken back.  The app is `socket_write`'s framing seen from the other side
(`FrameByte`), because the app uses the same one.  TCP keeps order, so emitting
and parsing a byte is one step, and how `read` cuts the stream cannot matter: all
state between two calls is in `tcpData`.  A session may end after any byte.
The sum is kept modulo 256, the only part of it that is looked at.

Properties: `SyncedDelivery`, `HeapBalance`, `BufferFits`.  *Synced* is a fact of
history: at some moment of this session both ends were at rest.  It holds from
the start of a session unless the last one was cut inside a frame, which is what
`EveryFrameHandled` (violated, a finding) is about.

`FrameChannel` is the same link without bytes: a session is reliable or not yet, an
event is sent, and delivered or lost.  `ImplementsChannel` is the refinement:
`up` is `connected`, `outgoing` the event `tx` is in the middle of, `reliable` is
`synced`, `delivered` is `got`.  It says what `SyncedDelivery` cannot: that an
event is delivered at the moment its last byte arrives and not later, and that a
session which lost events comes to be reliable between two events only, and stays so.

### Recorder

The main thread's statements that touch what the interrupt thread also touches
are steps of their own (`CloseFile`, `NullFile`, `Halt`, `ZeroCount`, `OpenFile`,
`SeekPastHeader`, `SetRunning`), as are the interrupt thread's (`Edge`,
`TestFile`, `WriteRow`, `TellRow`, `Rewind`, `LoadCount`, `StoreCount`, `Notify`,
`ClampCount`).  `fp` is read again at every use.  `dataCnt++` is a load and a
store.  Using a closed FILE is undefined behaviour: `MisuseFile` ends the process
or does nothing.  Offsets are in units of 128 bytes (header 2, row 5), so that an
offset inside the header or inside a row can be told apart.

`fopen` may fail, `fwrite` may be cut short.  `free2D` and `cap` remember, per
file, whether 2D mode was on and the largest target, because the app may change
both while recording.

### RecordingStore

An event is one step (`Event`).  A recording is `<<directory, number>>`; it is `blank`
until ACQ_SAVE puts its header in, then `whole`.  `makeSavePath` looks for the
first number that is not on the disk.  Listing a directory opens every recording
to look at its header, never closes it (`leaked` counts), and removes a recording
that is blank or cannot be read (`dir_control.c:317-344`).

What the program writes it writes to the kernel's memory: `saveAcq` is `fwrite` and
`fclose`, and nothing syncs.  `cardBlank`, `cardWhole` and `cardDirs` are what the
memory card has; the kernel writes a file or a folder back when it likes
(`WriteBack`, `WriteBackDir`), in any order but for a folder that stays while the
card has a file in it.  The program starts over in two ways: the process dies
(`Die`), which leaves the disk as it is, or the power goes (`PowerCut`), which leaves
what the card has.  `saved` is the history that properties speak of: acknowledged by
ACQ_SAVE_NTF, and not since deleted by the user, recorded again in 3D, given up with
its 3D folder, or overtaken by a power cut before it was in `safe`, the saved
recordings that the card has.

`setAcqInfoFromJson` takes any path that the app sends, and so does `InfoPath`.
`Ordered` is an assumption on the app, of two parts.  After HEADER_INFO has changed the
scan mode it sends ACQ_INFO with an empty path before it starts, saves or quits; and
ACQ_INFO names no path but the one that the server told last (ACQ_SAVE_PATH_NTF), in
3D with the name of any line.  Without the first part see *Other behaviours*; without
the second an app may name a recording that it has saved and start it again, which
empties it.

Excluded: ACQ_SAVE and ACQ_ABNORMAL_QUIT before any path was made (the code hands
a NULL path to `getFullPath` and `getDirList`), and numbers beyond `MaxFiles`,
where the event is not enabled.

### Session

`mpc` is the statement of `main` and of the socket functions it calls.  A
connection is `up`, `fin` (closed by the app), `lost` (gone without a word) or
`dead` (reset, or given up by the kernel).  `read` ends on `fin` and `dead`, never
on `lost`.  `socket_write` on a dead connection raises SIGPIPE, whose default
action is kept: `WriteKills`.  The interrupt and the battery thread run beside
it.  The Arduino handles a line at a time and looks for its words anywhere in it;
text of the battery thread has none of its words.  `ServerDone` and the Wi-Fi
command are one step: what matters is that they end and that an old connection
may linger on the port, where `bind` without SO_REUSEADDR fails (`Ready`).

### UsbCopy

Three parties use one mount point: the main thread, which mounts and unmounts for
ANA_USB_INFO (`InfoBegin`, `InfoUnmount`, `InfoFind`) and starts and cancels copies
(`Copy`, `Cancel`); a thread per copy (`Mount`, `Open`, `OpenFails`, `Write`,
`WriteFails`, `Done`, `CleanUp`); and the user, who plugs a drive in and pulls it
out (`Plug`, `Unplug`).  `mounts` is a stack, because Linux mounts over a mount;
`tryUsbUmount` is two steps, an `umount` that a file in use defeats and an
`umount -l` that nothing does.  `dest` is the file system a file was opened on,
which stays its own whatever is mounted later; None is the memory card, where a
copy goes when nothing is mounted.  A drive that is pulled while it is still mounted
gets another name when it comes back, so `known`, the name in `usbData`, may be
stale.

A cancellation is asynchronous (`gpr_socket_ana.c:117-118`): `TakeCancel` happens
anywhere between `sent` and the thread's end.  Where it finds the thread decides what
follows (`Cancelled`): no cleanup handler yet, the handler, the handler waiting
for ever for a lock of malloc or stdio that the thread held (`hung`), or nothing
if it was in the handler already.  `copyFile` has no handler for its descriptors,
so a cancelled write leaves them open (`held`).  `usbThread` names the last copy
only, and the thread is detached: `pthread_cancel` of one that has ended is
undefined and either does nothing or ends the process.

A list that is no JSON is NULL (`parsed`).  The thread mounts the drive, finds nothing
to copy and tells that it is done; `pthread_cleanup_pop(arg)` with NULL does not run the
handler, so it ends with the drive mounted (`Ends`).  `cut` is why copies have ended
without their cleanup: `"cancelled"` or `"unparsed"`.

The app sees what a copy tells, ANA_USB_COPY_DONE_NTF or a refusal, and both come
before the cleanup; nothing tells it that a cleanup has ended.  So nothing keeps a
request from overlapping a copy: `AppAsks` allows it, and `overlapped` remembers it
until all is over and unmounted.  The properties speak of behaviours as far as no
request has overlapped a copy, which is a fact of the behaviour and no assumption on
the app.  What an overlap does is under *Other behaviours*.  `Waits` is a bound of the
run: with it the app asks when every copy has told its end, without it at any time.
No proof uses it.

Left out: folders of a list (`mkdirs` on the drive), the texts of `lsblk` and `df`,
names of copied files on the way, and SIGPIPE, which `Session` has.  A file is
whole or not; its bytes are not modelled.

### FileSend

`Request` and `Cancel` are `threadSendFileData` and `threadSendFileCancel`; a load is
a detached thread (`Enter`, `Open`, `SendSize`, `SendData`, `SendCode`, `CleanUp`), a
statement that others can see per step.  `fileThread` names the last load only.
Cancellation is asynchronous (`gpr_socket_ana.c:170-171`): from the moment it is
pending, `Cancelled` may act anywhere, or the thread may still do the write it is in
(`late` counts it).  What it finds decides what follows: no handler yet, or no more,
and the thread just ends (`cut`); the handler; or a lock of malloc or stdio held and
a handler that waits for it for ever (`hung`).  `fclose` of NULL, a SIGPIPE, and
`pthread_cancel` of a thread that has ended may end the process (`alive`).  The
file's content is its length; the buffer is 2 bytes instead of 2048 in the run and
any positive number in the proofs.  `BytesOf` is a recursive function: after each
frame of the stream, the bytes of the file that one load has sent.

The app waits for one file at a time (`wanted`) and reads frames in order.  The code
that ends a file is `socket_write(sendInfo->socketCode, "", 0)` and names no load, so
`GotCode` ends the wait at the next code of the stream (`seen`), whichever load sent
it: one that the app cancelled (`gaveUp`) when its code was already on the way, or one
of an earlier session.  After such a code the app may ask for another load while the
one it asked for is still being sent, and nothing cancels that one; `NewerLoadAlone`
says that this is the only way for frames of two loads, neither cancelled, to be mixed.

`OwnFramesOnly` and `CodeIsItsOwn`, what an app could hope for, are not kept.

### PulseChip

Each of the two threads is a program counter over the transfers of `GPR_Capture_raw`
and, for the main thread, of `NVA_KitConncetCheck`, `NVA_TMVInit` and `NVA_VarInit`.
A transfer is atomic: the SPI driver of the kernel takes one message at a time.
The samples of a pulse are the registers they were taken with, or `Mixed`: a register
changed, or a second sweep started, while the chip swept, or the read of a pulse,
which takes several transfers, had one of the other thread in between.  `readData`
is the one buffer that both threads fill.  `adjust` may be anything in
`Adjusts`, and a search may leave a register at any delay in `Searched`, the coarse one
at those that a byte does not hold too (`SampleDelayCoarseTune` is 351).
A byte register takes the low byte (`Low`); a gain outside 1..7 leaves the gain
alone.  `clash` is history: the main thread was at work during the capture in hand.

`HasGain` is why `AsSet` says nothing of the gain for settings without one.  The
chip keeps its power over a restart of the program (`Left`).

### MCParts

These parts share nothing with each other while they run (on the main thread, or on
the Arduino), so one run checks them side by side: a behaviour belongs to one of them.

* `TimingSearch` - `GPR_FindLevel` and `GPR_FindEdge`, an iteration per `Probe`.  The
  signal at a delay is high, low or unsteady, with all noise that a level allows.
  The delay elements are passed by value, so a search never writes the value 1, and
  the search for the fine delay moves the medium register (`Tuned`): both as in the
  code, and `FineTellsMedium` is what comes of the latter.  A search for a level that
  finds none tells a variable without a value (`Garbage`).  `SplitExcess` divides
  floats three times; each quotient that is a whole number may come out just below
  it (`Quotients`), so an excess of 265 ps is 8 elements of 31 ps and, of the 17 ps that
  are left, 10 or 9 elements of 1.7 ps.
* `ChipSettings` - what `NVA_file.c` does to the settings file between the steps at
  which a process may die or a power cut may come.  A file that is not JSON leaves
  what is compiled in; an event without a member crashes (`ModifyIncomplete`).
* `DirTree` - `getDirList` with its recursion as a stack, `deleteDirList` from the end
  of the list, files first.  Trees of up to four folders, in any order of `readdir`.
* `BootBar` - the boot timer of the Arduino as an interrupt beside its `loop`.
* `PulseRow`, `BatteryBar`, `ChannelScan` - functions: the filter over a pulse, the
  gauge of a voltage, the bar of a number, the list of channels.  A behaviour has one
  input of `Readings`, `Voltages`, `Gauges` or `Networks`, which `MCParts` leaves open and
  `MCParts.cfg` fills.  The gauge and the bar are checked each on its own: in the program
  no gauge gets to the bar.
  `Scanned` is what `iw wlan0 scan` prints, line by line, and `WifiInfoList` what
  `getWifiInfoList` knows after each line.  Channel 0 stands for none, and a
  network is heard with less than 0 dBm (`NetworksAssumption`): the code takes 0
  for a channel without a network.

## 4. Runs

| run | bounds | result |
|---|---|---|
| `frames` | 3 events (one byte; start byte, zeros and 0xFF; 257 bytes, so that the high length byte counts), 2 frames per session, 2 sessions | 429 602 states; `TypeOK`, `SyncedDelivery`, `HeapBalance`, `BufferFits` and the refinement `ImplementsChannel` hold |
| `frames_lost` | the two short events | `EveryFrameHandled` is violated in 12 states: a session cut inside a frame costs the next one its first frames |
| `recorder` | files of 2 rows, targets 1 and 2, writes cut after 3 units, `fopen` may fail, ACQ_START may come twice | 8 376 989 states; `TypeOK`, `StopLag`, `ClosedWhenHalted`, `GridLimit`, `CountCoversFile` hold |
| `recorder_use_after_close` | the same without failing `fopen` and double start | `NoUseAfterClose` is violated in 13 states: TestFile, then CloseFile, then WriteRow's `fwrite` |
| `store` | 2 numbers, 1 folder of 2 lines, 4 descriptors, ordered app, until a listing has run out of descriptors | 1 404 432 states; `TypeOK`, `SavedKept`, `TargetNotSaved` hold |
| `store_listing` | 2 numbers, 3 descriptors | `ListingRemovesBlank` is violated in 6 states: a listing without descriptors takes saved recordings for blank |
| `session` | 3 serial lines, 1 unread event | 228 850 states; `TypeOK`, `OffBetweenClients`, `LedsFollow`, and the liveness of `LostClientEnds`, `RestartTakesEffect` hold |
| `session_gone` | 2 serial lines | `GoneMeansOff` is violated: an answer to a reset connection ends the process with the laser on |
| `usb` | 1 file, 2 copies at a time, 2 names of the drive, an app that asks when every copy has told its end | 658 359 states; `TypeOK`, `DoneMeansOnDrive`, `NothingOnCard`, `UnmountedAtRest` and the liveness `CopyEnds` hold |
| `chip` | a good setting and one with a gain the chip has not and a medium delay of 250, no adjust and one that takes that delay over its byte, searches that leave 3 or 300, 2 measurements instead of 10 | 710 826 states; `TypeOK`, `RowAsSet`, `SettingsApplied` and the liveness `ModifyEnds` hold |
| `load` | 3 loads, 2 of them at once, 2 sessions, a file of one buffer and a half, and none | 799 110 states; `CodeMeansAll`, `NewerLoadAlone`, `ReleasedOnce` and the liveness `LoadEnds` hold |
| `parts` | registers of 5 and 3 delays with every signal; 2 choices of settings; 4 folders and a file; pulses of 6 readings of 6 values; all voltages from 11 000 to 24 700; all numbers from -1 to 101; up to 3 networks | 308 616 states; `CoarseEdgeFirst`, `FineTellsMedium`, `AdjustmentCloses`, `SettingsKept`, `FilesGoneFoldersLeft`, `SpikesCut`, `LightsTell`, `ScanTold` and the liveness `MeasureEnds` hold |

**Why the bounds are enough.** In `frames` two sessions reach every way a cut
session can leave `tcpData` for the next, including a stale length read from two
bytes of payload; two frames in a session reach the return to rest and what follows
it.  In `recorder` a row can be in hand while another is in the file, a target can
be met and exceeded, and a step back can follow zero, one and two rows; a third row
repeats the same steps.  In `store` two numbers give a saved file and the next free
number, in progress or not;
one folder is created and given up; four descriptors last for one listing and run out
at the next, where `MCRecordingStore` stops following: the properties say nothing from
there on.  Each of the recordings may be on the card, in an older state, or not there.
In `session` three lines fill the serial
port while main waits to write; one unread event is enough for the order of a last
event and the end of the connection.  In `usb` two slots give a copy and the one
started after it, with a cancelled one between, or with the cleanup of the first still
to come; two names give a drive that comes
back while its old name is still mounted; one file is one that is copied, reported or
neither yet, and lists are of none or one, or no JSON.  An app that waits for nothing
(`Waits = FALSE`) has 5.5 million states, and was checked for safety while the module was
written.
In `chip` a second measurement is one that starts from registers
a search has moved; more repeat it.  In `load` three loads are one whose code is
stale, the one that the app waits for when it reads that code, and the one it asks for then; two of them are
at work at once (`FewSend`), and the third is asked for in the first session and
followed until it has begun to send (`LastBegins`).  That is where `NewerLoadAlone` needs
its last case: without it TLC finds a violation in this run.  A code that comes from an
earlier session makes the same confusion and is left to the proof.  What leaves these
bounds is not followed, so `LoadEnds` speaks of behaviours that stay in them.  The second session
is the one a thread may outlive the first into; 3 bytes make a full buffer and a rest,
and no file is one that cannot be opened.
In `parts` five delays leave room for a
level, an unsteady stretch and an edge, and for none of them; four folders nest to a
depth at which a folder holds a folder that holds one; six readings give both ends,
place 1 and neighbours inside; three networks share a channel, or two do in either
order.  The reference of 2470 ps makes the excess reach 265 ps, where the fine division
comes out exactly and may round down.  What is proved (section 6) holds without any of these bounds.

**Deadlock.**  `frames` stops after the last session, `recorder`, `session`
and `usb` when the process has died, `load` when all loads are over, `parts` when its
part is; they switch the check off.  The two `store` configurations and `chip` keep it.

**Fairness.** `Session`, `UsbCopy`, `PulseChip`, `FileSend` and `MCParts` state
some.  In `Session`, `WF(Main)`: the main thread is a normal thread that blocks only
in `accept`, `read` and a full serial port, which its guards express.
`WF(ReadLine)`: the Arduino's `loop` runs for ever.  `WF(GiveUp)`:
`tcpSetKeepAlive(1, 1, 3, 1)` sets the kernel's timers, which expire.  Nothing is
assumed of the app, the wheel, the battery thread or a lingering connection.  The
battery thread sends once in five seconds and does not take the last place of the
serial port in the model, or it could starve the main thread, which no real line
does.  In `UsbCopy`, `WF(ThreadStep(t))` for each copy: the kernel runs a thread
that can run, and system calls on the drive return.  A cancellation may be delayed
for ever, and nothing is asked of the app or the user.  In `PulseChip`, `WF(Main)`,
`WF(Wheel)` and `WF(SweepEnds)`: both threads run, and a sweep of a chip that has
been started ends.  The wheel is not made to turn.  In `FileSend`, `WF(Thread(l))`:
a thread runs on, because its client reads or the kernel gives the connection up.
In `MCParts`, `WF(Timing)`: the measurement waits for nothing but the chip.

## 5. Findings

In `PROJECT.json` under `findings`, each shown by a run of its own: frames lost
after a cut session; a FILE used after `fclose`; saved recordings removed by a
listing; the laser left on by SIGPIPE.

### Other behaviours

These are stated as definitions, were found violated with TLC while the modules
were written, and have no run of their own.

* `HeaderReserved` (Recorder).  ACQ_REFRESH leaves `runAcq` set.  An edge between
  `fopen` and `fseek` (`gpr_socket_acq.c:163-167`) writes its row at offset 0; the
  header goes over it at ACQ_SAVE.
* `FullMeansFull` (Recorder).  A row is written to the old file, `startAcq` resets
  `dataCnt`, and the interrupt thread's `dataCnt++` then counts that row for the new
  file.  In 3D `isNotFull3DData` stops one row short of the target.
* `StoppedFileMatchesCount` (Recorder).  `backRowData` moves the offset back and does
  not truncate.  If the recording stops there the rows taken back stay in the
  file.
* `QuitSparesSaved` (RecordingStore, with `Ordered = FALSE`).  HEADER_INFO switches
  to 3D while `savePath` still names the 2D folder; ACQ_ABNORMAL_QUIT then hands the
  2D folder to `deleteAcq3DFolder`, which removes every recording in it.
* `OffOutsideScreen` (Session).  No event switches the laser off; an app that has left
  its acquisition screen leaves it on until the connection ends
  (`gpr_socket.c:368-371`).
* `SavedOutlastsPower` (RecordingStore).  `saveAcq` writes the header and closes the file
  (`gpr_socket_acq.c:220-226`), nothing is synced, and ACQ_SAVE_NTF follows: "saving is
  completed with the header", says the comment at `:215`.  A power cut before the kernel
  has written the header back leaves a blank recording, or none; the next listing removes
  a blank one (`dir_control.c:341`).  Start, save, power cut is enough.
* `CompleteWhenTold` (UsbCopy).  A copy answers before its
  cleanup.  An app that asks again on that answer has its next copy mounted, and
  then unmounted by the cleanup of the one before; `copyFile` goes on below the bare
  mount point, on the memory card, and ANA_USB_COPY_DONE_NTF is told.  The code
  gives the app no sign of the end of a cleanup (`gpr_socket_ana.c:144`, `287-292`).
* `CopyUnmounts` (UsbCopy).  A list that is no JSON (`gpr_socket_ana.c:282`) has the drive
  mounted and ANA_USB_COPY_DONE_NTF told; `pthread_cleanup_pop(NULL)` (`:150`) then leaves
  the cleanup out, and the drive stays mounted until the next request, where
  the comment at `:286` says that the copy is complete on the drive only once it is
  unmounted.
* `RowUnmixed` (PulseChip).  NVA_MODIFY during a recording writes registers under the
  sweep of the interrupt thread, and its measurements read the same buffer; the row
  that is recorded then is a mixture (`NVA_CON.c:312-335`).
* `OwnFramesOnly` (FileSend).  A thread that outlives its session sends the rest of its
  file to the next client.
* `CodeIsItsOwn` (FileSend).  The app cancels a load whose code is on its way and asks for
  another; the code it reads next is the first one's, and nothing in it says so
  (`gpr_socket_ana.c:207`).  From there on the app may ask for a third file while the
  second is being sent, and gets the frames of both.
* `ToldAreGone` (DirTree).  A folder is listed after what is in it and the list is
  worked off from its end, so a folder that holds a folder is not empty when its turn
  comes and stays.  The app is told that it is gone, where
  `gpr_socket_ana.c:80` says that it is told what was deleted.
* What `SettingsKept` excepts.  The settings file is emptied by `fopen` and written by
  `fclose`; a death or a power cut between, or a full disk, leaves a file that is no
  JSON, and the next start goes on with what is compiled in.
* What `SpikesCut` excepts.  Of two readings over the limit next to each other the
  first is averaged with the second; place 1 is never looked at
  (`NVA_SPI.c:96-114`).  Readings above 65535 lose their high bits.
* The fine delay.  The search for it steps the medium register, so it tells what the
  search before it told (`FineTellsMedium`), and no search writes the value 1
  (`GPR_TimingMeasurement.c:61-84`).
* The battery.  `readBatterGauge` computes a percentage, above 100 for voltages over
  the greatest, and the battery thread sends a buffer that nobody has filled
  (`encoder.c:112-113`), where the comments at `:95` and `:106` say that the gauge is sent to
  the Arduino.  The app can ask for the gauge (SERVER_INFO); the bar of lights never
  gets it.

## 6. Proofs

Proved with TLAPS, for every value of the constants that satisfies the named
assumptions of the module:

| module | theorem | statement |
|---|---|---|
| `FrameParserProofs` | `TypeCorrect`, `NoBufferLeak`, `DeliveryCorrect`, `StoresFit`, `ChannelImplemented` | `[]TypeOK`, `[]HeapBalance`, `[]SyncedDelivery`, `[]BufferFits`, `ImplementsChannel` |
| `RecorderProofs` | `TypeCorrect`, `LagBounded`, `FileForgotten`, `RowsCounted`, `GridRespected` | `[]TypeOK`, `[]StopLag`, `[]ClosedWhenHalted`, `[]CountCoversFile`, `[]GridLimit` |
| `RecordingStoreProofs` | `SavedSafe`, `TargetFresh`, `TypeCorrect` | `[]SavedKept`, `[]TargetNotSaved`, `[]TypeOK` |
| `SessionProofs` | `TypeCorrect`, `NothingLeftOn`, `LedsCorrect` | `[]TypeOK`, `[]OffBetweenClients`, `[]LedsFollow` |
| `UsbCopyProofs` | `UsbTypes`, `UsbDoneMeansOnDrive`, `UsbNothingOnCard`, `UsbUnmountedAtRest` | `[]TypeOK`, `[]DoneMeansOnDrive`, `NothingOnCard`, `[]UnmountedAtRest` |
| `PulseChipProofs` | `ChipTypes`, `ChipAsSet`, `ChipRowAsSet` | `[]TypeOK`, `[]SettingsApplied`, `[]RowAsSet` |
| `FileSendProofs` | `LoadTypes`, `LoadCodeMeansAll`, `LoadNewerAlone`, `LoadReleasedOnce` | `[]TypeOK`, `[]CodeMeansAll`, `[]NewerLoadAlone`, `[]ReleasedOnce` |
| `PartsProofs` | `TimingTypesKept`, `TimingCoarseEdge`, `TimingFineIsMedium`, `TimingAdjustmentCloses`, of `TimingSearch!Spec` | `[]TypeOK`, `[]CoarseEdgeFirst`, `[]FineTellsMedium`, `[]AdjustmentCloses` |
| `PartsProofs` | `PartsSettingsKept`, `PartsFilesGone`, `PartsSpikesCut`, `PartsLightsTell`, `PartsScanTold`, of `PartsSpec` | `[]SettingsKept`, `[]FilesGoneFoldersLeft`, `[]SpikesCut`, `[]LightsTell`, `[]ScanTold` |

**FrameParser.**  Assumption: an event has 1 to 65535 bytes.  `SyncedDelivery` is
not inductive: from `got = due` alone a byte in the middle of a frame could go
anywhere.  `Aligned` says that in a synced session the parser's index, length, sum
and stored bytes are those of the app; `AtRest` that nothing is half done between
frames.  With both, the last byte's sum is right by arithmetic modulo 256 and the
event handed over is the one sent.  `ChannelImplemented` rests on the same
strengthening: `SendByteImplements` shows that a byte is a step of the channel only
when it is the last of its event, and `NextImplements` takes the other actions one by
one.

**Recorder.**  Targets are positive, a short write has at most 4 of 5 units.  There is
one strengthening per property: `LagInv` (while halted the interrupt thread either
has its last row in hand or has told it), `FileInv` (where the main thread is
tells what it has done to `fp`), `CountInv` (rows against `dataCnt`, allowing for
the half of a row the interrupt thread has done: this is where the lost update of
`dataCnt` is seen to err on one side only), `GridInv` (a row whose test has passed
has its place, in this file or as the first of the next).

**RecordingStore.**  No bound on files, folders, lines or descriptors; lines are at
most as many as numbers.  `SavedKept` and `TargetNotSaved` carry each other: an
event keeps the saved recordings because its 2D target is not one of them, and a
2D target is not one of them because `makeSavePath` ends on a name that is not on
the disk, where the saved ones are.  `PathType`, `DiskType` and `SavedType` are
needed for the state without a path, and `SafeInv` for a power cut: what is said to have
reached the card is whole there, because a saved recording changes on the disk only when
it is no longer a saved one.  The types also need that a listing takes
at most the descriptors that are left (`OpenedBounded`, by the finiteness of the
disk).

**Session.** Bounds are positive.  `OffInv` says where between `socket_close` and
the next `accept` each switch is already off; `LedInv` says what the LEDs *will*
show when the lines on their way are read (`WillShow`: the last word on the line
decides), for a serial port of any length.

**UsbCopy.**  Any files, names, number of copies, and any app: no hypothesis but the
named assumptions on constants.  The properties speak of behaviours as far as
`overlapped` is false, and so does the invariant: `~overlapped => Calm`.  The first
conjunct of `Calm` is `AloneInv`, that at most one copy is not over and
that the main thread does nothing about the drive meanwhile, and the others
lean on that: `MountInv` (at most one mount, and it is there where a copy counts on
it, and gone where the main thread does), `HeldInv` (a descriptor left open by a
cancellation belongs to a cleanup that cannot be cancelled again, so a plain
`umount` is defeated only where `umount -l` follows), `RestInv` (a cleanup is at
hand for what is mounted, unless one was cut off or left out) and `ListInv` (each file of
a list is on the drive, reported, in hand or to come).  Where a request finds all
over, unmounted and no descriptor held, `overlapped` becomes false again, and there
`Calm` holds whatever has gone before.  `TypeOK` is not
inductive: that `file` is a file while it is written has to be carried.

**PulseChip.**  Any settings, adjustments, registers a search may leave, and number
of measurements.  `SetInv` says which groups of registers are as asked after each
step of the writing; a capture without a clash is followed from registers to
counters, to the output, to `readData` (`CaptureInv`), which needs that the main
thread is at rest meanwhile (`ClashInv`) and that a sweep has someone who waits for it
(`SweepInv`).  `TypeOK` is not inductive: `step` is 1 outside of the writing, and a
measurement has a round left.

**FileSend.**  Any number of loads and sessions, any lengths, any buffer size.
`CodeMeansAll` speaks of a recursive function over a stream that grows.  That the
function exists, and goes on as it did before, is carried along the behaviour as a
part of the invariant (`SumInv`): appending a frame extends it by one value
(`Summed`).  `WholeInv` says what the client has got of each load by where the
load's thread is, which with the division of the length into buffers gives the
sum at the code.  `NewerLoadAlone` is proved through what holds when a frame is sent: then every older
load of its session had been cancelled, or was over, or the client had got a stale code
(`OlderInv`).  That rests on what the app can know: a load that it no longer waits for was
cancelled, or its own code was read, or a stale one (`WaitInv`); a load that was cancelled
ends or had sent all it had to (`GaveUpInv`); a code is the last frame of its load and the
only one (`CodeInv`, `CodeOnce`), so that a code that is not stale tells that its load
is over.  The app is not taken to tell codes apart.
`ReleasedInv` ties what was given back to the statement of the cleanup handler.  The
proof of the types showed a bound that was too tight for a file of no bytes; the
bound of `TypeOK` now holds of any buffer size.

**MCParts.**  Two things hold the parts' proofs together.  Nothing but its own part
changes a part's variables, so each invariant is proved of the part's own steps
and lifted.  And where a part works through data of any size, the induction is made
from the least element of a set of numbers (`LeastOf`, from the well-foundedness of
`<` on the naturals): of the numbers at which the claim fails there would be a
least one.  `Recursion` and `BelowIs` use it to show that a recursive function
exists and satisfies its equation.

* Timing, for registers of up to 999 delays (`DelaysAssumption`: `VarSetIntValue` sets
  no value above 999) and any signal.  `NoneYet` is what a search knows of the delays
  it has passed, and `Steady` that a signal that is steadily high or low is known by
  any sample, and that `Samples` of them never take an unsteady one for a steady one.
  The medium and the fine search tell the same because both tell *the* delay before
  the first low one (`OneEdge`), counting that the value 1 is never written and the
  register holds 0 there (`Held`).
* `SettingsKept`: what the next start would make of the file (`Effective`) is among
  the settings acknowledged or asked for, unless the file is harmed; and it is
  harmed wherever it is open.
* `FilesGoneFoldersLeft`: while the listing runs, whatever lies in an open folder or
  in one on the list has been met, is still to be read or is open (`MetInv`), so
  when it is over everything below the target has been met (`AllMet`: the least node
  that was not would lie in one that was).  The list has a folder after what lies in it
  (`OrderInv`).  Then `FilesInv`, `FoldersInv` and `RootInv` say exactly what is gone
  at each place of the two passes; a folder is found empty just when it held no
  folder (`EmptyFolder`), since its files went in the first pass and its folders
  are before it on a list that is worked off from the end.
* `SpikesCut`: where no two spikes are neighbours the filter, a recursive function, has
  a closed form (`SmoothedApart`), of which each claim is arithmetic.
* `AdjustmentCloses`, for sums that the registers can give (`Measurable`): a division
  leaves no more than its divisor, and just that when it came out just below a whole
  number (`Quotient`); so whatever those by 1 ns and by 31 ps leave, the last leaves at most
  17 tenths of a ps, one fine element (`Split`).
* `LightsTell`: by cases over the steps of the gauge, for all voltages (`GaugeIsTold`), and
  over the steps of the bar, for all numbers (`LightsAreTold`).
* `ScanTold`: after each line the numbers and signals known are those of the
  networks printed so far (`Tells`); a network's lines are a signal and a channel in
  this order, so the signal in hand is its own.

**Only model-checked:** `LostClientEnds`, `RestartTakesEffect`, `CopyEnds`,
`ModifyEnds`, `LoadEnds` and `MeasureEnds` (liveness under fairness is out of the
prover's reach, as is ENABLED), and the violations.  No module that is proved about
uses RECURSIVE; what recurses is a recursive function.

## 7. What is not modelled, and why

* cJSON and log: third-party.  JSON is modelled by which fields an event
  changes, and by whether it can be read.
* The encoder queue: nothing calls it.
* The wording of file names.  A name is a number, and makeSavePath's buffers are
  taken to be large enough; in the code `snum[3]` (`gpr_socket_acq.c:78`) has no
  place for the end of `"%03d"`.
* Bytes lost on the Arduino's serial port while its LED strip is being written:
  the line is taken to be reliable.
* A disk that is full at ACQ_SAVE: `saveAcq` does not look at what `fwrite` and
  `fclose` return.  `Recorder` has short writes of rows, `ChipSettings` a full disk;
  `RecordingStore` has none.
* A `socket_write` cut short by a full socket buffer, and frames of several threads
  inside one another for that reason: a frame is written whole.
* Locks of malloc or stdio that a cancelled thread leaves taken: the thread itself is
  modelled (`hung`), the other threads that wait for the same lock are not.
* The analysis settings beside a recording (ANA_SAVE_CONFIG_FILE_FTN,
  ANA_LOAD_CONFIG_FILE_FTN): one read and one write on the main thread, of text that
  the program does not look at.
* The text of `hostapd.conf` and the channel in force: they are read by other programs.
* Start-up that fails: `main` goes on after a failed `wiringPi_ready`, without the
  devices; the models begin after one that succeeded.
* Time.  Timers are fairness or an interrupt; the 5 s of the battery thread are a
  remark.
