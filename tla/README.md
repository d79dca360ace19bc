# monstream in TLA+

monstream shows live video on dedicated monitors.  A server (IRIS) tells it over
UDP which monitors there are and what each of them plays; it answers with a
status, and with the requests an operator makes with a keypad or a joystick.
This directory models its core in TLA+: the grid and its timers, streams,
commands and their buffers, files, connection and control bar.  TLC checks the models on
small instances (`*.cfg`), TLAPS proves every safety property they check for every
value of the constants (`*Proofs.tla`).  `PROJECT.json` maps every definition to
the lines it models and lists runs, mutants, findings, hazards and theorems.

    tlc -config MonGrid_one.cfg MCMonGrid
    tlapm MonGridProofs.tla

## The system

Paths are relative to `src/` of the repository.

| Component | State | Operations | Makes it correct |
|---|---|---|---|
| Monitor grid, `mongrid.c` | `grid`: array of cells, running flag; per cell settings, `started`, `failed` | init, reset, set_mon, play_stream, restart, status, three timer callbacks per cell | no timer touches a freed cell; a stopped cell is started again; title and status agree with the stream |
| Stream, `stream.c` | pipeline and pointers into it, parameters, crop, counters, `last_pts` | start, stop, set parameters and crop, bus watch, sink check, statistics | its elements fit together; it plays what the cell asks for, and its own part of a wall; failures and frozen pictures are noticed |
| Player, `player.c` | `configuring`, four threads | run_player, the command handlers | the grid is what the files say; a configuration is completed |
| Configuration files, `config.c` | files `config`, `sink`, `monitor.N`, `play.N` | load, store | a crash leaves files the next start can use |
| Connection, `cxn.c` | socket, remembered address | bind, connect, disconnect, send, recv | both ends of the connection agree; a dead server is dropped |
| Control bar, `modebar.c` | entry, selected monitor and camera, requests, joystick position | keys, joystick events, status message, display reply | a request goes out when it is its turn and is not repeated; a moving camera is told to stop as long as it is selected; messages name the camera of their monitor |
| Stream descriptions, `sdp.c` | cache files; per play command the description cached and fetched | cache, fetch, parse | address and parameter sets come from one description, the newest that arrived; a restart plays the same if it could be stored |
| Length-counted strings, `nstr.c` | buffers of their callers | append, split, chop, terminate, copy, find | what was sent is what is done; what is still to be read lies in the buffer |
| Log, `elog.c` | the array a command is copied into | elog_cmd | a command that is logged fits (not all do) |
| Lock, entry, `lock.c` `main.c` | none of their own | | |

Threads: the **main thread** runs GTK (timers, bus watches, keys) and rebuilds
the grid between two runs of the GTK loop; the **command thread** receives and
handles commands; the **status thread** sends a status every 1/3 to 2 seconds; the
**joystick thread** reads `/dev/input/js0`.  They share `grid` and the control
bar under `grid.lock`, the connection under `cxn->lock` and the files under a
lock of `config.c`.  What is *not* under a lock is where it gets hard:

- timers keep raw pointers to cells over a reset of the grid;
- `gtk_main_quit`, and the flag `running` that mongrid_restart polls;
- the system calls connect and sendto, between sections under `cxn->lock`;
- `key_press`, which writes the control bar without `grid.lock`;
- the kernel, GStreamer and the network, which answer when they like;
- the process may be killed between truncating a file and writing it, and either
  may fail;
- a play command is handled in six steps, of which one waits for an HTTP server;
- all strings of a packet are places in one buffer, which is written to, and two
  writes may go beyond an array: the copy for the log (`elog_cmd`) and the
  terminator of a rejected command (`nstr_z`).

The hazards this exposes the code to are in `PROJECT.json`, each at its line
with the properties that are meant to catch it.

## Modules

### MonGrid (with GridShape): grid and streams

`mongrid.c` holds `grid.lock` from the first to the last statement of every
handler, and so does the bus watch around its call into the grid, so one
handler is one action.  The array of cells lives at an address in `Addr`,
counted in cells; `MongridInit` may get any free block, also the one just freed
or one that overlaps it.  `timers` is the list of GLib's one-shot timeouts, in
the order they were attached; a due timer never overtakes an older one with the
same or a shorter delay (`MayFire`), which is the only thing GLib promises.
Their callbacks are `FireInvalid` (the cell is not in the array), `DoUpdateTitle`,
`DoStopStream` and `DoRestart`.  A pipeline is what it plays (`pipe`), its bus,
and how its last sample compares with `last_pts` (`sample`).  All messages
that stop a stream (EOS, ERROR, WARNING, udpsrc timeout) are one: FAILURE.

`GridShape` has the arithmetic of get_rows and get_cols.

Bounds: `MaxTimers` and `MaxBus` cap the pending timers and messages.  They hold
back commands and GStreamer, never a callback: `Reserved` keeps room for what
the messages already queued will attach.  Nine timers hold three complete stops
of one cell, so every order of two stops and a stale third happens.

### Wall and MonGridWall: what the grid promises

`Wall` knows no memory, timers or messages: monitors that are asked for a stream,
show it or are dark, and owe a start after a request or a failure.  `MonGridWall`
maps `MonGrid` to it: monitor i is cell i of the array, wherever that is, and a cell
that is not started and was asked for something owes a start.  So only the stream
asked for last is ever started, only when a start is owed, and nothing of an old
grid gets onto a new one.

### Player: restart handshake and files

A step of the model is a section between two points where the other thread or a
crash may come between: a lock section, a system call, a test of the flag.
`monitor` and `play` commands are alike in all that matters here (apply to the
grid unless configuring, then store); a play may apply once more after its
stream description was fetched (`FetchedPlay`).  `Crash` ends the process at any
step and keeps the files, also one that was truncated and not yet written
(`Empty`).  An open that fails leaves the file as it was, a write that fails leaves
it empty; the code logs both and goes on (`StoreFails`, `StoreConfigFails`).  Writes
of a part and read errors are left out.  `configuring`, `running`, `n_cells`
and the files are the code's; `view` is what a cell was last told.  History
variables: `entered` and `overlap` tell whether a command arrived before the GTK
loop ran for the first time, which the code does not keep apart; `unsaved` has the
settings whose last store failed.

### Stream, Crop and SdpPlay: from a play command to a picture

`Crop` is the arithmetic of the crop: which pixels of a picture of a given width
are cut off before and behind part n of m.  `Stream` is one stream: the parameters,
the sequence of elements that `stream_start` builds from them (`Built`: sink,
overlay, crop, decoder, source), the pointers `st->sink` and `st->jitter` into
it, the packet counters, and the box that is set once the pipeline plays.
GStreamer's part is external: what the elements take and give, and that the
jitter buffer counts.  An element whose plug-in is missing is left out, as in
`stream_add`.

`StreamSpec` lets the cell call the operations in any order.  When the pipeline reports
PLAYING, the size is read behind the videobox: the picture's the first time, what
was left of it if the report comes again, or none yet (`StreamMsgPlaying`).

`SdpPlay` EXTENDS `Stream` with one cell (its two timers, `started` and whether it has
an ID), the handler `player_play` and the two files it uses.  The handler's steps are
`RecvPlay` (which reads the cache), `Play`, `OpenPlay`, `WritePlay`, `Fetch`,
`OpenCache`, `WriteCache`, `Replay`; timers, bus and a crash may come between any two.
An open that fails leaves the file as it was, a write that fails leaves it empty, and
the handler goes on (`Fails`; a cache directory that could not be made is an open that
fails).  In config mode `Play` plays nothing but stores and fetches all the same, and
`Replay` does not look again.  `PlayStream` leaves the overlay out when the monitor has
an ID, which `Monitor` may change at any time, also before `play.0` is read back.
A description stands for its address and parameter sets at once, so that mixing two
is visible.  What a server sends is a description, something unusable, or nothing.
Whether a location names a description is decided by `nstr_contains` of `Text` on
its words.  History variables: `got` and `newer` (the description the server sent;
another monitor has renewed the cache since), `failed` (the files the command could not
store), and in Stream `code`, `recrop`, `shown`, `playing`.

### Text, Packets and CommandQueue: buffers

`Text` has the functions of `nstr.c` on places in a buffer: where a string begins,
how much room and how much text it has.  `Packets` uses them as the program does: a
packet is received into the buffer older packets were in, split at record and unit
separators in place, terminated in place for the log, stored whole, and read back
into a smaller buffer; the status of all cells and one message of the control bar
are appended to one buffer.  `CommandQueue` is what this promises, without text: the
commands of a packet are carried out in order and as sent, and come back after a
restart; `CommandsDone` is the refinement.

Two kinds of commands make the process write outside an array: one that is logged and,
with its terminator, longer than the 128 bytes of `elog_cmd`, and a rejected one
without a separator that fills the buffer, for which `nstr_z` writes the byte behind it.
What the process does then depends on what lies there.  `Packets` notes it in
`fault` and goes on as if nothing had been hit, or crashes; every property but the type
invariant promises nothing until the next start, and `CommandQueue` has the step `Lost`,
which allows everything.  The type invariant has no place behind the buffer.

A word or a digit is one character, and the buffers are smaller accordingly:
10 characters for the 1024 bytes of a packet, 8 for the 128 of a file and of the log,
23 for the 256 of a status, 3 for a camera id, 2 for a number.

### Cxn: connection

Two threads and the kernel.  Every lock section and every system call of cxn.c is
a step; the locals of a half-finished call are variables (`src`, `dest`).  Each system
call may fail for a reason of its own (`Failure`).  The
kernel's part is external: a connected UDP socket receives from its peer only,
an ICMP port-unreachable becomes a pending error of a connected socket, which the
next send or receive reports.

### ModeBar: control bar

Keys write without the lock, so '.' (modebar_set_mon) is two steps, `PressDot` and
`ClearCam`; a display reply is two steps (`DisplayMon`, `DisplayCam`).  A status message
is made in four: `Compose` chooses it and copies the monitor, `ReadCam` copies the
camera when the message names one, `ClearRequest` and `Send` follow.  `Locked` keeps the
lock's holders apart, but not the keys.  A request is only present or absent: its text,
which button it was and the sequence number are left out (`Packets` has the
messages).  A camera is named by the monitor whose reply brought it, which is what
CamOfMon needs.  The model starts when the status thread's id has been set.

History variables: `moved` is the selected camera when the last ptz message told it to
move, and None from the moment another is selected; `torn` says that '.' was pressed in
the middle of a reply, and `race` of a message that it was begun then or in the middle of
a '.'.  These are the two races of the keyboard with the other threads, and CamOfMon
excludes them; MovingFollowed needs no such exception.  A camera that was left moving
when the selection changed is told nothing more, and nothing is claimed for it; the
protocol lets held values time out.

## Runs

| Run | Instance | Checks | States |
|---|---|---|---|
| mongrid_one | one cell in two slots, a good and a bad stream, count 17 refused, window, fair main loop | TypeOK, FreedUntouched, RestartArmed, StopArmed, TitleCurrent, AckedMeansOk, StoppedRestarts, StuckSinkStops | 155 000 |
| mongrid_two | one or two cells in three slots, headless | FreedUntouched, RestartArmed, StopArmed, WallKept | 136 000 |
| cxn_two | two servers, failing system calls | TypeOK, AddrIsPeer, RefusedPeerDropped | 178 000 |
| player_files | two monitors, two settings, crashes, failing stores | TypeOK, RebuildUndisturbed, GridMatchesFiles, RebuildReturns | 2 480 000 |
| sdp_stream | alone: seven streams in any order, three crops, missing plug-ins; otherwise: three commands, two descriptions, failing stores, config mode, title bar, crashes | TypeOK, PictureFlows, PointersLive, BoxFits, BoxCovers, CountsAddUp, DescriptionWhole, FetchedPlays, RestartPlaysSame, ConfigModeRefuses | 1 699 000 |
| packets | nine packets, three indices, one or two cells, eight requests, crashes | TypeOK, CommandsDone, StatusTells, RequestSent | 195 000 |
| modebar_keys | two monitors, one axis, fair threads | TypeOK, MovingFollowed, CamOfMon, SwitchSent, Drained | 1 021 000 |

Five more runs are expected to find a violation of what a comment or document of
the repository says:

| Run | Property | What happens |
|---|---|---|
| mongrid_settled | SettledPlays | A restart timer of an older stop fires between a new stop and its stop timer: the stream stays dead while it counts as started. |
| mongrid_failed | FailureKeepsFailed | The second message of one failure clears the failed status. |
| cxn_timeout | TimeoutDisconnects | The receive timeout does not disconnect. |
| player_restart | RestartReturns | gtk_main_quit before gtk_main is lost; the command thread waits for ever. |
| sdp_fetched | SdpFetched | A location that ends in .sdp is not taken for a stream description, since nstr_contains misses a word at the very end. |

Two more things the model shows that a document says otherwise are kept as exceptions of
passing properties.  A play command in config mode is refused (player.c:102), but the new
description it fetches is played (player.c:115): ConfigModeRefuses says that nothing else
is.  A monitor that gets its ID after the play command keeps the text overlay beside its
title bar (mongrid.c:320), while a restart, which reads `monitor.N` first, leaves it out:
RestartPlaysSame leaves the overlay open.

Why the bounds are enough. Two slots of memory for one cell, and three for up to two,
have every case of a stale pointer: the same cell, another cell of the new array, and
outside of it. Two servers are what a connect and a disconnect need to disagree. Two
monitors give the file loop a first and a last file, and a disturbed one. Two monitors
on the control bar are an old and a new selection; one digit (`EntrySize = 2`) reaches
the limit of the entry. Two descriptions are what a cached and a fetched one need to
differ. MCStream puts two instances into one run: a stream alone, called in any order
(`StreamSpec`), which is all that a cell does with it (SpecIsStream), and commands on a
host that lacks nothing, without crops and counted packets; the two descriptions are
interchangeable (`MCSymmetry`). The crops are none, an inner part, and the last part
with the largest gap (where most is cut off), on pictures of 1 and 1919 pixels, which
three and seven do not divide; SdpPlayProofs has all others. One counted packet tells a
counter that was reset from one that was not. The packets are whole, cut by the buffer
within a field, just short enough for the log and too long for it, too long to be read
back, rejected at the end of the buffer and elsewhere, without a last separator, for no
monitor, for one beyond the grid, and behind invalid and empty commands; in 23
characters the status of one cell and every message fit, of two cells they do not. One
status is sent between two other steps (`SendStatus`).

Deadlock is checked in every run; the program's only end is `exited`, where
MonGrid stutters and Player may be started again.  No run switches the check off.

Fairness. MonGrid: GLib dispatches the oldest due timer and every bus message, and the
main thread enters the loop once the grid is laid out; the sink check is a periodic
timeout, strongly fair because its condition (some sink has a sample) comes and goes
with the streams. Player: both threads are scheduled, no command has to arrive. Cxn:
both threads run (recvfrom returns after 35 seconds at the latest) and an ICMP message
on its way arrives; the call that disconnects (strongly fair, as its failure sends the
thread round) does not fail for ever, and no call has to fail; nothing is assumed of the
servers. ModeBar: each thread goes on with what it has begun, and the status thread
finds the connection established again and again, without which nothing is ever sent. No
fairness is assumed of the operator. Stream, SdpPlay and Packets claim safety only, and
assume none.

## Proofs

The proofs hold for every value of the constants under the named ASSUMEs: any
memory, any monitor counts and settings, any number of servers, any entry size, any
packets and buffers, of which a file's must hold a command's first two fields, be no
larger than a packet's and no smaller than the log's (`SizeAssumption`).
The state bounds (`MaxTimers`, `MaxBus`, `MaxQueue`, `MaxIndex`, `MaxCount`) are arbitrary
constants there.

- **MonGridProofs**.  FreedUntouched, RestartArmed, StopArmed.  The invariant adds
  that the array is empty when nothing is laid out and lies inside `Addr`
  (`GridOK`), so that a valid pointer is a live cell and an index is one too.
  FreedUntouched is needed for the other two: a cell that becomes live asks for
  nothing and plays nothing.  RestartArmed and StopArmed are then preserved
  because a timer leaves the list only by firing, and firing does to its cell
  what the property says was on its way; every step that makes the property's
  premise true (MoncellStopStream) attaches the timer it asks for.
  On top of this invariant: TitleCurrent and AckedMeansOk, with a window; and
  WallKept, that MonGrid implements Wall.  A step on cell mc is the step of Wall on
  monitor mc - cells, or a stutter when mc is not in the array; that no other
  cell changes follows from FreedUntouched and `GridOK`.
- **CxnProofs**.  AddrIsPeer.  While the command thread connects, no address is
  remembered: it saw none, only it sets one, and the status thread can but
  forget (`ConnectOK`).  Between its system call and its note of the address the
  peer is the one it connected to or, after a disconnect of the status thread,
  none.  `SendOK`: the status thread sends to an address it really read.
- **PlayerProofs**.  RebuildUndisturbed.  Once the loop was entered, the main
  thread leaves it only for a command thread that has cleared the flag and will
  wait for it (`HandshakeOK`), and it sets the flag only after the last file.
  GridMatchesFiles, from three facts about the pass over the files: what has been
  loaded agrees with the files as long as nothing interferes (`LoadingOK`), once it
  stands, every change of the grid is followed by its store or put on `unsaved`
  (`StandingOK`), and the grid holds every configured monitor, which is the
  assumption that NumCells(n) >= n for the counts in use (TLC evaluates it).
- **SdpPlayProofs**.  About the stream (`StreamSpec`): BoxFits and BoxCovers from lemmas
  on integer division, for every width, part and gap.  CountsAddUp.  PictureFlows and
  PointersLive, for every set of missing plug-ins: a pipeline is a fold over the
  elements of stream_start, so its invariant is carried along the fold with
  Iteration, and says that what has been built accepts what comes next.
  About the play command (`Spec`): DescriptionWhole, since every place that takes an
  address takes the parameter sets with it.  FetchedPlays and RestartPlaysSame
  together, by an invariant (`PhaseInv`) that says for each step of player_play how
  command, file, cache, parameters and failed stores are related.  ConfigModeRefuses,
  since only a description that differs from the cached one gets past Fetch (`NewInv`).
  SpecIsStream: every
  step of `Spec` is a step of `StreamSpec` or leaves the stream alone, so what is proved
  of the stream holds in the composition.
- **ModeBarProofs**.  TypeOK, MovingFollowed, CamOfMon.  While a message is being
  composed the joystick is locked out, so a message that stops a camera is about the
  joystick's current position (`PtzOK`); in the middle of a reply its monitor is selected
  unless '.' interfered (`ReplyOK`); the camera a message begun outside the races is about
  to copy is blank or of the monitor it has copied (`BeforeCam`).
- **Iteration**.  Induction on numbers, and what the folds of the community modules
  compute, stated about sets and functions (`S`, `0 \in S`, closed under + 1) and
  not about operators, which the provers cannot instantiate.  From the
  well-foundedness of < on the numbers.
- **TextProofs**.  What the pieces of a text are, for every text.  `Pieces` counts
  separators; so the end of piece k is the position that has k ends up to it
  (`EndOf`), and pieces are compared by ranks, without induction over texts: when the
  first piece is taken off (nstr_split), when one is put behind (nstr_cat), and when
  the text is cut off, which leaves the pieces that are still whole.
- **PacketsProofs**.  TypeOK: what is still to be split lies in the buffer, cameras and
  files in their arrays.  CommandsDone, that the buffer implements CommandQueue.  The
  invariant says that what is left in the buffer, read without it, are the commands
  still to be handled, with what each will write outside an array (`TodoInBuffer`),
  that a file holds a play command for its own monitor (`Stored`), which is why it comes
  back for no other, and that no camera holds a separator, which would shift the fields
  of a status.  Terminating a string in place writes to its separator or behind the
  buffer's text only, never into the rest; where neither is in the buffer `fault` is set.
  StatusTells and RequestSent: the packet is what
  would have been sent without a limit, cut off (`Cut`), message by message; what
  is whole in it is what was meant, and with enough room nothing is cut.

Only model-checked: the liveness properties (StoppedRestarts, StuckSinkStops,
RefusedPeerDropped, RebuildReturns, SwitchSent, Drained), as the prover has no
ENABLED.

## Not modelled

- the vertical direction of the crop, which is the same functions with other
  letters; lost and late packets, counted like pushed ones; latency, fonts, colours
  and labels: no effect on control;
- a letter-by-letter view of strings: hexadecimal numbers, the hash that names a
  cache file, the digits of a joystick's position;
- the 32 bits of the crop's integers, which pictures of up to 400 000 pixels do not
  leave;
- the syntax of a description and of HTTP, which GStreamer and libcurl have;
- writes of a part of a file, read errors, and the descriptor a failed write leaves open;
- raw formats: `Accepts` and `Gives` treat all of them as one, so videoconvert and
  imagefreeze hand on what they get;
- what a write outside an array does to the process;
- the `sink` command, which stores a file only the next grid reads;
- which button a request is about and which monitor was selected when it was typed;
  the status thread's id before the grid is there;
- headless, mc->failed stays set after a recovery, since only moncell_init_gtk
  installs the acknowledgement (AckedMeansOk fails with `Gui = FALSE`);
- the lock, what the log prints, main, `bin/vmon` and the examples.

## Plan

1. *(done)* MonGrid, Cxn, Player, ModeBar with their runs; safety proofs for all.
2. *(done)* Store failures in Player; Stream, Crop and SdpPlay; Text and Packets.
3. *(done)* Wall, which MonGrid implements, and CommandQueue, which Packets
   implements; the proofs of WallKept, GridMatchesFiles and of SdpPlay.
4. The sink file and read errors in Player; which button and which monitor a request
   of the control bar is about, and the status thread's id in ModeBar; the text of a
   message that the keyboard changes while it is copied.
5. *(done)* Proofs of all the safety properties, those of Packets and of the elements
   of a pipeline included.
