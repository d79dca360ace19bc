------------------------------ MODULE MonGrid ------------------------------
(***************************************************************************)
(* The monitor grid of mongrid.c together with the stream of each cell     *)
(* (stream.c): the array of cells that a reconfiguration frees and         *)
(* allocates again, the one-shot timers that carry a raw pointer to a      *)
(* cell, the GStreamer pipelines and the messages they leave on their bus. *)
(*                                                                         *)
(* Every handler of mongrid.c holds grid.lock from its first to its last   *)
(* statement, so a handler is one action.  Who calls it (the GTK main loop *)
(* or the command thread) only matters for when it may run.                *)
(*                                                                         *)
(* Addresses are counted in cells: the array of n_cells cells at address   *)
(* `cells' occupies cells .. cells + n_cells - 1.                          *)
(***************************************************************************)
EXTENDS GridShape, Sequences, SequencesExt

CONSTANTS
    Addr,        \* addresses calloc may use for a cell
    Nums,        \* monitor counts a "config" command may ask for
    Monitor,     \* settings a "monitor" command may carry
    Request,     \* streams a "play" command may ask for
    Playable,    \* those whose location and encoding stream_start accepts
    Gui,         \* FALSE when the program runs with --no-gui
    None,
    MaxTimers,   \* bound: pending one-shot timers
    MaxBus       \* bound: messages queued on the bus of one pipeline

NULL == 0

ASSUME AddrAssumption == Addr \subseteq Nat \ {NULL}
ASSUME NumsAssumption ==
    /\ Nums \subseteq Nat
    /\ \A num \in Nums : num <= GridLimit => NumCells(num) \in Nat \ {0}
ASSUME RequestAssumption ==
    /\ Playable \subseteq Request
    /\ None \notin Request
    /\ None \notin Monitor
ASSUME GuiAssumption == Gui \in BOOLEAN

VARIABLES
    cells,    \* grid.cells
    n_cells,  \* grid.n_cells
    loop,     \* where the main thread is: see Loop
    mon,      \* per cell: the settings of its monitor (mid, accent, ...)
    req,      \* per cell: the stream parameters (cam_id, location, ...)
    started,  \* per cell: mc->started
    failed,   \* per cell: mc->failed
    title,    \* per cell: what its title bar shows
    pipe,     \* per cell: the request its pipeline plays, None in state NULL
    sample,   \* per cell: the sink's last-sample, seen from last_pts
    bus,      \* per cell: messages not yet dispatched by the bus watch
    timers    \* one-shot timers, in the order they were attached

cellVars == <<mon, req, started, failed, title, pipe, sample, bus>>
vars == <<cells, n_cells, loop, cellVars, timers>>

\* run_player: before mongrid_init, between it and gtk_main, in gtk_main,
\* and after mongrid_destroy.
Loop == {"setup", "load", "main", "exited"}

Callback == {"do_update_title", "do_stop_stream", "do_restart"}
Delay == {0, 20, 1000}
Message == {"ASYNC_DONE", "FAILURE"}  \* FAILURE: EOS, ERROR, WARNING, timeout

Timer == [fn : Callback, mc : Addr, delay : Delay]
Title == [mon : Monitor \cup {None}, req : Request \cup {None},
          lit : BOOLEAN]
BlankTitle == [mon |-> None, req |-> None, lit |-> FALSE]

TypeOK ==
    /\ cells \in Addr \cup {NULL}
    /\ n_cells \in Nat
    /\ loop \in Loop
    /\ mon \in [Addr -> Monitor \cup {None}]
    /\ req \in [Addr -> Request \cup {None}]
    /\ started \in [Addr -> BOOLEAN]
    /\ failed \in [Addr -> BOOLEAN]
    /\ title \in [Addr -> Title]
    /\ pipe \in [Addr -> Request \cup {None}]
    /\ sample \in [Addr -> {"none", "fresh", "seen"}]
    /\ bus \in [Addr -> Seq(Message)]
    /\ timers \in Seq(Timer)

----------------------------------------------------------------------------
(* The cells and their timers *)

\* Mutants: the array is one cell too long, or begins one cell late.
IsMoncellValidPastEnd(mc) == mc >= cells /\ mc <= cells + n_cells
IsMoncellValidNotFirst(mc) == mc > cells /\ mc < cells + n_cells

IsMoncellValid(mc) == mc >= cells /\ mc < cells + n_cells

\* Memory that calloc has handed out and free has not taken back.
Live == {mc \in Addr : cells # NULL /\ mc \in cells .. cells + n_cells - 1}

HasTimer(ts, fn, mc) == \E i \in DOMAIN ts : ts[i].fn = fn /\ ts[i].mc = mc

Pending(fn, mc) == HasTimer(timers, fn, mc)

NewTimer(fn, mc, delay) ==
    [fn |-> fn, mc |-> mc, delay |-> delay]

TitleTimer(mc) == IF Gui THEN <<NewTimer("do_update_title", mc, 0)>> ELSE <<>>

\* Mutants: a delay in seconds, no stop, no restart.
StopTimersSeconds(mc, delay) ==
    TitleTimer(mc) \o <<NewTimer("do_stop_stream", mc, 0),
                        NewTimer("do_restart", mc, delay \div 1000)>>
StopTimersNoStop(mc, delay) ==
    TitleTimer(mc) \o <<NewTimer("do_restart", mc, delay)>>
StopTimersNoRestart(mc, delay) ==
    TitleTimer(mc) \o <<NewTimer("do_stop_stream", mc, 0)>>

\* g_timeout_add thrice, as moncell_stop_stream does.
StopTimers(mc, delay) ==
    TitleTimer(mc) \o <<NewTimer("do_stop_stream", mc, 0),
                        NewTimer("do_restart", mc, delay)>>

\* The bound on timers holds back commands and pipelines, never a callback of
\* the program: a message on a bus has the room its dispatch needs, and every
\* cell the room of one message that do_check_sink may post.
Reserved == 3 * FoldFunction(LAMBDA q, n : Len(q) + n, 0, bus)
Room(n) == Len(timers) + Reserved + n <= MaxTimers
RoomBesidesCheck(n) == Room(n + 3 * n_cells)

\* GLib dispatches due timers in the order they were attached, so a timer
\* overtakes only those attached earlier with a longer delay.
MayFire(i) ==
    /\ loop = "main"
    /\ i \in DOMAIN timers
    /\ \A j \in 1 .. i - 1 : timers[j].delay > timers[i].delay

Fire(i) == MayFire(i) /\ timers' = RemoveAt(timers, i)

\* What moncell_update_accent_title puts on screen; without a monitor ID the
\* title bar is hidden and its labels are left alone.
TitleOf(mc, lit) ==
    IF mon[mc] = None THEN [BlankTitle EXCEPT !.lit = lit]
    ELSE [mon |-> mon[mc], req |-> req[mc], lit |-> lit]

\* stream_stop_pipeline: NULL state flushes the bus and drops the sink.
StopPipelineThen(mc, r) ==
    /\ pipe' = [pipe EXCEPT ![mc] = r]
    /\ sample' = [sample EXCEPT ![mc] = "none"]
    /\ bus' = [bus EXCEPT ![mc] = <<>>]

----------------------------------------------------------------------------
(* Allocation: run_player's loop around mongrid_init and mongrid_reset *)

Init ==
    /\ cells = NULL /\ n_cells = 0 /\ loop = "setup" /\ timers = <<>>
    /\ mon = [mc \in Addr |-> None] /\ req = [mc \in Addr |-> None]
    /\ started = [mc \in Addr |-> FALSE] /\ failed = [mc \in Addr |-> FALSE]
    /\ title = [mc \in Addr |-> BlankTitle]
    /\ pipe = [mc \in Addr |-> None] /\ sample = [mc \in Addr |-> "none"]
    /\ bus = [mc \in Addr |-> <<>>]

\* calloc may return any free block, so also the one just freed.  The
\* moncell_init of each cell leaves the blank state that Reset left behind.
MongridInit(num, base) ==
    /\ loop = "setup" /\ num <= GridLimit
    /\ base .. base + NumCells(num) - 1 \subseteq Addr
    /\ cells' = base /\ n_cells' = NumCells(num) /\ loop' = "load"
    /\ UNCHANGED <<cellVars, timers>>

\* "Grid too large": run_player leaves its loop and mongrid_destroy runs.
MongridInitTooLarge(num) ==
    /\ loop = "setup" /\ num > GridLimit
    /\ cells' = NULL /\ n_cells' = 0 /\ loop' = "exited"
    /\ UNCHANGED <<cellVars, timers>>

MongridRun ==
    /\ loop = "load" /\ loop' = "main"
    /\ UNCHANGED <<cells, n_cells, cellVars, timers>>

\* Mutant: the cells are freed, but their streams are not destroyed.
MongridResetNoDestroy ==
    /\ loop = "main" /\ loop' = "setup"
    /\ cells' = NULL /\ n_cells' = 0
    /\ LET Wipe(f, v) == [mc \in Addr |-> IF mc \in Live THEN v ELSE f[mc]]
       IN  /\ mon' = Wipe(mon, None) /\ req' = Wipe(req, None)
           /\ started' = Wipe(started, FALSE) /\ failed' = Wipe(failed, FALSE)
           /\ title' = Wipe(title, BlankTitle)
    /\ UNCHANGED <<pipe, sample, bus, timers>>

\* gtk_main returns and mongrid_reset destroys every cell; the timers stay.
MongridReset ==
    /\ loop = "main" /\ loop' = "setup"
    /\ cells' = NULL /\ n_cells' = 0
    /\ LET Wipe(f, v) == [mc \in Addr |-> IF mc \in Live THEN v ELSE f[mc]]
       IN  /\ mon' = Wipe(mon, None) /\ req' = Wipe(req, None)
           /\ started' = Wipe(started, FALSE) /\ failed' = Wipe(failed, FALSE)
           /\ title' = Wipe(title, BlankTitle) /\ pipe' = Wipe(pipe, None)
           /\ sample' = Wipe(sample, "none") /\ bus' = Wipe(bus, <<>>)
    /\ UNCHANGED timers

----------------------------------------------------------------------------
(* Commands: from the command thread, or read back by the main thread *)

\* moncell_stop_stream
MoncellStopStream(mc, delay) ==
    /\ started' = [started EXCEPT ![mc] = FALSE]
    /\ timers' = timers \o StopTimers(mc, delay)

\* Mutant: the title is not updated.
MongridSetMonNoTitle(idx, m) ==
    /\ idx < n_cells
    /\ mon' = [mon EXCEPT ![cells + idx] = m]
    /\ UNCHANGED <<cells, n_cells, loop, req, started, failed, title, pipe,
                   sample, bus, timers>>

MongridSetMon(idx, m) ==
    /\ idx < n_cells /\ RoomBesidesCheck(1)
    /\ mon' = [mon EXCEPT ![cells + idx] = m]
    /\ timers' = timers \o TitleTimer(cells + idx)
    /\ UNCHANGED <<cells, n_cells, loop, req, started, failed, title, pipe,
                   sample, bus>>

MongridPlayStream(idx, r) ==
    /\ idx < n_cells /\ RoomBesidesCheck(3)
    /\ failed' = [failed EXCEPT ![cells + idx] = FALSE]
    /\ req' = [req EXCEPT ![cells + idx] = r]
    /\ MoncellStopStream(cells + idx, 20)
    /\ UNCHANGED <<cells, n_cells, loop, mon, title, pipe, sample, bus>>

----------------------------------------------------------------------------
(* Timers *)

\* Each of the three callbacks returns at once when its cell is not valid.
FireInvalid(i) ==
    /\ Fire(i) /\ ~IsMoncellValid(timers[i].mc)
    /\ UNCHANGED <<cells, n_cells, loop, cellVars>>

DoUpdateTitle(i) ==
    LET mc == timers[i].mc IN
    /\ Fire(i) /\ timers[i].fn = "do_update_title" /\ IsMoncellValid(mc)
    /\ title' = [title EXCEPT ![mc] = TitleOf(mc, started[mc])]
    /\ UNCHANGED <<cells, n_cells, loop, mon, req, started, failed, pipe,
                   sample, bus>>

DoStopStream(i) ==
    LET mc == timers[i].mc IN
    /\ Fire(i) /\ timers[i].fn = "do_stop_stream" /\ IsMoncellValid(mc)
    /\ StopPipelineThen(mc, None)
    /\ UNCHANGED <<cells, n_cells, loop, mon, req, started, failed, title>>

\* stream_start: does it know the scheme of the location and the encoding?
StreamStart(r) == r \in Playable

\* moncell_restart_stream, on a cell not yet started
DoRestart(i) ==
    LET mc == timers[i].mc
        ok == StreamStart(req[mc])
    IN
    /\ Fire(i) /\ timers[i].fn = "do_restart" /\ IsMoncellValid(mc)
    /\ ~started[mc]
    /\ StopPipelineThen(mc, IF ok THEN req[mc] ELSE None)
    /\ started' = [started EXCEPT ![mc] = TRUE]
    /\ title' = IF Gui /\ ~ok
                THEN [title EXCEPT ![mc] = TitleOf(mc, TRUE)] ELSE title
    /\ UNCHANGED <<cells, n_cells, loop, mon, req, failed>>

\* moncell_restart_stream does nothing on a cell that is already started
DoRestartStarted(i) ==
    /\ Fire(i) /\ timers[i].fn = "do_restart"
    /\ IsMoncellValid(timers[i].mc) /\ started[timers[i].mc]
    /\ UNCHANGED <<cells, n_cells, loop, cellVars>>

----------------------------------------------------------------------------
(* Pipelines, their bus watch and the periodic check of their sinks *)

\* GStreamer: the first sample arrives and the state change completes.  Since
\* last_pts survives a restart, that sample may look like one already seen.
PipelinePreroll(mc) ==
    /\ pipe[mc] # None /\ sample[mc] = "none"
    /\ Len(bus[mc]) < MaxBus /\ RoomBesidesCheck(3)
    /\ \E s \in {"fresh", "seen"} : sample' = [sample EXCEPT ![mc] = s]
    /\ bus' = [bus EXCEPT ![mc] = Append(@, "ASYNC_DONE")]
    /\ UNCHANGED <<cells, n_cells, loop, mon, req, started, failed, title,
                   pipe, timers>>

PipelineFrame(mc) ==
    /\ sample[mc] = "seen"
    /\ sample' = [sample EXCEPT ![mc] = "fresh"]
    /\ UNCHANGED <<cells, n_cells, loop, mon, req, started, failed, title,
                   pipe, bus, timers>>

PipelineFailure(mc) ==
    /\ pipe[mc] # None /\ Len(bus[mc]) < MaxBus /\ RoomBesidesCheck(3)
    /\ bus' = [bus EXCEPT ![mc] = Append(@, "FAILURE")]
    /\ UNCHANGED <<cells, n_cells, loop, mon, req, started, failed, title,
                   pipe, sample, timers>>

\* Mutant: the acknowledgement does not clear mc->failed.
BusAsyncDoneKeepsFailed(mc) ==
    /\ loop = "main" /\ bus[mc] # <<>> /\ Head(bus[mc]) = "ASYNC_DONE"
    /\ bus' = [bus EXCEPT ![mc] = Tail(@)]
    /\ timers' = timers \o TitleTimer(mc)
    /\ UNCHANGED <<cells, n_cells, loop, mon, req, started, failed, title,
                   pipe, sample>>

\* bus_cb for ASYNC_DONE: stream_ack_started calls moncell_ack_started, which
\* only moncell_init_gtk installs.
BusAsyncDone(mc) ==
    /\ loop = "main" /\ bus[mc] # <<>> /\ Head(bus[mc]) = "ASYNC_DONE"
    /\ bus' = [bus EXCEPT ![mc] = Tail(@)]
    /\ failed' = IF Gui THEN [failed EXCEPT ![mc] = FALSE] ELSE failed
    /\ timers' = timers \o TitleTimer(mc)
    /\ UNCHANGED <<cells, n_cells, loop, mon, req, started, title, pipe,
                   sample>>

\* bus_cb for EOS, ERROR, WARNING and GstUDPSrcTimeout: moncell_stop
BusFailure(mc) ==
    /\ loop = "main" /\ bus[mc] # <<>> /\ Head(bus[mc]) = "FAILURE"
    /\ bus' = [bus EXCEPT ![mc] = Tail(@)]
    /\ failed' = [failed EXCEPT ![mc] = started[mc]]
    /\ MoncellStopStream(mc, 1000)
    /\ UNCHANGED <<cells, n_cells, loop, mon, req, title, pipe, sample>>

\* Mutant: last_pts is updated, but a stuck sink posts nothing.
DoCheckSinkSilent ==
    /\ loop = "main" /\ Gui /\ \E mc \in Live : sample[mc] # "none"
    /\ sample' = [mc \in Addr |->
                    IF mc \in Live /\ sample[mc] = "fresh" THEN "seen"
                    ELSE sample[mc]]
    /\ UNCHANGED <<cells, n_cells, loop, mon, req, started, failed, title,
                   pipe, bus, timers>>

\* do_check_sink: every cell whose last sample has not changed since the last
\* check posts an EOS message.  Only a real sink (with a window) is checked.
DoCheckSink ==
    LET Stuck == {mc \in Live : sample[mc] = "seen"} IN
    /\ loop = "main" /\ Gui /\ \E mc \in Live : sample[mc] # "none"
    /\ \A mc \in Stuck : Len(bus[mc]) < MaxBus
    /\ Room(3 * Cardinality(Stuck))
    /\ bus' = [mc \in Addr |->
                 IF mc \in Stuck THEN Append(bus[mc], "FAILURE") ELSE bus[mc]]
    /\ sample' = [mc \in Addr |->
                    IF mc \in Live /\ sample[mc] = "fresh" THEN "seen"
                    ELSE sample[mc]]
    /\ UNCHANGED <<cells, n_cells, loop, mon, req, started, failed, title,
                   pipe, timers>>

----------------------------------------------------------------------------
Exited == loop = "exited" /\ UNCHANGED vars

Reconfigure ==
    \/ \E num \in Nums : \/ \E base \in Addr : MongridInit(num, base)
                         \/ MongridInitTooLarge(num)
    \/ MongridRun
    \/ MongridReset

Command == \E idx \in 0 .. n_cells - 1 :
    \/ \E m \in Monitor \cup {None} : MongridSetMon(idx, m)
    \/ \E r \in Request : MongridPlayStream(idx, r)

FireTimer(i) ==
    \/ FireInvalid(i)
    \/ DoUpdateTitle(i)
    \/ DoStopStream(i)
    \/ DoRestart(i)
    \/ DoRestartStarted(i)

BusWatch(mc) == BusAsyncDone(mc) \/ BusFailure(mc)

Pipeline(mc) ==
    PipelinePreroll(mc) \/ PipelineFrame(mc) \/ PipelineFailure(mc)

Next ==
    \/ Reconfigure
    \/ Command
    \/ \E i \in DOMAIN timers : FireTimer(i)
    \/ \E mc \in Addr : BusWatch(mc) \/ Pipeline(mc)
    \/ DoCheckSink
    \/ Exited

Spec == Init /\ [][Next]_vars

\* The GTK main loop is entered once the grid is laid out, and it dispatches
\* every due timer, the oldest first, and every message of every bus.
Fairness ==
    /\ WF_vars(MongridRun)
    /\ WF_vars(FireTimer(1))
    /\ \A mc \in Addr : WF_vars(BusWatch(mc))
    /\ SF_vars(DoCheckSink)

FairSpec == Spec /\ Fairness
----------------------------------------------------------------------------
(* Safety *)

\* A cell that has been freed is left alone: whatever timers still point at
\* it, it holds no running pipeline, no message and no state of its own.
\* (mongrid.c: "moncell may have been freed while timer ran".)
FreedUntouched == \A mc \in Addr \ Live :
    /\ mon[mc] = None /\ req[mc] = None
    /\ pipe[mc] = None /\ bus[mc] = <<>> /\ sample[mc] = "none"
    /\ ~started[mc] /\ ~failed[mc] /\ title[mc] = BlankTitle

\* A cell that was told what to play and is not started has a restart timer
\* on its way: no order of commands, failures and stale timers strands it
\* (moncell_stop_stream: "Stopping the stream will trigger a restart").
RestartArmed == \A mc \in Live :
    req[mc] # None /\ ~started[mc] => Pending("do_restart", mc)

\* A pipeline that plays something else than what its cell asks for now, or
\* whose cell is being stopped, has a stop timer on its way.
StopArmed == \A mc \in Live :
    pipe[mc] # None /\ (~started[mc] \/ pipe[mc] # req[mc])
        => Pending("do_stop_stream", mc)

\* The title bar shows the monitor and stream last set, and is lit only over
\* a started stream, unless an update of it is on its way.
TitleCurrent == Gui => \A mc \in Live :
    \/ Pending("do_update_title", mc)
    \/ \E lit \in BOOLEAN :
        title[mc] = TitleOf(mc, lit) /\ (lit => started[mc])

\* The status reported to the server does not say "failed" of a stream that
\* is started and whose ASYNC_DONE has been handled (doc/protocol.md, Status:
\* "Stream status error (blank for OK)").
AckedMeansOk == \A mc \in Live :
    started[mc] /\ pipe[mc] # None /\ failed[mc] =>
        \/ sample[mc] = "none"
        \/ \E i \in DOMAIN bus[mc] : bus[mc][i] = "ASYNC_DONE"

\* Every pipeline without a pending timer of its cell plays what was asked
\* for: "Stopping the stream will trigger a restart" (mongrid.c:325).
SettledPlays == \A mc \in Live :
    /\ req[mc] \in Playable
    /\ ~ Pending("do_stop_stream", mc) /\ ~ Pending("do_restart", mc)
    => pipe[mc] = req[mc]

\* A further failure of a stream reported as failed does not withdraw the
\* report: its status is not blank, which means OK (doc/protocol.md, Status).
FailureKeepsFailed ==
    [][\A mc \in Addr : BusFailure(mc) /\ failed[mc] => failed'[mc]]_vars

----------------------------------------------------------------------------
(* Liveness, under the fairness of FairSpec *)

\* A cell that was told what to play is started again, or freed.
StoppedRestarts == \A mc \in Addr :
    (mc \in Live /\ req[mc] # None /\ ~started[mc])
        ~> (started[mc] \/ mc \notin Live)

\* A sink that shows the same frame at two checks is stopped unless a new
\* frame arrives ("Check sink to make sure that last-sample is updating. If
\* not, post an EOS message on the bus", stream.c:623).
StuckSinkStops == \A mc \in Addr :
    sample[mc] = "seen" ~> sample[mc] # "seen"
=============================================================================
