------------------------------- MODULE Player -------------------------------
(***************************************************************************)
(* The player of player.c: the main thread that builds the grid from the   *)
(* configuration files and runs the GTK loop, the command thread that      *)
(* changes both files and grid, and the restart handshake between them     *)
(* (mongrid_run, mongrid_restart).  The process may be killed at any       *)
(* moment; its files stay.                                                 *)
(*                                                                         *)
(* "monitor" and "play" commands are handled alike: applied to the grid    *)
(* unless the player is being configured, then stored in a file.  Index i  *)
(* stands for either of the files monitor.i and play.i.                    *)
(***************************************************************************)
EXTENDS GridShape

CONSTANTS
    Setting,   \* what a "monitor" or "play" command may carry
    Count,     \* values of a "config" command other than 0
    MaxIndex,  \* bound: the largest monitor index commands use
    None,
    Empty      \* contents of a file that was truncated and not yet written

Index == 0 .. MaxIndex

ASSUME CountAssumption ==
    \A n \in Count \cup {1} :
        /\ n \in Nat \ {0}
        /\ n <= GridLimit =>
             n \in 1 .. MaxIndex + 1 /\ NumCells(n) \in Nat /\ n <= NumCells(n)
ASSUME IndexAssumption == MaxIndex \in Nat
ASSUME FileAssumption ==
    /\ None # Empty
    /\ {None, Empty} \cap (Setting \cup Count) = {}

VARIABLES
    main,         \* where the main thread is in run_player
    mon,          \* its local: the number of monitors load_config returned
    next,         \* its local: the index player_load_cmds has come to
    buf,          \* its local: what config_load read
    cmd,          \* where the command thread is
    arg,          \* the command it handles
    configuring,  \* plyr->configuring
    running,      \* grid.running
    n_cells,      \* grid.n_cells
    view,         \* per index: the setting its cell was last told
    config,       \* file "config"
    file,         \* files "monitor.i" and "play.i"
    entered,      \* history: the GTK loop was entered since the start
    overlap,      \* history: a command arrived before it was
    unsaved       \* history: settings shown that could not be stored

mainVars == <<main, mon, next, buf>>
cmdVars == <<cmd, arg>>
gridVars == <<running, n_cells, view>>
files == <<config, file>>
history == <<entered, overlap, unsaved>>
vars == <<mainVars, cmdVars, configuring, gridVars, files, history>>

NoSetting == [i \in Index |-> None]
NoCommand == [index |-> 0, value |-> None]

TypeOK ==
    /\ main \in {"start", "load_config", "init", "read", "apply", "run",
                 "gtk_main", "loop", "reset", "exited"}
    /\ mon \in Count \cup {1} /\ next \in 0 .. MaxIndex + 1
    /\ buf \in Setting \cup {None, Empty}
    /\ cmd \in {"recv", "apply", "open", "write", "fetch", "open_config",
                "write_config", "restart", "quit", "wait"}
    /\ arg \in [index : Index, value : Setting \cup Count \cup {None}]
    /\ configuring \in BOOLEAN /\ running \in BOOLEAN /\ overlap \in BOOLEAN
    /\ entered \in BOOLEAN
    /\ n_cells \in Nat
    /\ view \in [Index -> Setting \cup {None}]
    /\ config \in Count \cup {None, Empty}
    /\ file \in [Index -> Setting \cup {None, Empty}]
    /\ unsaved \subseteq Index

Init ==
    /\ main = "start" /\ mon = 1 /\ next = 0 /\ buf = None
    /\ cmd = "recv" /\ arg = NoCommand
    /\ configuring = FALSE /\ running = FALSE
    /\ n_cells = 0 /\ view = NoSetting
    /\ config = None /\ file = NoSetting
    /\ entered = FALSE /\ overlap = FALSE /\ unsaved = {}

\* mongrid_set_mon and mongrid_play_stream ignore an index beyond the grid.
Told(i, s) == IF i < n_cells THEN [view EXCEPT ![i] = s] ELSE view

\* config.c's lock is held from the open that truncates to the write.
FilesLocked == cmd \in {"write", "write_config"}

----------------------------------------------------------------------------
(* Main thread *)

\* The threads run by the time run_player sets this.
Start ==
    /\ main = "start" /\ main' = "load_config" /\ configuring' = FALSE
    /\ UNCHANGED <<mon, next, buf, cmdVars, gridVars, files, history>>

\* Mutant: what the file holds is used unchecked.
LoadConfigUnchecked ==
    /\ main = "load_config" /\ ~FilesLocked /\ main' = "init" /\ mon' = config
    /\ UNCHANGED <<next, buf, cmdVars, configuring, gridVars, files, history>>

\* load_config: one monitor when the file is missing or holds no command
LoadConfig ==
    /\ main = "load_config" /\ ~FilesLocked /\ main' = "init"
    /\ mon' = IF config \in Count THEN config ELSE 1
    /\ UNCHANGED <<next, buf, cmdVars, configuring, gridVars, files, history>>

MongridInit ==
    /\ main = "init" /\ mon <= GridLimit
    /\ main' = "read" /\ next' = 0
    /\ n_cells' = NumCells(mon) /\ running' = FALSE /\ view' = NoSetting
    /\ UNCHANGED <<mon, buf, cmdVars, configuring, files, history>>

\* "Grid too large": run_player returns and the program ends.
MongridInitTooLarge ==
    /\ main = "init" /\ mon > GridLimit
    /\ main' = "exited" /\ n_cells' = 0
    /\ UNCHANGED <<mon, next, buf, cmdVars, configuring, running, view, files,
                   history>>

\* player_load_cmds: config_load of one file, then player_proc_cmds on it
ReadFile ==
    /\ main = "read" /\ next < mon /\ ~FilesLocked
    /\ main' = "apply" /\ buf' = file[next]
    /\ UNCHANGED <<mon, next, cmdVars, configuring, gridVars, files, history>>

ApplyFile ==
    /\ main = "apply" /\ main' = "read" /\ next' = next + 1
    /\ view' = IF buf \in Setting /\ ~configuring THEN Told(next, buf) ELSE view
    /\ UNCHANGED <<mon, buf, cmdVars, configuring, running, n_cells, files,
                   history>>

\* Mutant: the files of the last monitor are left out.
FilesLoadedButLast ==
    /\ main = "read" /\ next >= mon - 1 /\ main' = "run"
    /\ UNCHANGED <<mon, next, buf, cmdVars, configuring, gridVars, files,
                   history>>

FilesLoaded ==
    /\ main = "read" /\ next = mon /\ main' = "run"
    /\ UNCHANGED <<mon, next, buf, cmdVars, configuring, gridVars, files,
                   history>>

\* Mutant: the flag mongrid_restart waits for is not set.
SetRunningNot ==
    /\ main = "run" /\ main' = "gtk_main"
    /\ UNCHANGED <<mon, next, buf, cmdVars, configuring, gridVars, files,
                   history>>

\* mongrid_run sets the flag under the lock, and enters gtk_main after it.
SetRunning ==
    /\ main = "run" /\ main' = "gtk_main" /\ running' = TRUE
    /\ UNCHANGED <<mon, next, buf, cmdVars, configuring, n_cells, view, files,
                   history>>

EnterLoop ==
    /\ main = "gtk_main" /\ main' = "loop" /\ entered' = TRUE
    /\ UNCHANGED <<mon, next, buf, cmdVars, configuring, gridVars, files,
                   overlap, unsaved>>

MongridReset ==
    /\ main = "reset" /\ main' = "load_config"
    /\ n_cells' = 0 /\ view' = NoSetting /\ unsaved' = {}
    /\ UNCHANGED <<mon, next, buf, cmdVars, configuring, running, files,
                   entered, overlap>>

----------------------------------------------------------------------------
(* Command thread *)

\* History: does the command arrive before the GTK loop was ever entered?
Met == overlap' = (overlap \/ ~entered) /\ UNCHANGED <<entered, unsaved>>

\* player_monitor, player_play
RecvSetting(i, s) ==
    /\ cmd = "recv" /\ main # "exited"
    /\ cmd' = "apply" /\ arg' = [index |-> i, value |-> s] /\ Met
    /\ UNCHANGED <<mainVars, configuring, gridVars, files>>

ApplySetting ==
    /\ cmd = "apply" /\ cmd' = "open"
    /\ view' = IF configuring THEN view ELSE Told(arg.index, arg.value)
    /\ UNCHANGED <<mainVars, arg, configuring, running, n_cells, files,
                   history>>

\* config_store: open truncates the file, write fills it
OpenFile ==
    /\ cmd = "open" /\ cmd' = "write"
    /\ file' = [file EXCEPT ![arg.index] = Empty]
    /\ UNCHANGED <<mainVars, arg, configuring, gridVars, config, history>>

WriteFile ==
    /\ cmd = "write" /\ cmd' = "fetch"
    /\ file' = [file EXCEPT ![arg.index] = arg.value]
    /\ unsaved' = unsaved \ {arg.index}
    /\ UNCHANGED <<mainVars, arg, configuring, gridVars, config, entered,
                   overlap>>

\* An open that fails leaves the file as it was, a write that fails leaves it
\* empty; either is logged, and the setting is kept on the screen.
StoreFails ==
    /\ cmd \in {"open", "write"} /\ cmd' = "fetch"
    /\ unsaved' = unsaved \cup {arg.index}
    /\ UNCHANGED <<mainVars, arg, configuring, gridVars, files, entered,
                   overlap>>

\* player_play, when sdp_data_fetch brings a stream description: the stream
\* is played once more, and configuring is not looked at again
FetchedPlay ==
    /\ cmd = "fetch" /\ cmd' = "recv" /\ arg' = NoCommand
    /\ view' = Told(arg.index, arg.value)
    /\ UNCHANGED <<mainVars, configuring, running, n_cells, files, history>>

NothingFetched ==
    /\ cmd = "fetch" /\ cmd' = "recv" /\ arg' = NoCommand
    /\ UNCHANGED <<mainVars, configuring, gridVars, files, history>>

\* player_config with 0
RecvConfigZero ==
    /\ cmd = "recv" /\ main # "exited" /\ configuring' = TRUE /\ Met
    /\ UNCHANGED <<mainVars, cmdVars, gridVars, files>>

\* player_config with a monitor count
RecvConfig(n) ==
    /\ cmd = "recv" /\ main # "exited"
    /\ cmd' = "open_config" /\ arg' = [index |-> 0, value |-> n] /\ Met
    /\ UNCHANGED <<mainVars, configuring, gridVars, files>>

OpenConfig ==
    /\ cmd = "open_config" /\ cmd' = "write_config" /\ config' = Empty
    /\ UNCHANGED <<mainVars, arg, configuring, gridVars, file, history>>

WriteConfig ==
    /\ cmd = "write_config" /\ cmd' = "restart" /\ config' = arg.value
    /\ UNCHANGED <<mainVars, arg, configuring, gridVars, file, history>>

\* The grid is restarted all the same, with the count the file holds.
StoreConfigFails ==
    /\ cmd \in {"open_config", "write_config"} /\ cmd' = "restart"
    /\ UNCHANGED <<mainVars, arg, configuring, gridVars, files, history>>

\* mongrid_restart
ClearRunning ==
    /\ cmd = "restart" /\ cmd' = "quit"
    /\ configuring' = FALSE /\ running' = FALSE
    /\ UNCHANGED <<mainVars, arg, n_cells, view, files, history>>

\* gtk_main_quit ends the innermost loop; outside one it does nothing.
GtkMainQuit ==
    /\ cmd = "quit" /\ cmd' = "wait"
    /\ main' = IF main = "loop" THEN "reset" ELSE main
    /\ UNCHANGED <<mon, next, buf, arg, configuring, gridVars, files, history>>

\* Mutant: mongrid_restart does not wait.
RestartedEarly ==
    /\ cmd = "wait" /\ cmd' = "recv" /\ arg' = NoCommand
    /\ UNCHANGED <<mainVars, configuring, gridVars, files, history>>

Restarted ==
    /\ cmd = "wait" /\ running /\ cmd' = "recv" /\ arg' = NoCommand
    /\ UNCHANGED <<mainVars, configuring, gridVars, files, history>>

----------------------------------------------------------------------------
\* The process is killed, or ended by itself, and started again.
Crash ==
    /\ main' = "start" /\ mon' = 1 /\ next' = 0 /\ buf' = None
    /\ cmd' = "recv" /\ arg' = NoCommand
    /\ configuring' = FALSE /\ running' = FALSE
    /\ n_cells' = 0 /\ view' = NoSetting /\ entered' = FALSE /\ overlap' = FALSE
    /\ unsaved' = {} /\ UNCHANGED files

MainThread ==
    \/ Start \/ LoadConfig \/ MongridInit \/ MongridInitTooLarge
    \/ ReadFile \/ ApplyFile \/ FilesLoaded \/ SetRunning \/ EnterLoop
    \/ MongridReset

\* What the command thread does on its own once it has a command.
HandleCommand ==
    /\ main # "exited"
    /\ \/ ApplySetting \/ OpenFile \/ WriteFile \/ StoreFails
       \/ FetchedPlay \/ NothingFetched
       \/ OpenConfig \/ WriteConfig \/ StoreConfigFails
       \/ ClearRunning \/ GtkMainQuit \/ Restarted

RecvCommand ==
    \/ \E i \in Index, s \in Setting : RecvSetting(i, s)
    \/ RecvConfigZero
    \/ \E n \in Count : RecvConfig(n)

Next == MainThread \/ HandleCommand \/ RecvCommand \/ Crash

Spec == Init /\ [][Next]_vars

\* Both threads are scheduled; nobody has to send a command, or to kill.
FairSpec == Spec /\ WF_vars(MainThread) /\ WF_vars(HandleCommand)

----------------------------------------------------------------------------
(* Properties *)

Rebuilding == main \in {"load_config", "init", "read", "apply", "run", "reset"}

\* While the main thread rebuilds the grid, the command thread waits for it:
\* no command changes a file or the grid half-way (mongrid_restart).  Only
\* the first start does not hold it back.
RebuildUndisturbed ==
    Rebuilding /\ ~overlap =>
        IF entered THEN cmd = "wait" /\ ~running ELSE cmd = "recv"

\* The count that load_config returns, and what a file tells its cell
Configured == IF config \in Count THEN config ELSE 1
FileView(i) == IF file[i] \in Setting THEN file[i] ELSE None

\* Between commands the grid is what the files say, so that nothing changes
\* over a restart of the program: as many cells as the file "config" asks
\* for, each told what its files hold, but for the settings that could not
\* be stored; a failure to store one setting, or the count, touches no other.
GridMatchesFiles ==
    main = "loop" /\ cmd = "recv" /\ ~configuring /\ ~overlap =>
        /\ mon = Configured /\ n_cells = NumCells(mon)
        /\ \A i \in 0 .. mon - 1 : i \notin unsaved => view[i] = FileView(i)

\* A restart that took the main thread out of its loop is over some time:
\* the command thread goes on, unless the program ends.
RebuildReturns ==
    cmd = "wait" /\ Rebuilding ~> cmd # "wait" \/ main = "exited"

\* doc/protocol.md: after the second config message "configuration is
\* completed", so mongrid_restart returns.
RestartReturns == cmd = "wait" ~> cmd # "wait" \/ main = "exited"
=============================================================================
