------------------------------ MODULE SdpPlay ------------------------------
(***************************************************************************)
(* One monitor of the wall, from the "play" command to the picture: the    *)
(* command is handled by player_play, a stream description (.sdp file) is  *)
(* taken from the cache first and from its server afterwards (sdp.c), the  *)
(* command and the description are stored (config.c), and the stream is    *)
(* stopped and started by the timers of its cell (Stream).  A file may     *)
(* fail to open or to be written, which is only logged.  The process may   *)
(* be killed at any step; its files stay, and it replays them when it      *)
(* starts.                                                                 *)
(*                                                                         *)
(* Player has the grid and the threads around its rebuild; here there is   *)
(* one cell, and a rebuild is one step.  The two timers of the cell are    *)
(* pending or not, and fire in any order.                                  *)
(***************************************************************************)
EXTENDS Stream

CONSTANTS
    Plays,      \* "play" commands: [loc, enc, desc]
    Failing,    \* the files that config_store may fail to store
    Garbled,    \* an answer without a usable description
    Empty       \* contents of a file that was truncated and not yet written

ASSUME PlaysAssumption ==
    Plays \subseteq [loc : Plain, enc : Encoding, desc : BOOLEAN]
ASSUME FailingAssumption == Failing \subseteq {"play", "cache"}
ASSUME FileAssumption ==
    /\ {Garbled, Empty} \cap (Desc \cup Plays \cup {None}) = {}
    /\ Garbled # Empty /\ None \notin Plays

VARIABLES
    phase,     \* where player_play is, or "start" before play.0 is read back
    cmd,       \* the command it handles
    store,     \* its parameter
    sdp,       \* sdp->udp and sdp->sprops
    cached,    \* sdp->cache
    fetch,     \* sdp->fetch
    configuring, \* plyr->configuring
    mid,       \* mc->mid is not empty: the monitor has an ID and a title bar
    stopping,  \* do_stop_stream is pending
    starting,  \* do_restart is pending
    started,   \* mc->started
    file,      \* file play.0
    cache,     \* cache file of the .sdp location
    got,       \* history: the description the last command was sent
    newer,     \* history: the cache has changed since it was played from
    failed     \* history: the files the last command failed to store

playerVars == <<phase, cmd, store, sdp, cached, fetch>>
timerVars == <<stopping, starting, started>>
cellVars == <<mid, timerVars, streamVars>>
diskVars == <<file, cache>>
history == <<got, newer, failed>>
vars == <<playerVars, configuring, cellVars, diskVars, history>>

NoSdp == [udp |-> None, sprops |-> None]
NoPlay == [loc |-> "other", enc |-> "other", desc |-> FALSE]

TypeOK ==
    /\ StreamTypeOK
    /\ phase \in {"start", "recv", "play", "open", "write", "fetch",
                  "open_cache", "write_cache", "replay"}
    /\ cmd \in Plays \cup {NoPlay} /\ store \in BOOLEAN
    /\ sdp \in [udp : Desc \cup {None}, sprops : Desc \cup {None}]
    /\ cached \in Desc \cup {None, Empty}
    /\ fetch \in Desc \cup {None, Garbled}
    /\ configuring \in BOOLEAN /\ mid \in BOOLEAN
    /\ stopping \in BOOLEAN /\ starting \in BOOLEAN /\ started \in BOOLEAN
    /\ file \in Plays \cup {None, Empty} /\ cache \in Desc \cup {None, Empty}
    /\ got \in Desc \cup {None} /\ newer \in BOOLEAN /\ failed \subseteq Failing

Init ==
    /\ StreamInit
    /\ phase = "start" /\ cmd = NoPlay /\ store = FALSE
    /\ sdp = NoSdp /\ cached = None /\ fetch = None
    /\ configuring = FALSE /\ mid = FALSE
    /\ stopping = FALSE /\ starting = FALSE /\ started = FALSE
    /\ file = None /\ cache = None
    /\ got = None /\ newer = FALSE /\ failed = {}

----------------------------------------------------------------------------
(* Stream descriptions *)

T == INSTANCE Text

\* The words of a location, as far as they matter to sdp_data_check
Words(loc) ==
    CASE loc = "http" -> <<"http://", "name">>
      [] loc = "sdp" -> <<"http://", "name", ".sdp">>
      [] loc = "sdp_query" -> <<"http://", "name", ".sdp", "?query">>
      [] OTHER -> <<"scheme", "name">>

\* sdp_data_check
IsSdp(c) ==
    /\ T!NstrStartsWith(Words(c.loc), <<"http://">>)
    /\ T!NstrContains(Words(c.loc), <<".sdp">>)

\* Mutant: the text is not looked at.
ParsedUnchecked(text, old) ==
    IF text # None THEN [udp |-> text, sprops |-> text] ELSE old

\* sdp_data_parse: what cannot be parsed leaves udp and sprops alone.
Parsed(text, old) ==
    IF text \in Desc THEN [udp |-> text, sprops |-> text] ELSE old

\* What player_play tells mongrid_play_stream
PlayParams(c, s) ==
    [loc |-> IF s.udp = None THEN c.loc ELSE s.udp, enc |-> c.enc,
     desc |-> c.desc, sprops |-> s.sprops]

ASSUME PlayParamsAssumption ==
    \A c \in Plays, d \in Desc \cup {None}, overlay \in BOOLEAN :
        [PlayParams(c, [udp |-> d, sprops |-> d]) EXCEPT !.desc = overlay]
            \in Params

\* mongrid_play_stream, moncell_play_stream, stream_set_params: the old
\* stream plays on until its timer stops it.  The description is laid over
\* the picture unless the monitor has a title bar to show it in.
PlayStream(p) ==
    /\ StreamSetParams([p EXCEPT !.desc = @ /\ ~mid])
    /\ started' = FALSE /\ stopping' = TRUE /\ starting' = TRUE
    /\ UNCHANGED mid

----------------------------------------------------------------------------
(* player_play *)

\* sdp_data_init and sdp_data_cache
Recv(c, save) ==
    /\ phase' = "play" /\ cmd' = c /\ store' = save /\ fetch' = None
    /\ cached' = IF IsSdp(c) THEN cache ELSE None
    /\ sdp' = IF IsSdp(c) THEN Parsed(cache, NoSdp) ELSE NoSdp
    /\ newer' = FALSE /\ got' = None /\ failed' = {}

RecvPlay(c) ==
    /\ phase = "recv" /\ Recv(c, TRUE)
    /\ UNCHANGED <<configuring, diskVars, cellVars>>

\* player_load_cmd at the start: a file without a command does nothing.
Reload ==
    /\ phase = "start"
    /\ IF file \in Plays THEN Recv(file, FALSE)
       ELSE phase' = "recv" /\ UNCHANGED <<cmd, store, sdp, cached, fetch,
                                           history>>
    /\ UNCHANGED <<configuring, diskVars, cellVars>>

\* Mutant: config mode is not looked at.
PlayAnyway ==
    /\ phase = "play" /\ phase' = IF store THEN "open" ELSE "recv"
    /\ PlayStream(PlayParams(cmd, sdp))
    /\ UNCHANGED <<cmd, store, sdp, cached, fetch, configuring, diskVars, history>>

\* Nothing is played in config mode, but stored and fetched all the same.
Play ==
    /\ phase = "play" /\ phase' = IF store THEN "open" ELSE "recv"
    /\ IF configuring THEN UNCHANGED cellVars ELSE PlayStream(PlayParams(cmd, sdp))
    /\ UNCHANGED <<cmd, store, sdp, cached, fetch, configuring, diskVars, history>>

\* config_store of the command: a file that cannot be opened stays as it is,
\* one that cannot be written stays empty.  The result is ignored.
AfterStore == IF IsSdp(cmd) THEN "fetch" ELSE "recv"

Fails(name) == name \in Failing /\ failed' = failed \cup {name}

OpenPlay ==
    /\ phase = "open"
    /\ \/ phase' = "write" /\ file' = Empty /\ UNCHANGED failed
       \/ Fails("play") /\ phase' = AfterStore /\ UNCHANGED file
    /\ UNCHANGED <<cmd, store, sdp, cached, fetch, configuring, cache, got, newer,
                   cellVars>>

\* Mutant: what was played is stored, not the command.
WritePlayRedirected ==
    /\ phase = "write" /\ phase' = AfterStore
    /\ \/ /\ file' = IF sdp.udp = None THEN cmd ELSE [cmd EXCEPT !.loc = "udp"]
          /\ UNCHANGED failed
       \/ Fails("play") /\ UNCHANGED file
    /\ UNCHANGED <<cmd, store, sdp, cached, fetch, configuring, cache, got, newer,
                   cellVars>>

WritePlay ==
    /\ phase = "write" /\ phase' = AfterStore
    /\ \/ file' = cmd /\ UNCHANGED failed
       \/ Fails("play") /\ UNCHANGED file
    /\ UNCHANGED <<cmd, store, sdp, cached, fetch, configuring, cache, got, newer,
                   cellVars>>

\* Mutant: the description is only looked at when none was cached.
FetchOnlyUncached(text) ==
    /\ phase = "fetch" /\ fetch' = text
    /\ sdp' = Parsed(text, sdp)
    /\ got' = IF text \in Desc THEN text ELSE got
    /\ phase' = IF text \in Desc /\ cached \notin Desc THEN "open_cache"
                ELSE "recv"
    /\ UNCHANGED <<cmd, store, cached, configuring, diskVars, newer, failed,
                   cellVars>>

\* sdp_data_get_http and sdp_data_into_cache.  A server that does not answer
\* in time, or whose answer comes in more than one piece (sdp_write returns
\* the length of the whole, and curl takes that for an error), leaves an
\* empty string: None.
Fetch(text) ==
    /\ phase = "fetch" /\ fetch' = text
    /\ sdp' = Parsed(text, sdp)
    /\ got' = IF text \in Desc THEN text ELSE got
    /\ phase' = IF text \in Desc /\ text # cached THEN "open_cache" ELSE "recv"
    /\ UNCHANGED <<cmd, store, cached, configuring, diskVars, newer, failed,
                   cellVars>>

\* config_store_cache; without a cache directory (config_init) every open
\* fails.
OpenCache ==
    /\ phase = "open_cache"
    /\ \/ phase' = "write_cache" /\ cache' = Empty /\ UNCHANGED failed
       \/ Fails("cache") /\ phase' = "replay" /\ UNCHANGED cache
    /\ UNCHANGED <<cmd, store, sdp, cached, fetch, configuring, file, got, newer,
                   cellVars>>

WriteCache ==
    /\ phase = "write_cache" /\ phase' = "replay"
    /\ \/ cache' = fetch /\ UNCHANGED failed
       \/ Fails("cache") /\ UNCHANGED cache
    /\ UNCHANGED <<cmd, store, sdp, cached, fetch, configuring, file, got, newer,
                   cellVars>>

\* Mutant: the parameter sets are those of the cached description.
ReplayOldSprops ==
    /\ phase = "replay" /\ phase' = "recv"
    /\ PlayStream([PlayParams(cmd, sdp) EXCEPT
                     !.sprops = IF cached \in Desc THEN cached ELSE None])
    /\ UNCHANGED <<cmd, store, sdp, cached, fetch, configuring, diskVars, history>>

\* The new description is played, in config mode too.
Replay ==
    /\ phase = "replay" /\ phase' = "recv"
    /\ PlayStream(PlayParams(cmd, sdp))
    /\ UNCHANGED <<cmd, store, sdp, cached, fetch, configuring, diskVars, history>>

\* The same location is played on another monitor, and there is a new
\* description for it, which is stored or leaves the file empty.
FetchElsewhere(text) ==
    /\ phase = "recv" /\ text # cache /\ cache' = text /\ newer' = TRUE
    /\ UNCHANGED <<playerVars, configuring, cellVars, file, got, failed>>

\* player_monitor, moncell_set_mon: from the server, or from monitor.0, which
\* is read before play.0 and may hold anything.
Monitor(c, titled) ==
    /\ phase \in {"start", "recv"}
    /\ IF configuring THEN UNCHANGED cellVars
       ELSE StreamSetCrop(c[1], c[2]) /\ mid' = titled /\ UNCHANGED timerVars
    /\ UNCHANGED <<playerVars, configuring, diskVars, history>>

\* player_config: 0 enters config mode.  A count leaves it, and the main
\* thread makes the cell anew and reads the files back; timers of the old
\* cell may act on the new one (MonGrid).
ConfigZero ==
    /\ phase = "recv" /\ configuring' = TRUE
    /\ UNCHANGED <<playerVars, cellVars, diskVars, history>>

ConfigCount ==
    /\ phase = "recv" /\ configuring' = FALSE /\ phase' = "start"
    /\ mid' = FALSE /\ started' = FALSE /\ UNCHANGED <<stopping, starting>>
    /\ got' = None /\ newer' = FALSE /\ failed' = {}
    /\ StreamReinit /\ UNCHANGED <<cmd, store, sdp, cached, fetch, diskVars>>

----------------------------------------------------------------------------
(* The cell *)

\* moncell_stop: the stream failed.
Fail ==
    /\ elem # <<>> /\ stopping' = TRUE /\ starting' = TRUE /\ started' = FALSE
    /\ UNCHANGED <<playerVars, configuring, diskVars, history, mid, streamVars>>

DoStopStream ==
    /\ stopping /\ stopping' = FALSE /\ StreamStopPipeline
    /\ UNCHANGED <<starting, started, playerVars, configuring, diskVars, history,
                   mid>>

DoRestart ==
    /\ starting /\ starting' = FALSE /\ started' = TRUE
    /\ IF started THEN UNCHANGED streamVars ELSE StreamStart
    /\ UNCHANGED <<stopping, playerVars, configuring, diskVars, history, mid>>

InPipeline ==
    /\ JitterPushed \/ StreamStats \/ \E w \in Width : StreamMsgPlaying(w)
    /\ UNCHANGED <<playerVars, configuring, timerVars, diskVars, history, mid>>

\* The process is killed and started again.
Crash ==
    /\ phase' = "start" /\ cmd' = NoPlay /\ store' = FALSE
    /\ sdp' = NoSdp /\ cached' = None /\ fetch' = None
    /\ configuring' = FALSE /\ mid' = FALSE
    /\ stopping' = FALSE /\ starting' = FALSE /\ started' = FALSE
    /\ got' = None /\ newer' = FALSE /\ failed' = {}
    /\ StreamReinit /\ UNCHANGED diskVars

Command ==
    \/ \E c \in Plays : RecvPlay(c)
    \/ Reload \/ Play \/ OpenPlay \/ WritePlay
    \/ \E text \in Desc \cup {None, Garbled} : Fetch(text)
    \/ OpenCache \/ WriteCache \/ Replay
    \/ \E text \in Desc \cup {Empty} : FetchElsewhere(text)
    \/ \E c \in Crops, titled \in BOOLEAN : Monitor(c, titled)
    \/ ConfigZero \/ ConfigCount

Next == Command \/ Fail \/ DoStopStream \/ DoRestart \/ InPipeline \/ Crash

Spec == Init /\ [][Next]_vars

----------------------------------------------------------------------------
(* Properties *)

\* A multicast address is only ever used with the parameter sets of its own
\* description, in the parameters of the cell and in its pipeline, also when
\* a new description arrives between a stop and a start (player_play).
DescriptionWhole ==
    /\ params.sprops = IF params.loc \in Desc THEN params.loc ELSE None
    /\ caps # None => caps = from
    /\ from \in Desc => caps = from \/ playing.enc = "MPEG2"

\* Once a play command is done outside config mode, the cell has the
\* parameters of the description its server sent, whatever was cached before;
\* and the cache holds it for the next start, unless the store failed or
\* another monitor has stored another since (sdp_data_into_cache).
FetchedPlays ==
    phase = "recv" /\ got # None /\ ~configuring =>
        /\ params.loc = got /\ params.sprops = got
        /\ cache = got \/ newer \/ "cache" \in failed

\* A restart of the program plays the same stream: between commands, outside
\* config mode, the cell has the parameters that the stored command and the
\* cached description lead to without a server, unless one of the two could
\* not be stored or another monitor has renewed the description.  Only the
\* text overlay may differ, which depends on the monitor's ID at the time.
RestartPlaysSame ==
    LET again == IF file \in Plays
                 THEN PlayParams(file, IF IsSdp(file) THEN Parsed(cache, NoSdp)
                                       ELSE NoSdp)
                 ELSE NoParams
    IN  phase = "recv" /\ ~configuring /\ ~newer /\ failed = {} =>
            params \in {again, [again EXCEPT !.desc = FALSE]}

\* sdp.c:32 says that after an sdp stream is started, the sdp file is fetched
\* again: a command that names one is not over once it is stored (player_play,
\* nstr_contains).
SdpFetched ==
    [][(phase = "open" \/ phase = "write") /\ phase' = "recv"
         => cmd.loc \notin SdpFile]_vars

\* In config mode commands are stored but not played: what the cell plays only
\* changes when the description just fetched is not the one that was cached,
\* since player_play does not look at configuring again before it plays it.
ConfigModeRefuses ==
    [][configuring /\ configuring' /\ params' # params
         => /\ phase = "replay" /\ params'.loc = got
            /\ got \in Desc /\ got # cached]_vars
=============================================================================
