------------------------------ MODULE Packets ------------------------------
(***************************************************************************)
(* The packets monstream reads and writes: the commands of a packet, split *)
(* and handled in the buffer they were received in (player.c), the files   *)
(* they are stored in and read back from, and the packet of status         *)
(* messages, with one message of the control bar behind them (mongrid.c,   *)
(* modebar.c).                                                             *)
(*                                                                         *)
(* A word, a digit or a letter is one character here, and the sizes of the *)
(* buffers are smaller accordingly.  "play" stands for both commands that  *)
(* are stored and "display" for those that are not; Player has "config".   *)
(* Of a cell there is the camera it was told, the one field that a status  *)
(* message gives back.  A file is written in one step and never fails to   *)
(* be: Player and SdpPlay have the moments in between and the failures.    *)
(*                                                                         *)
(* Some commands make the code write outside an array: elog_cmd copies     *)
(* those it logs to one of its own, however long they are, and nstr_z      *)
(* terminates those it rejects, even where the buffer ends.  What becomes  *)
(* of the process then depends on what lies there.  fault says that it has *)
(* happened, the model goes on as if nothing was hit, or with a crash, and *)
(* the properties promise nothing until the process is started again.      *)
(***************************************************************************)
EXTENDS Text, SequencesExt

CONSTANTS
    Packet,      \* packets that may arrive
    Grids,       \* numbers of cells the grid may have
    RecvSize,    \* buffer of player_read_cmds
    LoadSize,    \* buffer of player_load_cmd
    LogSize,     \* array of elog_cmd
    StatusSize,  \* buffer of player_send_status
    CamSize,     \* st->cam_id
    NumberSize,  \* buffer of nstr_parse_u32
    Requests,    \* requests the control bar may have, "none" among them
    None

ASSUME SizeAssumption ==
    /\ {RecvSize, LoadSize, LogSize, StatusSize, CamSize, NumberSize}
         \subseteq Nat \ {0}
    /\ 2 + NumberSize <= LoadSize /\ LogSize <= LoadSize
    /\ LoadSize <= RecvSize

\* What packets are made of, and monitor indices: numbers of one digit
Char == {NUL} \cup UNION {Range(packet) : packet \in Packet}
Index == 0 .. Len(Digit) - 1

ASSUME PacketAssumption ==
    Packet \subseteq Seq(Char) /\ Grids \subseteq 1 .. Len(Digit)

VARIABLES
    mem,      \* the buffer
    str,      \* the commands in it that are still to be handled
    store,    \* parameter of player_proc_cmds: were they received?
    next,     \* player_load_cmds: the file to read next
    n_cells,  \* grid.n_cells
    cam,      \* per cell: st->cam_id
    file,     \* files "play.i"
    fault,    \* has the process written outside an array?
    todo,     \* history: the commands still to be handled, as they were sent
    sent      \* history: the packet just sent, and what it was about

readVars == <<mem, str, store, next, todo>>
vars == <<readVars, n_cells, cam, file, fault, sent>>

Address == 0 .. RecvSize - 1
Empty == NstrInitN(0, RecvSize, 0)

Init ==
    /\ mem = [a \in Address |-> NUL] /\ str = Empty /\ store = FALSE
    /\ next = 0 /\ n_cells \in Grids
    /\ cam = [i \in Index |-> <<>>] /\ file = [i \in Index |-> <<>>]
    /\ fault = FALSE /\ sent = None /\ todo = <<>>

----------------------------------------------------------------------------
(* Commands *)

\* What a command says, read without the buffer, and whether handling it
\* writes outside an array.  full: there is no place behind it in the buffer.
Parsed(text, keep, full) ==
    LET fields == Pieces(text, US)
        At(k) == IF k \in DOMAIN fields THEN fields[k] ELSE <<>>
        index == NstrParseU32(NumberSize, At(2))
        long == Len(text) >= LogSize
    IN  IF At(1) = <<"play">> /\ index >= 0
        THEN [kind |-> "play", index |-> index,
              cam |-> NstrToCstr(CamSize, At(3)), keep |-> keep, over |-> long]
        ELSE [kind |-> "other", index |-> 0, cam |-> <<>>, keep |-> keep,
              over |-> IF At(1) = <<"display">> THEN long ELSE full]

\* The commands of a text for which there is so much room
Commands(text, keep, room) ==
    LET pieces == Pieces(text, RS)
        Full(k) == /\ k = Len(pieces) /\ Len(text) = room
                   /\ text[Len(text)] # RS
    IN  [k \in DOMAIN pieces |-> Parsed(pieces[k], keep, Full(k))]

\* What read and recvfrom put into a buffer of so many characters
Filled(text) ==
    [a \in Address |-> IF a < Len(text) THEN text[a + 1] ELSE mem[a]]

Loaded == next = n_cells

\* cxn_recv: the rest of a longer packet is lost, and behind a shorter one
\* the buffer holds what it held before.
Recv(packet) ==
    LET text == NstrCat(RecvSize, <<>>, packet) IN
    /\ Loaded /\ str.len = 0
    /\ mem' = Filled(text) /\ str' = NstrInitN(0, RecvSize, Len(text))
    /\ store' = TRUE /\ sent' = None /\ todo' = Commands(text, TRUE, RecvSize)
    /\ UNCHANGED <<next, n_cells, cam, file, fault>>

\* player_load_cmd, config_load
Load ==
    LET text == NstrCat(LoadSize, <<>>, file[next]) IN
    /\ ~Loaded /\ str.len = 0 /\ next' = next + 1
    /\ mem' = Filled(text) /\ str' = NstrInitN(0, LoadSize, Len(text))
    /\ store' = FALSE /\ sent' = None /\ todo' = Commands(text, FALSE, LoadSize)
    /\ UNCHANGED <<n_cells, cam, file, fault>>

\* A command that is logged is copied, with a terminator.
ElogCmd(cmd) == fault' = (fault \/ cmd.len >= LogSize)

\* player_play for monitor i: the cell is told, and the text is stored.
Play(cmd, i) ==
    /\ ElogCmd(cmd)
    /\ cam' = IF i < n_cells
              THEN [cam EXCEPT ![i] = NstrToCstr(CamSize, Field(mem, cmd, 3))]
              ELSE cam
    /\ file' = IF store THEN [file EXCEPT ![i] = Chars(mem, cmd)] ELSE file
    /\ mem' = mem

Display(cmd) == ElogCmd(cmd) /\ UNCHANGED <<mem, cam, file>>

\* "Invalid command" and "Invalid monitor": the text is printed, for which it
\* is terminated in the buffer, or just behind it.
Invalid(cmd) ==
    /\ IF cmd.len < str.room THEN mem' = NstrZ(mem, cmd) /\ fault' = fault
       ELSE mem' = mem /\ fault' = TRUE
    /\ UNCHANGED <<cam, file>>

Monitor(cmd) == NstrParseU32(NumberSize, Field(mem, cmd, 2))

\* player_proc_cmds, player_proc_cmd
ProcCmd ==
    LET cmd == NstrChop(mem, str, RS)
        name == Chars(mem, NstrChop(mem, cmd, US))
    IN  /\ str.len > 0 /\ str' = NstrSplit(mem, str, RS)
        /\ IF name = <<"play">> /\ Monitor(cmd) >= 0
           THEN Play(cmd, Monitor(cmd))
           ELSE IF name = <<"display">> THEN Display(cmd)
           ELSE Invalid(cmd)
        /\ sent' = None /\ todo' = IF todo = <<>> THEN <<>> ELSE Tail(todo)
        /\ UNCHANGED <<store, next, n_cells>>

\* The process is killed and started again, with its files as they were.
Crash ==
    /\ mem' = [a \in Address |-> NUL] /\ str' = Empty /\ store' = FALSE
    /\ next' = 0 /\ cam' = [i \in Index |-> <<>>]
    /\ fault' = FALSE /\ sent' = None /\ todo' = <<>>
    /\ UNCHANGED <<n_cells, file>>

----------------------------------------------------------------------------
(* Status *)

\* Mutant: monitors are counted from one.
MoncellStatusFromOne(i, failed) ==
    <<"status", US, Digit[i + 2], US>> \o cam[i]
    \o <<US>> \o (IF failed THEN <<"failed">> ELSE <<>>)
    \o <<US>> \o (IF n_cells = 1 THEN <<"full">> ELSE <<>>) \o <<RS>>

MoncellStatus(i, failed) ==
    <<"status", US, Digit[i + 1], US>> \o cam[i]
    \o <<US>> \o (IF failed THEN <<"failed">> ELSE <<>>)
    \o <<US>> \o (IF n_cells = 1 THEN <<"full">> ELSE <<>>) \o <<RS>>

\* A message of the control bar: its name and fields.  The bar's monitor and
\* camera are "m" and "c"; what the request says besides is in its name.
Lens == {"iris_stop", "iris_open", "iris_close", "focus_stop", "focus_near",
         "focus_far", "wiper"}
Menu == {"open", "enter", "cancel"}

ASSUME RequestAssumption ==
    Requests \subseteq {"none", "switch", "sequence", "preset", "ptz",
                       "previous", "next"} \cup Lens \cup Menu

ModebarSwitch == <<"switch", "m", "camera">>
ModebarSequence == <<"sequence", "m", "number">>
ModebarPreset == <<"preset", "m", "c", "recall", "number">>
ModebarPtz == <<"ptz", "m", "c", "pan", "tilt", "zoom">>
ModebarQuery == <<"query", "m">>

ModebarButton(r) ==
    CASE r \in {"previous", "next"} -> <<r, "m">>
      [] r \in Lens -> <<"lens", "m", "c", r>>
      [] r \in Menu -> <<"menu", "m", "c", r>>

ModebarMessage(r) ==
    CASE r = "switch" -> ModebarSwitch
      [] r = "sequence" -> ModebarSequence
      [] r = "preset" -> ModebarPreset
      [] r = "ptz" -> ModebarPtz
      [] r = "none" -> ModebarQuery
      [] OTHER -> ModebarButton(r)

\* Its fields are appended one by one, the separators in between.
AppendMessage(text, fields) ==
    FoldLeft(LAMBDA t, k : NstrCat(StatusSize, NstrCat(StatusSize, t, <<fields[k]>>),
                                   IF k < Len(fields) THEN <<US>> ELSE <<RS>>),
             text, [k \in DOMAIN fields |-> k])

\* mongrid_status: a message for each cell
AppendCells(failed) ==
    FoldLeft(LAMBDA t, i : NstrCat(StatusSize, t, MoncellStatus(i, failed[i])),
             <<>>, [i \in 1 .. n_cells |-> i - 1])

\* player_send_status, while the control bar has request r, or is hidden or
\* without a monitor: None.  ModeBar has how requests come and go.  Bound:
\* nothing is sent again until something else has happened.
SendStatus(failed, r) ==
    LET cells == AppendCells(failed) IN
    /\ sent = None
    /\ sent' = [text |-> IF r = None THEN cells
                         ELSE AppendMessage(cells, ModebarMessage(r)),
                failed |-> failed, request |-> r]
    /\ UNCHANGED <<readVars, n_cells, cam, file, fault>>

Next ==
    \/ \E packet \in Packet : Recv(packet)
    \/ Load \/ ProcCmd \/ Crash
    \/ \E failed \in [0 .. n_cells - 1 -> BOOLEAN], r \in Requests \cup {None} :
         SendStatus(failed, r)

Spec == Init /\ [][Next]_vars

----------------------------------------------------------------------------
(* Properties *)

\* Every variable keeps its type; what is still to be split lies in the buffer
\* (nstr_split), and a camera and a file in their arrays (nstr_to_cstr).
TypeOK ==
    /\ mem \in [Address -> Char] /\ str \in [at : Nat, room : Nat, len : Nat]
    /\ str.at + str.room <= RecvSize /\ str.len <= str.room
    /\ store \in BOOLEAN /\ fault \in BOOLEAN
    /\ next \in 0 .. n_cells /\ n_cells \in Grids
    /\ cam \in [Index -> Seq(Char)] /\ file \in [Index -> Seq(Char)]
    /\ \A i \in Index : Len(cam[i]) < CamSize /\ Len(file[i]) <= RecvSize

Q == INSTANCE CommandQueue WITH
        Cam <- Seq(Char), cells <- n_cells, queue <- todo, shown <- cam,
        stored <- [i \in Index |-> IF file[i] = <<>> THEN None
                                   ELSE Parsed(file[i], TRUE, FALSE)]

ASSUME NoneAssumption == None \notin Q!Command

\* As long as the process has written nothing outside an array, which only a
\* logged command too long for elog_cmd or a rejected one at the very end of
\* the buffer makes it do, the commands of a packet are carried out in order
\* and each as it was sent, although they share a buffer that holds older
\* packets and is written to in between; what they stored comes back after a
\* restart, and never for another monitor (player_proc_cmds,
\* player_load_cmds).
CommandsDone == Q!Spec

\* What a status packet says of a monitor is true of it: its message n is
\* about monitor n, whatever was cut off behind it (mongrid_status).
StatusTells ==
    sent # None /\ ~fault =>
        LET whole == WholePieces(sent.text, RS)
        IN  \A k \in 1 .. Least(Len(whole), n_cells) :
              LET fields == Pieces(whole[k], US)
              IN  /\ fields[1] = <<"status">> /\ fields[2] = <<Digit[k]>>
                  /\ fields[3] = cam[k - 1]
                  /\ fields[4] = IF sent.failed[k - 1] THEN <<"failed">>
                                 ELSE <<>>

LongestStatus == 7 + (CamSize - 1) + 1 + (IF n_cells = 1 THEN 1 ELSE 0)
LongestMessage == 12

\* With few enough monitors nothing is cut off: all of them are reported, and
\* the request of the control bar, which is forgotten once its message is
\* written, goes out with all its fields (player_send_status).
RequestSent ==
    /\ sent # None /\ ~fault
    /\ n_cells * LongestStatus + LongestMessage <= StatusSize
    => LET whole == WholePieces(sent.text, RS)
           Fields(m) == [k \in DOMAIN m |-> <<m[k]>>]
       IN  IF sent.request = None THEN Len(whole) = n_cells
           ELSE /\ Len(whole) = n_cells + 1
                /\ Pieces(Last(whole), US) =
                     Fields(ModebarMessage(sent.request))
=============================================================================
