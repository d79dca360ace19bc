------------------------------ MODULE ModeBar ------------------------------
(***************************************************************************)
(* The control bar of modebar.c: what the operator types and does with the *)
(* joystick, the requests this leaves for the status thread, which sends   *)
(* one message a round, and the "display" replies of the server.           *)
(*                                                                         *)
(* grid.lock is held by the status thread while it composes a message, by  *)
(* the command thread while it handles a reply and by the joystick thread, *)
(* but not by key_press, whose writes fall between those of the others.    *)
(*                                                                         *)
(* Only whether a request buffer is empty matters here, not its text.  A   *)
(* camera is named by the monitor whose display reply brought it.  Every   *)
(* message of a button names one here; those of '-' and '+' do not.        *)
(***************************************************************************)
EXTENDS Integers, Sequences

CONSTANTS
    Digit,      \* keys 0 to 9
    EntrySize,  \* sizeof(mbar->entry): 6, room for 5 digits
    Axis,       \* of the joystick: pan, tilt and zoom
    None

ASSUME EntryAssumption == EntrySize \in Nat \ {0} /\ Digit \subseteq 0 .. 9

VARIABLES
    entry,     \* mbar->entry
    mon,       \* mbar->mon, the selected monitor
    cam,       \* mbar->cam, None when it is blank
    wanted,    \* which of cam_req, seq_req and preset_req are not empty
    btn_req,   \* is mbar->btn_req other than REQ_NONE?
    ptz,       \* mbar->ptz
    pressed,   \* per axis: is the joystick off its centre?
    visible,   \* mbar->visible
    showing,   \* is a do_modebar_show timer pending?
    key,       \* where the main thread is in key_press
    cmd,       \* where the command thread is in modebar_display
    reply,     \* its argument: the monitor of the reply
    stat,      \* where the status thread is in modebar_status
    msg,       \* the message it composes
    asked,     \* network: monitors whose query will be answered
    moved,     \* history: the selected camera, when the last ptz message told
               \* it to move; None when it did not, or named another one
    torn       \* history: '.' was pressed in the middle of a reply

input == <<entry, wanted, btn_req>>
joystick == <<ptz, pressed, showing>>
threads == <<key, cmd, reply, stat, msg>>
history == <<moved, torn>>
vars == <<input, mon, cam, joystick, visible, threads, asked, history>>

Monitor == {m \in Seq(Digit) : Len(m) < EntrySize}
Kind == {"switch", "sequence", "preset"}
MsgKind == Kind \cup {"none", "button", "ptz", "query"}
\* A message's race: its monitor was read in the middle of a '.' or after one
\* in the middle of a reply.
NoMessage == [kind |-> "none", mon |-> <<>>, cam |-> None, race |-> FALSE]
\* lens and menu (of a button), preset and ptz messages name a camera.
NamesCam == {"button", "preset", "ptz"}

TypeOK ==
    /\ entry \in Monitor /\ mon \in Monitor /\ reply \in Monitor
    /\ cam \in Monitor \cup {None}
    /\ wanted \subseteq Kind /\ btn_req \in BOOLEAN /\ ptz \in BOOLEAN
    /\ pressed \subseteq Axis
    /\ visible \in BOOLEAN /\ showing \in BOOLEAN
    /\ key \in {"idle", "clear"} /\ cmd \in {"idle", "cam"}
    /\ stat \in {"status", "cam", "clear", "send"}
    /\ msg \in [kind : MsgKind, mon : Monitor, cam : Monitor \cup {None},
                race : BOOLEAN]
    /\ asked \subseteq Monitor
    /\ moved \in [mon : Monitor, cam : Monitor \cup {None}] \cup {None}
    /\ torn \in BOOLEAN

\* modebar_create
Init ==
    /\ entry = <<>> /\ mon = <<>> /\ cam = None
    /\ wanted = {} /\ btn_req = FALSE
    /\ ptz = FALSE /\ pressed = {} /\ showing = FALSE /\ visible = FALSE
    /\ key = "idle" /\ cmd = "idle" /\ reply = <<>>
    /\ stat = "status" /\ msg = NoMessage /\ asked = {}
    /\ moved = None /\ torn = FALSE

\* Is grid.lock held over several steps?
Locked == cmd = "cam" \/ stat \in {"cam", "clear"}

\* The camera told to move, once <<m, c>> are selected
StillMoved(m, c) == IF moved = [mon |-> m, cam |-> c] THEN moved ELSE None

----------------------------------------------------------------------------
(* Keyboard: modebar_press, on the main thread, without the lock *)

\* Mutant: room is left for no terminator.
PressDigitUnterminated(d) ==
    LET kept == IF entry = <<0>> THEN <<>> ELSE entry IN
    /\ key = "idle" /\ visible' = TRUE
    /\ entry' = IF Len(kept) < EntrySize THEN Append(kept, d) ELSE entry
    /\ UNCHANGED <<mon, cam, wanted, btn_req, joystick, threads, asked,
                   history>>

\* A digit replaces a single 0; one that does not fit is dropped.
PressDigit(d) ==
    LET kept == IF entry = <<0>> THEN <<>> ELSE entry IN
    /\ key = "idle" /\ visible' = TRUE
    /\ entry' = IF Len(kept) + 1 < EntrySize THEN Append(kept, d) ELSE entry
    /\ UNCHANGED <<mon, cam, wanted, btn_req, joystick, threads, asked,
                   history>>

PressBackspace ==
    /\ key = "idle" /\ visible' = TRUE
    /\ entry' = IF entry = <<>> THEN entry
                ELSE SubSeq(entry, 1, Len(entry) - 1)
    /\ UNCHANGED <<mon, cam, wanted, btn_req, joystick, threads, asked,
                   history>>

PressTab ==
    /\ key = "idle" /\ visible' = FALSE
    /\ UNCHANGED <<input, mon, cam, joystick, threads, asked, history>>

\* '.': modebar_set_mon writes the monitor, then clears camera and entry.
PressDot ==
    /\ key = "idle" /\ entry # <<>>
    /\ mon' = entry /\ key' = "clear" /\ torn' = (cmd = "cam")
    /\ moved' = StillMoved(entry, cam)
    /\ UNCHANGED <<input, cam, joystick, visible, cmd, reply, stat, msg, asked>>

\* Mutant: the camera of the other monitor stays.
ClearKeepsCam ==
    /\ key = "clear" /\ key' = "idle" /\ entry' = <<>> /\ visible' = TRUE
    /\ UNCHANGED <<mon, cam, wanted, btn_req, joystick, cmd, reply, stat, msg,
                   asked, history>>

ClearCam ==
    /\ key = "clear" /\ key' = "idle"
    /\ cam' = None /\ entry' = <<>> /\ visible' = TRUE
    /\ moved' = StillMoved(mon, None)
    /\ UNCHANGED <<mon, wanted, btn_req, joystick, cmd, reply, stat, msg, asked,
                   torn>>

\* Enter, '*' and '/' with a monitor selected, '/' with a camera besides:
\* modebar_set_cam, modebar_set_seq and modebar_set_preset.  The entry goes
\* to the request buffer, and an empty one empties it, but '*' means "pause".
PressRequest(kind) ==
    /\ key = "idle" /\ entry' = <<>> /\ visible' = TRUE
    /\ wanted' = IF mon = <<>> \/ (kind = "preset" /\ cam = None) THEN wanted
                 ELSE IF entry = <<>> /\ kind # "sequence" THEN wanted \ {kind}
                 ELSE wanted \cup {kind}
    /\ UNCHANGED <<mon, cam, btn_req, joystick, threads, asked, history>>

\* '-' and '+': modebar_set_req, with or without a monitor
PressPrevNext ==
    /\ key = "idle" /\ btn_req' = TRUE /\ visible' = TRUE
    /\ UNCHANGED <<entry, mon, cam, wanted, joystick, threads, asked, history>>

----------------------------------------------------------------------------
(* Joystick: mongrid_joy_event, on its own thread *)

\* modebar_joy_axis: an axis off its centre asks for ptz messages
JoyAxis(a) ==
    /\ ~Locked /\ showing' = TRUE
    /\ \/ pressed' = pressed \cup {a} /\ ptz' = TRUE
       \/ pressed' = pressed \ {a} /\ UNCHANGED ptz
    /\ UNCHANGED <<input, mon, cam, visible, threads, asked, history>>

JoyButton ==
    /\ ~Locked /\ showing' = TRUE /\ btn_req' = TRUE
    /\ UNCHANGED <<entry, wanted, mon, cam, ptz, pressed, visible, threads,
                   asked, history>>

\* A read error: the joystick is gone, its last position stays.
JoyLost ==
    /\ ~Locked /\ visible' = FALSE
    /\ UNCHANGED <<input, mon, cam, joystick, threads, asked, history>>

\* Timer on the main thread
DoModebarShow ==
    /\ key = "idle" /\ showing /\ showing' = FALSE /\ visible' = TRUE
    /\ UNCHANGED <<input, mon, cam, ptz, pressed, threads, asked, history>>

----------------------------------------------------------------------------
(* Status thread: mongrid_status, then cxn_send *)

\* Mutant: buttons come first.
RankButtonFirst ==
    [button |-> 1, switch |-> 2, sequence |-> 3, preset |-> 4, ptz |-> 5,
     query |-> 6]

\* The order in which modebar_status looks at the requests
Rank ==
    [switch |-> 1, button |-> 2, sequence |-> 3, preset |-> 4, ptz |-> 5,
     query |-> 6]

Waiting ==
    {"query"} \cup wanted \cup (IF btn_req THEN {"button"} ELSE {})
              \cup (IF ptz THEN {"ptz"} ELSE {})

Choice == CHOOSE k \in Waiting : \A j \in Waiting : Rank[k] <= Rank[j]

\* modebar_status chooses a message and copies the monitor.
Compose ==
    /\ stat = "status" /\ ~Locked /\ visible /\ mon # <<>>
    /\ stat' = "cam"
    /\ msg' = [kind |-> Choice, mon |-> mon, cam |-> None,
               race |-> torn \/ key = "clear"]
    /\ UNCHANGED <<input, mon, cam, joystick, visible, key, cmd, reply, asked,
                   history>>

\* Then it copies the camera, when the message names one.  A ptz message tells
\* it where the joystick is.
ReadCam ==
    /\ stat = "cam" /\ stat' = "clear"
    /\ msg' = IF msg.kind \in NamesCam THEN [msg EXCEPT !.cam = cam] ELSE msg
    /\ moved' = IF msg.kind # "ptz" THEN moved
                ELSE IF pressed # {} /\ msg.mon = mon
                THEN [mon |-> mon, cam |-> cam] ELSE None
    /\ UNCHANGED <<input, mon, cam, joystick, visible, key, cmd, reply, asked,
                   torn>>

\* Mutants: a sequence request is sent again and again, or the last ptz
\* message is sent with the joystick off its centre.
ClearRequestButSequence ==
    /\ stat = "clear" /\ stat' = "send"
    /\ wanted' = wanted \ ({msg.kind} \ {"sequence"})
    /\ btn_req' = (btn_req /\ msg.kind # "button")
    /\ ptz' = (ptz /\ (msg.kind = "ptz" => pressed # {}))
    /\ msg' = IF msg.kind = "query" THEN msg ELSE NoMessage
    /\ UNCHANGED <<entry, mon, cam, pressed, showing, visible, key, cmd, reply,
                   asked, history>>
ClearRequestPtzOnce ==
    /\ stat = "clear" /\ stat' = "send"
    /\ wanted' = wanted \ {msg.kind}
    /\ btn_req' = (btn_req /\ msg.kind # "button")
    /\ ptz' = (ptz /\ msg.kind # "ptz")
    /\ msg' = IF msg.kind = "query" THEN msg ELSE NoMessage
    /\ UNCHANGED <<entry, mon, cam, pressed, showing, visible, key, cmd, reply,
                   asked, history>>

\* What went into the message is cleared; ptz once every axis is centred.  Of
\* the message only a query matters from here on.
ClearRequest ==
    /\ stat = "clear" /\ stat' = "send"
    /\ wanted' = wanted \ {msg.kind}
    /\ btn_req' = (btn_req /\ msg.kind # "button")
    /\ ptz' = (ptz /\ (msg.kind = "ptz" => pressed # {}))
    /\ msg' = IF msg.kind = "query" THEN msg ELSE NoMessage
    /\ UNCHANGED <<entry, mon, cam, pressed, showing, visible, key, cmd, reply,
                   asked, history>>

\* cxn_send: the datagram arrives or is lost, and only a query is answered.
Send ==
    /\ stat = "send" /\ stat' = "status" /\ msg' = NoMessage
    /\ \/ msg.kind = "query" /\ asked' = asked \cup {msg.mon}
       \/ UNCHANGED asked
    /\ UNCHANGED <<input, mon, cam, joystick, visible, key, cmd, reply, history>>

----------------------------------------------------------------------------
(* Command thread: mongrid_display, for a reply of the server *)

DisplayMon(m) ==
    /\ cmd = "idle" /\ ~Locked /\ m \in asked
    /\ cmd' = "cam" /\ reply' = m /\ asked' = asked \ {m}
    /\ mon' = m /\ torn' = FALSE /\ moved' = StillMoved(m, cam)
    /\ UNCHANGED <<input, cam, joystick, visible, key, stat, msg>>

\* The monitor may show no camera.
DisplayCam ==
    /\ cmd = "cam" /\ cmd' = "idle" /\ cam' \in {reply, None} /\ reply' = <<>>
    /\ moved' = StillMoved(mon, cam')
    /\ UNCHANGED <<input, mon, joystick, visible, key, stat, msg, asked, torn>>

----------------------------------------------------------------------------
Press ==
    \/ \E d \in Digit : PressDigit(d)
    \/ PressBackspace \/ PressTab \/ PressDot \/ PressPrevNext
    \/ \E kind \in Kind : PressRequest(kind)

Joystick == (\E a \in Axis : JoyAxis(a)) \/ JoyButton \/ JoyLost

StatusThread == Compose \/ ReadCam \/ ClearRequest \/ Send

Next ==
    \/ Press \/ ClearCam \/ DoModebarShow
    \/ Joystick
    \/ StatusThread
    \/ (\E m \in asked : DisplayMon(m)) \/ DisplayCam

Spec == Init /\ [][Next]_vars

\* Every thread goes on with what it has begun; the status thread finds the
\* connection established again and again.
Fairness ==
    /\ WF_vars(ClearCam) /\ WF_vars(DoModebarShow) /\ WF_vars(DisplayCam)
    /\ WF_vars(StatusThread)

FairSpec == Spec /\ Fairness

----------------------------------------------------------------------------
(* Properties *)

\* The selected camera, once told to move, has a further ptz message due as
\* long as it stays selected: ptz is cleared by a message that stops that very
\* camera and by no other, whatever requests come between (modebar_ptz).  A
\* camera left moving by '.' or by a display reply is told nothing more.
MovingFollowed == moved # None => ptz /\ moved = [mon |-> mon, cam |-> cam]

\* The camera that a lens, menu, preset or ptz message names is blank or one
\* the server reported for the monitor it names, unless '.' was pressed in the
\* middle of a reply, or the message begun in the middle of a '.': key_press
\* takes no lock, and these two are its only races.
CamOfMon == ~msg.race => msg.cam \in {None, msg.mon}

\* A switch waits for nothing else: it is sent, even if the joystick never
\* rests, unless the bar is hidden (modebar_status).
SwitchSent == "switch" \in wanted ~> "switch" \notin wanted \/ ~visible

\* When the operator rests, no request is left and none is sent again.
Drained ==
    \/ []<><<Press \/ Joystick>>_vars
    \/ <>[](visible /\ mon # <<>> => wanted = {} /\ ~btn_req)
=============================================================================
