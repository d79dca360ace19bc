--------------------------- MODULE ModeBarProofs ---------------------------
(***************************************************************************)
(* Proofs about ModeBar: its types, that a moved camera is followed to its *)
(* stop while it stays selected, and that a message only names a camera    *)
(* with its own monitor, for every entry size and any number of axes.      *)
(***************************************************************************)
EXTENDS ModeBar, SequenceTheorems, TLAPS

\* The command and the status thread hold the lock in turn.
LockOK == ~(cmd = "cam" /\ stat \in {"cam", "clear"})

\* While the status thread holds the lock the joystick does not move, so the
\* ptz message it clears is still the joystick's position.
PtzOK ==
    /\ stat = "cam" /\ msg.kind = "ptz" => ptz
    /\ stat = "clear" /\ msg.kind = "ptz" /\ moved # None => pressed # {}

\* In the middle of a reply its monitor is selected, but for a '.'.
ReplyOK == cmd = "cam" /\ ~torn => mon = reply

\* Outside '.' and a reply, the camera shown belongs to the monitor shown, but
\* for a '.' in the middle of a reply.
ShownOK == key = "idle" /\ cmd = "idle" /\ ~torn => cam \in {None, mon}

\* A message about to name a camera has the monitor it belongs to.
BeforeCam == stat = "cam" /\ ~msg.race => cam \in {None, msg.mon}

CamInv == LockOK /\ ReplyOK /\ ShownOK /\ BeforeCam /\ CamOfMon

IndInv == TypeOK /\ PtzOK /\ MovingFollowed /\ CamInv

\* A fresh control bar.
THEOREM InitInv == Init => IndInv
<1> SUFFICES ASSUME Init PROVE IndInv
  OBVIOUS
<1>1. <<>> \in Monitor
  BY EntryAssumption DEF Monitor
<1>2. NoMessage \in [kind : MsgKind, mon : Monitor,
                     cam : Monitor \cup {None}, race : BOOLEAN]
  BY <1>1 DEF NoMessage, MsgKind
<1>3. TypeOK
  BY <1>1, <1>2 DEF Init, TypeOK
<1>4. PtzOK /\ MovingFollowed
  BY DEF Init, PtzOK, MovingFollowed
<1>5. CamInv
  BY DEF Init, CamInv, LockOK, ReplyOK, ShownOK, BeforeCam, CamOfMon, NoMessage
<1> QED BY <1>3, <1>4, <1>5 DEF IndInv

\* modebar_status always finds something to send: a query, if nothing else.
LEMMA ChoiceWaits ==
  ASSUME wanted \subseteq Kind
  PROVE  Choice \in Waiting
<1>1. \E k \in Waiting : \A j \in Waiting : Rank[k] <= Rank[j]
  <2>1. Waiting \subseteq {"switch", "button", "sequence", "preset", "ptz",
                           "query"}
    BY DEF Waiting, Kind
  <2>2. CASE "switch" \in Waiting
    BY <2>1, <2>2 DEF Rank
  <2>3. CASE "switch" \notin Waiting /\ "button" \in Waiting
    BY <2>1, <2>3 DEF Rank
  <2>4. CASE {"switch", "button"} \cap Waiting = {} /\ "sequence" \in Waiting
    BY <2>1, <2>4 DEF Rank
  <2>5. CASE /\ {"switch", "button", "sequence"} \cap Waiting = {}
             /\ "preset" \in Waiting
    BY <2>1, <2>5 DEF Rank
  <2>6. CASE /\ {"switch", "button", "sequence", "preset"} \cap Waiting = {}
             /\ "ptz" \in Waiting
    BY <2>1, <2>6 DEF Rank
  <2>7. CASE {"switch", "button", "sequence", "preset", "ptz"} \cap Waiting = {}
    BY <2>1, <2>7 DEF Rank, Waiting
  <2> QED BY <2>2, <2>3, <2>4, <2>5, <2>6, <2>7
<1> QED BY <1>1 DEF Choice

\* A digit fits the entry when there is room for it and the terminator.
LEMMA DigitFits ==
  ASSUME entry \in Monitor, NEW d \in Digit
  PROVE  LET kept == IF entry = <<0>> THEN <<>> ELSE entry
         IN  Len(kept) + 1 < EntrySize => Append(kept, d) \in Monitor
<1>1. <<>> \in Monitor
  BY EntryAssumption DEF Monitor
<1>2. ASSUME NEW s \in Monitor, Len(s) + 1 < EntrySize
      PROVE  Append(s, d) \in Monitor
  BY <1>2 DEF Monitor
<1> QED BY <1>1, <1>2

\* An entry without its last digit is one.
LEMMA BackspaceFits ==
  ASSUME entry \in Monitor, entry # <<>>
  PROVE  SubSeq(entry, 1, Len(entry) - 1) \in Monitor
<1>1. /\ entry \in Seq(Digit) /\ Len(entry) \in Nat /\ Len(entry) # 0
      /\ Len(entry) < EntrySize /\ EntrySize \in Nat
  BY EntryAssumption DEF Monitor
<1>2. PICK n \in Nat : n = Len(entry) - 1
  BY <1>1
<1>3. \A i \in 1 .. n : entry[i] \in Digit
  BY <1>1, <1>2
<1>4. /\ SubSeq(entry, 1, n) \in Seq(Digit)
      /\ Len(SubSeq(entry, 1, n)) = IF 1 <= n THEN n - 1 + 1 ELSE 0
  BY <1>3, SubSeqProperties
<1>5. Len(SubSeq(entry, 1, n)) = n /\ n < EntrySize
  BY <1>1, <1>2, <1>4
<1> QED BY <1>2, <1>4, <1>5 DEF Monitor

\* Every step keeps the types.
LEMMA TypeStep == ASSUME TypeOK, [Next]_vars PROVE TypeOK'
<1> USE DEF TypeOK, input, joystick, threads, history
<1> DEFINE Cam == Monitor \cup {None}
           Msg == [kind : MsgKind, mon : Monitor, cam : Cam, race : BOOLEAN]
<1>a. ASSUME NEW m, NEW c
      PROVE  StillMoved(m, c) \in [mon : Monitor, cam : Cam] \cup {None}
  BY DEF StillMoved
<1>0. <<>> \in Monitor
  BY EntryAssumption DEF Monitor
<1>1. CASE Press
  <2>1. ASSUME NEW d \in Digit, PressDigit(d) PROVE TypeOK'
    <3>1. LET kept == IF entry = <<0>> THEN <<>> ELSE entry
          IN  Len(kept) + 1 < EntrySize => Append(kept, d) \in Monitor
      BY DigitFits
    <3>2. entry' \in Monitor
      BY <2>1, <3>1 DEF PressDigit
    <3> QED BY <2>1, <3>2 DEF PressDigit
  <2>2. CASE PressBackspace
    BY <2>2, BackspaceFits DEF PressBackspace
  <2>a. CASE PressDot
    <3>1. moved' \in [mon : Monitor, cam : Cam] \cup {None}
      BY <2>a, <1>a DEF PressDot
    <3> QED BY <2>a, <3>1 DEF PressDot
  <2>3. CASE PressTab \/ PressPrevNext
    BY <2>3 DEF PressTab, PressPrevNext
  <2>4. ASSUME NEW kind \in Kind, PressRequest(kind) PROVE TypeOK'
    BY <2>4, <1>0 DEF PressRequest
  <2> QED BY <1>1, <2>1, <2>2, <2>a, <2>3, <2>4 DEF Press
<1>2. CASE ClearCam \/ DoModebarShow
  BY <1>2, <1>0, <1>a DEF ClearCam, DoModebarShow
<1>3. CASE Joystick
  BY <1>3 DEF Joystick, JoyAxis, JoyButton, JoyLost
<1>4. CASE Compose
  <2>1. Choice \in MsgKind
    BY ChoiceWaits DEF Waiting, MsgKind
  <2>2. msg' = [kind |-> Choice, mon |-> mon, cam |-> None,
                race |-> torn \/ key = "clear"]
    BY <1>4 DEF Compose
  <2>3. msg' \in Msg
    BY <2>1, <2>2
  <2> QED BY <1>4, <2>3 DEF Compose
<1>b. CASE ReadCam
  <2>1. msg' = [msg EXCEPT !.cam = cam] \/ msg' = msg
    BY <1>b DEF ReadCam
  <2>2. msg' \in Msg
    BY <2>1
  <2>3. moved' \in [mon : Monitor, cam : Cam] \cup {None}
    BY <1>b DEF ReadCam
  <2> QED BY <1>b, <2>2, <2>3 DEF ReadCam
<1>5. CASE ClearRequest
  <2>1. NoMessage \in Msg
    BY <1>0 DEF NoMessage, MsgKind
  <2> QED BY <1>5, <2>1 DEF ClearRequest
<1>6. CASE Send
  <2>1. NoMessage \in Msg
    BY <1>0 DEF NoMessage, MsgKind
  <2> QED BY <1>6, <2>1 DEF Send
<1>7. ASSUME NEW m \in asked, DisplayMon(m) PROVE TypeOK'
  BY <1>7, <1>a DEF DisplayMon
<1>8. CASE DisplayCam
  BY <1>8, <1>0, <1>a DEF DisplayCam
<1>9. CASE UNCHANGED vars
  BY <1>9 DEF vars
<1> QED BY <1>1, <1>2, <1>3, <1>4, <1>b, <1>5, <1>6, <1>7, <1>8, <1>9
           DEF Next, StatusThread

\* Every step keeps what relates the joystick to the messages about it.
LEMMA MovingStep ==
  ASSUME IndInv, [Next]_vars
  PROVE  PtzOK' /\ MovingFollowed'
<1> USE DEF IndInv, PtzOK, MovingFollowed, input, joystick, threads, history,
            StillMoved
<1>1. CASE Press
  BY <1>1 DEF Press, PressDigit, PressBackspace, PressTab, PressDot,
              PressPrevNext, PressRequest
<1>2. CASE ClearCam \/ DoModebarShow \/ DisplayCam
  BY <1>2 DEF ClearCam, DoModebarShow, DisplayCam
<1>3. CASE Joystick
  BY <1>3 DEF Joystick, JoyAxis, JoyButton, JoyLost, Locked
<1>4. CASE Compose
  <2>1. Choice = "ptz" => ptz
    <3>1. Choice \in Waiting /\ "ptz" \notin Kind
      BY ChoiceWaits DEF TypeOK, Kind
    <3> QED BY <3>1 DEF Waiting, TypeOK
  <2>2. /\ msg'.kind = Choice /\ stat' = "cam"
        /\ UNCHANGED <<ptz, pressed, moved, mon, cam>>
    BY <1>4 DEF Compose
  <2> QED BY <2>1, <2>2
<1>b. CASE ReadCam
  <2>1. msg'.kind = msg.kind /\ stat' = "clear"
    BY <1>b DEF ReadCam, TypeOK
  <2>2. CASE msg.kind # "ptz"
    BY <1>b, <2>1, <2>2 DEF ReadCam
  <2>3. CASE msg.kind = "ptz"
    BY <1>b, <2>1, <2>3 DEF ReadCam
  <2> QED BY <2>2, <2>3
<1>5. CASE ClearRequest
  BY <1>5 DEF ClearRequest, NoMessage
<1>6. CASE Send
  BY <1>6 DEF Send, NoMessage
<1>7. ASSUME NEW m \in asked, DisplayMon(m) PROVE PtzOK' /\ MovingFollowed'
  BY <1>7 DEF DisplayMon
<1>8. CASE UNCHANGED vars
  BY <1>8 DEF vars
<1> QED BY <1>1, <1>2, <1>3, <1>4, <1>b, <1>5, <1>6, <1>7, <1>8
           DEF Next, StatusThread

\* Every step keeps what relates a monitor to its camera, where they are shown
\* and where a message names them.
LEMMA CameraStep == ASSUME IndInv, [Next]_vars PROVE CamInv'
<1> USE DEF IndInv, CamInv, LockOK, ReplyOK, ShownOK, BeforeCam, CamOfMon,
            input, joystick, threads, history
<1>1. CASE Press
  BY <1>1 DEF Press, PressDigit, PressBackspace, PressTab, PressDot,
              PressPrevNext, PressRequest
<1>2. CASE ClearCam \/ DoModebarShow
  BY <1>2 DEF ClearCam, DoModebarShow
<1>3. CASE Joystick
  BY <1>3 DEF Joystick, JoyAxis, JoyButton, JoyLost
<1>4. CASE Compose
  BY <1>4 DEF Compose, Locked, TypeOK
<1>b. CASE ReadCam
  <2>1. msg'.mon = msg.mon /\ msg'.race = msg.race /\ msg'.cam \in {msg.cam, cam}
    BY <1>b DEF ReadCam, TypeOK
  <2> QED BY <1>b, <2>1 DEF ReadCam
<1>5. CASE ClearRequest
  BY <1>5 DEF ClearRequest, NoMessage
<1>6. CASE Send
  BY <1>6 DEF Send, NoMessage
<1>7. ASSUME NEW m \in asked, DisplayMon(m) PROVE CamInv'
  BY <1>7 DEF DisplayMon, Locked
<1>8. CASE DisplayCam
  BY <1>8 DEF DisplayCam
<1>9. CASE UNCHANGED vars
  BY <1>9 DEF vars
<1> QED BY <1>1, <1>2, <1>3, <1>4, <1>b, <1>5, <1>6, <1>7, <1>8, <1>9
           DEF Next, StatusThread

\* The invariant holds in every reachable state.
THEOREM Invariance == Spec => []IndInv
<1>1. IndInv /\ [Next]_vars => IndInv'
  BY TypeStep, MovingStep, CameraStep DEF IndInv
<1> QED BY InitInv, <1>1, PTL DEF Spec

\* No key writes beyond the entry, and every variable keeps its type.
THEOREM TypeCorrect == Spec => []TypeOK
<1>1. IndInv => TypeOK
  BY DEF IndInv
<1> QED BY <1>1, Invariance, PTL

\* While it stays selected, a camera told to move has a further ptz message
\* due, whatever else is typed, pressed or displayed: only the message that
\* stops it clears ptz (modebar_ptz).
THEOREM MovingIsFollowed == Spec => []MovingFollowed
<1>1. IndInv => MovingFollowed
  BY DEF IndInv
<1> QED BY <1>1, Invariance, PTL

\* Outside the two races with key_press, the camera a message names belongs to
\* the monitor it names (modebar_display, modebar_set_mon, and what
\* modebar_lens, _menu, _preset and _ptz read).
THEOREM CameraBelongs == Spec => []CamOfMon
<1>1. IndInv => CamOfMon
  BY DEF IndInv, CamInv
<1> QED BY <1>1, Invariance, PTL
=============================================================================
