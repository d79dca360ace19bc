--------------------------- MODULE MonGridProofs ---------------------------
(***************************************************************************)
(* Proofs about MonGrid, for every heap, every set of commands and every   *)
(* bound: type correctness, that freed cells are left alone, and that no   *)
(* cell is ever stopped without a restart, or left playing something it    *)
(* should not without a stop, on its way; what the grid shows of its cells *)
(* when it has a window (the "failed" status sent to the server, and the   *)
(* title bars); and that the grid implements Wall.                         *)
(***************************************************************************)
EXTENDS MonGridWall, TLAPS

----------------------------------------------------------------------------
(* Timers as sequences *)

\* What is left of a sequence when its element i is removed, as GLib removes
\* a timer it has dispatched.
LEMMA RemoveAtType ==
  ASSUME NEW S, NEW s \in Seq(S), NEW i \in DOMAIN s
  PROVE  /\ RemoveAt(s, i) \in Seq(S)
         /\ Len(RemoveAt(s, i)) = Len(s) - 1
         /\ \A k \in DOMAIN RemoveAt(s, i) :
              RemoveAt(s, i)[k] = IF k < i THEN s[k] ELSE s[k + 1]
<1> DEFINE a == SubSeq(s, 1, i - 1)
           b == SubSeq(s, i + 1, Len(s))
<1>1. a \in Seq(S) /\ Len(a) = i - 1 /\ \A k \in 1 .. i - 1 : a[k] = s[k]
  OBVIOUS
<1>2. /\ b \in Seq(S) /\ Len(b) = Len(s) - i
      /\ \A k \in 1 .. Len(s) - i : b[k] = s[i + k]
  OBVIOUS
<1>3. RemoveAt(s, i) = a \o b
  BY DEF RemoveAt
<1> HIDE DEF a, b
<1>4. a \o b \in Seq(S) /\ Len(a \o b) = Len(s) - 1
  BY <1>1, <1>2
<1>5. ASSUME NEW k \in DOMAIN (a \o b)
      PROVE  (a \o b)[k] = IF k < i THEN s[k] ELSE s[k + 1]
  <2>1. CASE k < i
    BY <1>1, <1>2, <2>1
  <2>2. CASE k >= i
    <3>1. k - (i - 1) \in 1 .. Len(s) - i BY <1>1, <1>2, <2>2
    <3>2. (a \o b)[k] = b[k - (i - 1)] BY <1>1, <1>2, <2>2
    <3> QED BY <3>1, <3>2, <1>2, <2>2
  <2> QED BY <2>1, <2>2
<1> QED BY <1>3, <1>4, <1>5

\* Removing one timer leaves every other timer pending.
LEMMA RemoveAtKeeps ==
  ASSUME NEW ts \in Seq(Timer), NEW i \in DOMAIN ts, NEW fn, NEW mc,
         HasTimer(ts, fn, mc), ~(ts[i].fn = fn /\ ts[i].mc = mc)
  PROVE  HasTimer(RemoveAt(ts, i), fn, mc)
<1>1. PICK j \in DOMAIN ts : ts[j].fn = fn /\ ts[j].mc = mc BY DEF HasTimer
<1>2. j # i BY <1>1
<1>3. CASE j < i 
  <2>1. j \in DOMAIN RemoveAt(ts,i) /\ RemoveAt(ts, i)[j] = ts[j]
    BY <1>3, RemoveAtType
  <2> QED BY <2>1, <1>1 DEF HasTimer
<1>4. CASE j > i 
  <2>1. j-1 \in DOMAIN RemoveAt(ts,i) /\ RemoveAt(ts, i)[j-1] = ts[j]
    BY <1>4, RemoveAtType
  <2> QED BY <2>1, <1>1 DEF HasTimer
<1> QED BY <1>2, <1>3, <1>4

\* Attaching timers leaves those attached before pending, and adds the new.
LEMMA AppendKeeps ==
  ASSUME NEW ts \in Seq(Timer), NEW us \in Seq(Timer), NEW fn, NEW mc,
         HasTimer(ts, fn, mc) \/ HasTimer(us, fn, mc)
  PROVE  HasTimer(ts \o us, fn, mc)
<1>1. CASE HasTimer(ts, fn, mc)
  BY <1>1 DEF HasTimer
<1>2. CASE HasTimer(us, fn, mc)
  <2>1. PICK j \in DOMAIN us : us[j].fn = fn /\ us[j].mc = mc BY <1>2 DEF HasTimer
  <2>2. (Len(ts) + j) \in DOMAIN (ts \o us) /\ (ts \o us)[Len(ts)+j] = us[j] OBVIOUS
  <2> QED BY <2>1, <2>2 DEF HasTimer
<1> QED BY <1>1, <1>2

\* The timers moncell_stop_stream attaches.
LEMMA StopTimersType ==
  ASSUME NEW mc \in Addr, NEW delay \in Delay
  PROVE  /\ TitleTimer(mc) \in Seq(Timer)
         /\ StopTimers(mc, delay) \in Seq(Timer)
         /\ Gui => HasTimer(StopTimers(mc, delay), "do_update_title", mc)
         /\ HasTimer(StopTimers(mc, delay), "do_stop_stream", mc)
         /\ HasTimer(StopTimers(mc, delay), "do_restart", mc)
<1> DEFINE t == NewTimer("do_update_title", mc, 0)
           two == <<NewTimer("do_stop_stream", mc, 0),
                    NewTimer("do_restart", mc, delay)>>
<1>1. /\ t \in Timer
      /\ two \in Seq(Timer) /\ Len(two) = 2
      /\ two[1].fn = "do_stop_stream" /\ two[1].mc = mc
      /\ two[2].fn = "do_restart" /\ two[2].mc = mc
  BY DEF NewTimer, Timer, Callback, Delay
<1>2. TitleTimer(mc) \in Seq(Timer)
  BY <1>1 DEF TitleTimer
<1>3. HasTimer(two, "do_stop_stream", mc) /\ HasTimer(two, "do_restart", mc)
  <2>1. 1 \in DOMAIN two /\ 2 \in DOMAIN two
    BY <1>1
  <2> QED BY <1>1, <2>1 DEF HasTimer
<1>4. Gui => HasTimer(TitleTimer(mc), "do_update_title", mc)
  BY DEF TitleTimer, HasTimer, NewTimer
<1>5. StopTimers(mc, delay) = TitleTimer(mc) \o two
  BY DEF StopTimers
<1> HIDE DEF two
<1> QED BY <1>1, <1>2, <1>3, <1>4, <1>5, AppendKeeps

----------------------------------------------------------------------------
(* The invariant *)

\* Where the array of cells lies: nowhere before mongrid_init, and in memory
\* that calloc handed out after it.
GridOK ==
    /\ loop \in {"setup", "exited"} => n_cells = 0
    /\ n_cells > 0 => /\ cells # NULL
                      /\ cells .. cells + n_cells - 1 \subseteq Addr

IndInv ==
    TypeOK /\ GridOK /\ FreedUntouched /\ RestartArmed /\ StopArmed

\* The address a command with a valid index reaches is a live cell.
LEMMA IndexedCellLive ==
  ASSUME TypeOK, GridOK, NEW idx \in 0 .. n_cells - 1
  PROVE  cells + idx \in Live /\ cells + idx \in Addr
<1>1. cells \in Nat /\ n_cells \in Nat
  BY AddrAssumption DEF TypeOK, NULL
<1>2. cells + idx \in cells .. cells + n_cells - 1 /\ n_cells > 0
  BY <1>1
<1> QED BY <1>2 DEF GridOK, Live

\* is_moncell_valid accepts exactly the live cells.
LEMMA ValidIsLive ==
  ASSUME TypeOK, GridOK, NEW mc \in Addr
  PROVE  IsMoncellValid(mc) <=> mc \in Live
BY AddrAssumption DEF TypeOK, GridOK, Live, IsMoncellValid, NULL

\* A cell with a pipeline, messages or a sample is live.
LEMMA ActiveIsLive ==
  ASSUME FreedUntouched, NEW mc \in Addr,
         pipe[mc] # None \/ bus[mc] # <<>> \/ sample[mc] # "none"
  PROVE  mc \in Live
BY DEF FreedUntouched

\* A timer that fires leaves all the others pending.
LEMMA FireKeeps ==
  ASSUME TypeOK, NEW i \in DOMAIN timers, Fire(i), NEW fn, NEW mc,
         Pending(fn, mc), ~(timers[i].fn = fn /\ timers[i].mc = mc)
  PROVE  Pending(fn, mc)'
BY RemoveAtKeeps DEF TypeOK, Fire, Pending

\* Attaching timers leaves all the others pending.
LEMMA AttachKeeps ==
  ASSUME TypeOK, NEW us \in Seq(Timer), timers' = timers \o us, NEW fn, NEW mc,
         Pending(fn, mc) \/ HasTimer(us, fn, mc)
  PROVE  Pending(fn, mc)'
BY AppendKeeps DEF TypeOK, Pending

\* A dispatched timer is one that was attached.
LEMMA FireType ==
  ASSUME TypeOK, NEW i \in DOMAIN timers, Fire(i)
  PROVE  timers' \in Seq(Timer) /\ timers[i] \in Timer /\ timers[i].mc \in Addr
<1>1. timers \in Seq(Timer) /\ timers' = RemoveAt(timers, i)
  BY DEF TypeOK, Fire
<1>2. timers[i] \in Timer
  BY <1>1
<1>3. RemoveAt(timers, i) \in Seq(Timer)
  BY <1>1, RemoveAtType
<1> QED BY <1>1, <1>2, <1>3 DEF Timer

----------------------------------------------------------------------------
\* The invariant holds of the empty grid the program begins with.
THEOREM InitInv == Init => IndInv
<1> SUFFICES ASSUME Init PROVE IndInv
  OBVIOUS
<1>1. TypeOK
  BY DEF Init, TypeOK, Loop, Title, BlankTitle
<1>2. GridOK /\ Live = {}
  BY DEF Init, GridOK, Live
<1>3. FreedUntouched
  BY DEF Init, FreedUntouched
<1> QED BY <1>1, <1>2, <1>3 DEF IndInv, RestartArmed, StopArmed

----------------------------------------------------------------------------
(* Type correctness *)

\* Every handler keeps the types.
LEMMA TypeStep ==
  ASSUME TypeOK, GridOK, FreedUntouched, [Next]_vars
  PROVE  TypeOK'
<1> USE DEF TypeOK
<1>1. ASSUME NEW num \in Nums, NEW base \in Addr, MongridInit(num, base)
      PROVE  TypeOK'
  BY <1>1, NumsAssumption DEF MongridInit, cellVars, Loop
<1>2. ASSUME NEW num \in Nums, MongridInitTooLarge(num)
      PROVE  TypeOK'
  BY <1>2 DEF MongridInitTooLarge, cellVars, Loop
<1>3. CASE MongridRun
  BY <1>3 DEF MongridRun, cellVars, Loop
<1>4. CASE MongridReset
  <2>1. timers' \in Seq(Timer)
    BY <1>4 DEF MongridReset
  <2>2. /\ mon' \in [Addr -> Monitor \cup {None}]
        /\ req' \in [Addr -> Request \cup {None}]
        /\ pipe' \in [Addr -> Request \cup {None}]
        /\ sample' \in [Addr -> {"none", "fresh", "seen"}]
    BY <1>4 DEF MongridReset
  <2>3. bus' \in [Addr -> Seq(Message)]
    BY <1>4 DEF MongridReset
  <2>4. title' \in [Addr -> Title]
    BY <1>4 DEF MongridReset, Title, BlankTitle
  <2>5. started' \in [Addr -> BOOLEAN] /\ failed' \in [Addr -> BOOLEAN]
    BY <1>4 DEF MongridReset
  <2>6. cells' \in Addr \cup {NULL} /\ n_cells' \in Nat /\ loop' \in Loop
    BY <1>4 DEF MongridReset, Loop
  <2> QED BY <2>1, <2>2, <2>3, <2>4, <2>5, <2>6
<1>5. ASSUME NEW idx \in 0 .. n_cells - 1, NEW m \in Monitor \cup {None},
             MongridSetMon(idx, m)
      PROVE  TypeOK'
  <2>1. timers' \in Seq(Timer)
    BY <1>5, IndexedCellLive, StopTimersType DEF MongridSetMon, Delay
  <2> QED BY <1>5, <2>1 DEF MongridSetMon
<1>6. ASSUME NEW idx \in 0 .. n_cells - 1, NEW r \in Request,
             MongridPlayStream(idx, r)
      PROVE  TypeOK'
  <2>1. timers' \in Seq(Timer)
    BY <1>6, IndexedCellLive, StopTimersType
    DEF MongridPlayStream, MoncellStopStream, Delay
  <2> QED BY <1>6, <2>1 DEF MongridPlayStream, MoncellStopStream
<1>7. ASSUME NEW i \in DOMAIN timers, FireTimer(i)
      PROVE  TypeOK'
  <2>1. Fire(i)
    BY <1>7 DEF FireTimer, FireInvalid, DoUpdateTitle, DoStopStream,
                DoRestart, DoRestartStarted
  <2>2. timers' \in Seq(Timer) /\ timers[i].mc \in Addr
    BY <2>1, FireType
  <2>3. \A mc \in Addr, lit \in BOOLEAN : TitleOf(mc, lit) \in Title
    BY DEF TitleOf, Title, BlankTitle
  <2>4. CASE FireInvalid(i) \/ DoRestartStarted(i)
    BY <2>2, <2>4 DEF FireInvalid, DoRestartStarted, cellVars
  <2>5. CASE DoUpdateTitle(i)
    BY <2>2, <2>3, <2>5 DEF DoUpdateTitle
  <2>6. CASE DoStopStream(i)
    BY <2>2, <2>6 DEF DoStopStream, StopPipelineThen
  <2>7. CASE DoRestart(i)
    <3>1. title' \in [Addr -> Title]
      BY <2>3, <2>7 DEF DoRestart
    <3>2. pipe' \in [Addr -> Request \cup {None}]
      BY <2>2, <2>7 DEF DoRestart, StopPipelineThen
    <3>3. /\ bus' = [bus EXCEPT ![timers[i].mc] = <<>>]
          /\ sample' = [sample EXCEPT ![timers[i].mc] = "none"]
      BY <2>7 DEF DoRestart, StopPipelineThen
    <3>4. bus' \in [Addr -> Seq(Message)]
      <4>1. <<>> \in Seq(Message)
        OBVIOUS
      <4> QED BY <3>3, <4>1
    <3>5. sample' \in [Addr -> {"none", "fresh", "seen"}]
      BY <3>3
    <3> QED BY <2>2, <2>7, <3>1, <3>2, <3>4, <3>5 DEF DoRestart
  <2> QED BY <1>7, <2>4, <2>5, <2>6, <2>7 DEF FireTimer
<1>8. ASSUME NEW mc \in Addr, BusAsyncDone(mc)
      PROVE  TypeOK'
  <2>1. timers' \in Seq(Timer)
    BY <1>8, StopTimersType DEF BusAsyncDone, Delay
  <2>2. bus' \in [Addr -> Seq(Message)]
    BY <1>8 DEF BusAsyncDone
  <2> QED BY <1>8, <2>1, <2>2 DEF BusAsyncDone
<1>9. ASSUME NEW mc \in Addr, BusFailure(mc)
      PROVE  TypeOK'
  <2>1. timers' \in Seq(Timer)
    BY <1>9, StopTimersType DEF BusFailure, MoncellStopStream, Delay
  <2>2. bus' \in [Addr -> Seq(Message)]
    BY <1>9 DEF BusFailure
  <2> QED BY <1>9, <2>1, <2>2 DEF BusFailure, MoncellStopStream
<1>10. ASSUME NEW mc \in Addr, Pipeline(mc)
       PROVE  TypeOK'
  <2>1. CASE PipelinePreroll(mc)
    BY <2>1 DEF PipelinePreroll, Message
  <2>2. CASE PipelineFrame(mc)
    BY <2>2 DEF PipelineFrame
  <2>3. CASE PipelineFailure(mc)
    BY <2>3 DEF PipelineFailure, Message
  <2> QED BY <1>10, <2>1, <2>2, <2>3 DEF Pipeline
<1>11. CASE DoCheckSink
  <2>1. bus' \in [Addr -> Seq(Message)]
    BY <1>11 DEF DoCheckSink, Message
  <2>2. sample' \in [Addr -> {"none", "fresh", "seen"}]
    BY <1>11 DEF DoCheckSink
  <2> QED BY <1>11, <2>1, <2>2 DEF DoCheckSink
<1>12. CASE UNCHANGED vars
  BY <1>12 DEF vars, cellVars
<1> QED BY <1>1, <1>2, <1>3, <1>4, <1>5, <1>6, <1>7, <1>8, <1>9, <1>10,
           <1>11, <1>12
    DEF Next, Reconfigure, Command, BusWatch, Exited

----------------------------------------------------------------------------
(* Memory *)

\* The live cells depend on the array alone.
LEMMA LiveUnchanged ==
  ASSUME UNCHANGED <<cells, n_cells>>
  PROVE  Live' = Live
BY DEF Live

\* An array of no cells has no live cell.
LEMMA EmptyGrid == ASSUME TypeOK, n_cells = 0 PROVE Live = {}
<1>1. cells \in Nat
  BY AddrAssumption DEF TypeOK, NULL
<1> QED BY <1>1 DEF Live

\* Only mongrid_init and mongrid_reset move the array of cells.
LEMMA GridStep ==
  ASSUME TypeOK, GridOK, [Next]_vars
  PROVE  GridOK'
<1>1. ASSUME NEW num \in Nums, NEW base \in Addr, MongridInit(num, base)
      PROVE  GridOK'
  BY <1>1, AddrAssumption DEF MongridInit, GridOK
<1>2. CASE UNCHANGED <<cells, n_cells, loop>>
  BY <1>2 DEF GridOK
<1>3. CASE n_cells' = 0
  BY <1>3 DEF GridOK
<1>4. CASE MongridRun
  BY <1>4 DEF MongridRun, GridOK
<1> QED
  BY <1>1, <1>2, <1>3, <1>4
  DEF Next, Reconfigure, Command, BusWatch, Pipeline, FireTimer, Exited, vars,
      MongridInitTooLarge, MongridReset, MongridSetMon, MongridPlayStream,
      FireInvalid, DoUpdateTitle, DoStopStream, DoRestart, DoRestartStarted,
      BusAsyncDone, BusFailure, PipelinePreroll, PipelineFrame,
      PipelineFailure, DoCheckSink

\* No handler touches a cell that is not live.
LEMMA FreedStep ==
  ASSUME TypeOK, GridOK, FreedUntouched, [Next]_vars
  PROVE  FreedUntouched'
<1> USE DEF FreedUntouched
<1>1. ASSUME NEW num \in Nums, NEW base \in Addr, MongridInit(num, base)
      PROVE  FreedUntouched'
  <2>1. Live = {}
    BY <1>1, EmptyGrid DEF MongridInit, GridOK
  <2> QED BY <1>1, <2>1 DEF MongridInit, cellVars
<1>2. ASSUME NEW num \in Nums, MongridInitTooLarge(num)
      PROVE  FreedUntouched'
  <2>1. Live = {}
    BY <1>2, EmptyGrid DEF MongridInitTooLarge, GridOK
  <2> QED BY <1>2, <2>1 DEF MongridInitTooLarge, cellVars
<1>3. CASE MongridRun
  BY <1>3, LiveUnchanged DEF MongridRun, cellVars
<1>4. CASE MongridReset
  BY <1>4 DEF MongridReset
<1>5. ASSUME NEW idx \in 0 .. n_cells - 1, NEW m \in Monitor \cup {None},
             MongridSetMon(idx, m)
      PROVE  FreedUntouched'
  BY <1>5, IndexedCellLive, LiveUnchanged DEF MongridSetMon
<1>6. ASSUME NEW idx \in 0 .. n_cells - 1, NEW r \in Request,
             MongridPlayStream(idx, r)
      PROVE  FreedUntouched'
  BY <1>6, IndexedCellLive, LiveUnchanged
  DEF MongridPlayStream, MoncellStopStream
<1>7. ASSUME NEW i \in DOMAIN timers, FireTimer(i)
      PROVE  FreedUntouched'
  <2>1. CASE FireInvalid(i) \/ DoRestartStarted(i)
    BY <2>1, LiveUnchanged DEF FireInvalid, DoRestartStarted, cellVars
  <2>2. CASE DoUpdateTitle(i)
    <3>1. timers[i].mc \in Live
      BY <2>2, FireType, ValidIsLive DEF DoUpdateTitle
    <3> QED BY <2>2, <3>1, LiveUnchanged DEF DoUpdateTitle
  <2>3. CASE DoStopStream(i)
    <3>1. timers[i].mc \in Live
      BY <2>3, FireType, ValidIsLive DEF DoStopStream
    <3> QED
      BY <2>3, <3>1, LiveUnchanged DEF DoStopStream, StopPipelineThen
  <2>4. CASE DoRestart(i)
    <3>1. timers[i].mc \in Live
      BY <2>4, FireType, ValidIsLive DEF DoRestart
    <3>2. \A mc \in Addr \ Live :
            /\ mon'[mc] = mon[mc] /\ req'[mc] = req[mc]
            /\ pipe'[mc] = pipe[mc] /\ bus'[mc] = bus[mc]
            /\ sample'[mc] = sample[mc] /\ started'[mc] = started[mc]
            /\ failed'[mc] = failed[mc] /\ title'[mc] = title[mc]
      BY <2>4, <3>1 DEF DoRestart, StopPipelineThen, TypeOK
    <3>3. Live' = Live
      BY <2>4, LiveUnchanged DEF DoRestart
    <3> QED BY <3>2, <3>3
  <2> QED BY <1>7, <2>1, <2>2, <2>3, <2>4 DEF FireTimer
<1>8. ASSUME NEW mc \in Addr, BusAsyncDone(mc)
      PROVE  FreedUntouched'
  BY <1>8, ActiveIsLive, LiveUnchanged DEF BusAsyncDone
<1>9. ASSUME NEW mc \in Addr, BusFailure(mc)
      PROVE  FreedUntouched'
  BY <1>9, ActiveIsLive, LiveUnchanged DEF BusFailure, MoncellStopStream
<1>10. ASSUME NEW mc \in Addr, Pipeline(mc)
       PROVE  FreedUntouched'
  <2>1. CASE PipelinePreroll(mc)
    BY <2>1, ActiveIsLive, LiveUnchanged DEF PipelinePreroll
  <2>2. CASE PipelineFrame(mc)
    BY <2>2, ActiveIsLive, LiveUnchanged DEF PipelineFrame
  <2>3. CASE PipelineFailure(mc)
    BY <2>3, ActiveIsLive, LiveUnchanged DEF PipelineFailure
  <2> QED BY <1>10, <2>1, <2>2, <2>3 DEF Pipeline
<1>11. CASE DoCheckSink
  <2>1. \A mc \in Addr \ Live :
          bus'[mc] = bus[mc] /\ sample'[mc] = sample[mc]
    BY <1>11 DEF DoCheckSink
  <2>2. Live' = Live
    BY <1>11, LiveUnchanged DEF DoCheckSink
  <2> QED BY <1>11, <2>1, <2>2 DEF DoCheckSink
<1>12. CASE UNCHANGED vars
  BY <1>12, LiveUnchanged DEF vars, cellVars
<1> QED BY <1>1, <1>2, <1>3, <1>4, <1>5, <1>6, <1>7, <1>8, <1>9, <1>10,
           <1>11, <1>12
    DEF Next, Reconfigure, Command, BusWatch, Exited

----------------------------------------------------------------------------
(* Stop and restart *)

\* Both invariants, for one cell.
Armed(mc) ==
    /\ req[mc] # None /\ ~started[mc] => Pending("do_restart", mc)
    /\ pipe[mc] # None /\ (~started[mc] \/ pipe[mc] # req[mc])
         => Pending("do_stop_stream", mc)

\* moncell_stop_stream arms its own cell and disarms no other.
LEMMA StopArms ==
  ASSUME TypeOK, NEW mc \in Addr, NEW delay \in Delay,
         MoncellStopStream(mc, delay), NEW c \in Addr, Armed(c),
         c # mc => req'[c] = req[c], UNCHANGED pipe
  PROVE  Armed(c)'
<1>1. timers' = timers \o StopTimers(mc, delay)
  BY DEF MoncellStopStream
<1>2. CASE c = mc
  BY <1>1, <1>2, StopTimersType, AttachKeeps DEF Armed
<1>3. CASE c # mc
  <2>1. started'[c] = started[c]
    BY <1>3 DEF MoncellStopStream, TypeOK
  <2>2. \A fn : Pending(fn, c) => Pending(fn, c)'
    BY <1>1, StopTimersType, AttachKeeps
  <2> QED BY <1>3, <2>1, <2>2 DEF Armed
<1> QED BY <1>2, <1>3

\* No step leaves a live cell stopped without a restart on its way, or
\* playing what it should not without a stop on its way.
LEMMA ArmedStep ==
  ASSUME TypeOK, GridOK, FreedUntouched, RestartArmed, StopArmed, [Next]_vars
  PROVE  RestartArmed' /\ StopArmed'
<1> SUFFICES \A c \in Live' : Armed(c)'
  BY DEF RestartArmed, StopArmed, Armed
<1> TAKE c \in Live'
<1>a. c \in Addr
  BY DEF Live
<1>b. Armed(c)
  <2>1. CASE c \in Live
    BY <2>1 DEF RestartArmed, StopArmed, Armed
  <2>2. CASE c \notin Live
    BY <1>a, <2>2 DEF FreedUntouched, Armed
  <2> QED BY <2>1, <2>2
<1>1. CASE UNCHANGED <<req, started, pipe, timers>>
  BY <1>b, <1>1 DEF Armed, Pending
<1>2. CASE MongridReset
  BY <1>2, EmptyGrid DEF MongridReset, Live
<1>3. ASSUME NEW idx \in 0 .. n_cells - 1, NEW m \in Monitor \cup {None},
             MongridSetMon(idx, m)
      PROVE  Armed(c)'
  <2>1. \A fn : Pending(fn, c) => Pending(fn, c)'
    <3>1. TitleTimer(cells + idx) \in Seq(Timer)
      BY <1>3, IndexedCellLive, StopTimersType DEF Delay
    <3>2. timers' = timers \o TitleTimer(cells + idx)
      BY <1>3 DEF MongridSetMon
    <3> QED BY <3>1, <3>2, AttachKeeps
  <2> QED BY <1>b, <1>3, <2>1 DEF Armed, MongridSetMon
<1>4. ASSUME NEW idx \in 0 .. n_cells - 1, NEW r \in Request,
             MongridPlayStream(idx, r)
      PROVE  Armed(c)'
  <2>1. cells + idx \in Addr /\ MoncellStopStream(cells + idx, 20)
    BY <1>4, IndexedCellLive DEF MongridPlayStream
  <2>2. UNCHANGED pipe /\ (c # cells + idx => req'[c] = req[c])
    BY <1>a, <1>4 DEF MongridPlayStream, TypeOK
  <2> QED BY <1>a, <1>b, <2>1, <2>2, StopArms DEF Delay
<1>5. ASSUME NEW i \in DOMAIN timers, FireTimer(i)
      PROVE  Armed(c)'
  <2>1. Fire(i)
    BY <1>5 DEF FireTimer, FireInvalid, DoUpdateTitle, DoStopStream,
                DoRestart, DoRestartStarted
  <2>2. timers[i].mc \in Addr
    BY <2>1, FireType
  <2>3. UNCHANGED <<cells, n_cells>> /\ Live' = Live
    BY <1>5, LiveUnchanged DEF FireTimer, FireInvalid, DoUpdateTitle,
         DoStopStream, DoRestart, DoRestartStarted
  <2>4. CASE FireInvalid(i)
    <3>1. c # timers[i].mc
      BY <1>a, <2>3, <2>4, ValidIsLive DEF FireInvalid
    <3> QED
      BY <1>b, <2>1, <2>4, <3>1, FireKeeps DEF FireInvalid, cellVars, Armed
  <2>5. CASE DoUpdateTitle(i)
    BY <1>b, <2>1, <2>5, FireKeeps DEF DoUpdateTitle, Armed
  <2>6. CASE DoStopStream(i)
    BY <1>a, <1>b, <2>1, <2>2, <2>6, FireKeeps
    DEF DoStopStream, StopPipelineThen, Armed, TypeOK
  <2>7. CASE DoRestart(i)
    <3>1. CASE c = timers[i].mc
      <4>1. started'[c] /\ UNCHANGED req /\ pipe'[c] \in {None, req[c]}
        BY <2>2, <2>7, <3>1 DEF DoRestart, StopPipelineThen, TypeOK
      <4> QED BY <4>1 DEF Armed
    <3>2. CASE c # timers[i].mc
      <4>1. /\ started'[c] = started[c] /\ pipe'[c] = pipe[c]
            /\ req'[c] = req[c]
        BY <1>a, <2>7, <3>2 DEF DoRestart, StopPipelineThen, TypeOK
      <4>2. \A fn : Pending(fn, c) => Pending(fn, c)'
        BY <2>1, <3>2, FireKeeps
      <4> QED BY <1>b, <4>1, <4>2 DEF Armed
    <3> QED BY <3>1, <3>2
  <2>8. CASE DoRestartStarted(i)
    <3>1. Pending("do_stop_stream", c) => Pending("do_stop_stream", c)'
      BY <2>1, <2>8, FireKeeps DEF DoRestartStarted
    <3>2. CASE c = timers[i].mc
      BY <1>b, <2>8, <3>1, <3>2 DEF DoRestartStarted, cellVars, Armed
    <3>3. CASE c # timers[i].mc
      BY <1>b, <2>1, <2>8, <3>3, FireKeeps
      DEF DoRestartStarted, cellVars, Armed
    <3> QED BY <3>2, <3>3
  <2> QED BY <1>5, <2>4, <2>5, <2>6, <2>7, <2>8 DEF FireTimer
<1>6. ASSUME NEW mc \in Addr, BusAsyncDone(mc)
      PROVE  Armed(c)'
  <2>1. \A fn : Pending(fn, c) => Pending(fn, c)'
    <3>1. TitleTimer(mc) \in Seq(Timer)
      BY <1>6, StopTimersType DEF Delay
    <3>2. timers' = timers \o TitleTimer(mc)
      BY <1>6 DEF BusAsyncDone
    <3> QED BY <3>1, <3>2, AttachKeeps
  <2> QED BY <1>b, <1>6, <2>1 DEF BusAsyncDone, Armed
<1>7. ASSUME NEW mc \in Addr, BusFailure(mc)
      PROVE  Armed(c)'
  <2>1. MoncellStopStream(mc, 1000) /\ UNCHANGED <<pipe, req>>
    BY <1>7 DEF BusFailure
  <2> QED BY <1>a, <1>b, <2>1, StopArms DEF Delay
<1> QED
  BY <1>1, <1>2, <1>3, <1>4, <1>5, <1>6, <1>7
  DEF Next, Reconfigure, Command, BusWatch, Pipeline, Exited, vars, cellVars,
      MongridInit, MongridInitTooLarge, MongridRun, PipelinePreroll,
      PipelineFrame, PipelineFailure, DoCheckSink

----------------------------------------------------------------------------
(* Theorems: the cells *)

\* The invariant is inductive.
THEOREM StepInv == IndInv /\ [Next]_vars => IndInv'
BY TypeStep, GridStep, FreedStep, ArmedStep DEF IndInv

\* The invariant holds in every reachable state.
THEOREM Invariance == Spec => []IndInv
BY InitInv, StepInv, PTL DEF Spec

\* Every variable keeps its type, whatever the heap, commands and bounds.
THEOREM TypeCorrect == Spec => []TypeOK
<1>1. IndInv => TypeOK
  BY DEF IndInv
<1> QED BY Invariance, <1>1, PTL

\* No timer, message or command touches a cell after mongrid_reset freed it.
THEOREM FreedStaysUntouched == Spec => []FreedUntouched
<1>1. IndInv => FreedUntouched
  BY DEF IndInv
<1> QED BY Invariance, <1>1, PTL

\* A cell told what to play is started, or a restart of it is on its way.
THEOREM AlwaysRestartArmed == Spec => []RestartArmed
<1>1. IndInv => RestartArmed
  BY DEF IndInv
<1> QED BY Invariance, <1>1, PTL

\* A pipeline that should not play has a stop on its way.
THEOREM AlwaysStopArmed == Spec => []StopArmed
<1>1. IndInv => StopArmed
  BY DEF IndInv
<1> QED BY Invariance, <1>1, PTL

----------------------------------------------------------------------------
(* The failed status *)

\* AckedMeansOk for one cell.
Acked(c) ==
    started[c] /\ pipe[c] # None /\ failed[c] =>
        \/ sample[c] = "none"
        \/ \E i \in DOMAIN bus[c] : bus[c][i] = "ASYNC_DONE"

\* A message posted on a bus leaves those before it there.
LEMMA PostKeeps ==
  ASSUME NEW q \in Seq(Message), NEW m \in Message
  PROVE  /\ \E i \in DOMAIN Append(q, m) : Append(q, m)[i] = m
         /\ (\E i \in DOMAIN q : q[i] = "ASYNC_DONE") =>
              \E i \in DOMAIN Append(q, m) : Append(q, m)[i] = "ASYNC_DONE"
<1>1. Len(q) + 1 \in DOMAIN Append(q, m) /\ Append(q, m)[Len(q) + 1] = m
  OBVIOUS
<1>2. \A i \in DOMAIN q : i \in DOMAIN Append(q, m) /\ Append(q, m)[i] = q[i]
  OBVIOUS
<1> QED BY <1>1, <1>2

\* No step leaves a cell reported as failed once its stream is acknowledged.
LEMMA AckedStep ==
  ASSUME Gui, TypeOK, GridOK, FreedUntouched, AckedMeansOk, [Next]_vars
  PROVE  AckedMeansOk'
<1> SUFFICES \A c \in Live' : Acked(c)'
  BY DEF AckedMeansOk, Acked
<1> TAKE c \in Live'
<1>a. c \in Addr /\ bus[c] \in Seq(Message)
  BY DEF Live, TypeOK
<1>b. Acked(c)
  BY <1>a DEF AckedMeansOk, FreedUntouched, Acked
<1>1. CASE UNCHANGED <<started, pipe, failed, sample, bus>>
  BY <1>b, <1>1 DEF Acked
<1>2. CASE MongridReset
  BY <1>2, EmptyGrid DEF MongridReset, Live
<1>3. ASSUME NEW idx \in 0 .. n_cells - 1, NEW r \in Request,
             MongridPlayStream(idx, r)
      PROVE  Acked(c)'
  <2>1. CASE c = cells + idx
    BY <1>a, <1>3, <2>1 DEF MongridPlayStream, MoncellStopStream, Acked, TypeOK
  <2>2. CASE c # cells + idx
    BY <1>a, <1>b, <1>3, <2>2
    DEF MongridPlayStream, MoncellStopStream, Acked, TypeOK
  <2> QED BY <2>1, <2>2
<1>4. ASSUME NEW i \in DOMAIN timers, DoStopStream(i) \/ DoRestart(i)
      PROVE  Acked(c)'
  <2>1. CASE c = timers[i].mc
    <3>1. sample'[c] = "none"
      BY <1>a, <1>4, <2>1 DEF DoStopStream, DoRestart, StopPipelineThen, TypeOK
    <3> QED BY <3>1 DEF Acked
  <2>2. CASE c # timers[i].mc
    <3>1. /\ sample'[c] = sample[c] /\ bus'[c] = bus[c] /\ pipe'[c] = pipe[c]
          /\ UNCHANGED failed
      BY <1>a, <1>4, <2>2 DEF DoStopStream, DoRestart, StopPipelineThen, TypeOK
    <3>2. started'[c] = started[c]
      BY <1>a, <1>4, <2>2 DEF DoStopStream, DoRestart, TypeOK
    <3> QED BY <1>b, <3>1, <3>2 DEF Acked
  <2> QED BY <2>1, <2>2
<1>5. ASSUME NEW i \in DOMAIN timers,
             FireInvalid(i) \/ DoUpdateTitle(i) \/ DoRestartStarted(i)
      PROVE  Acked(c)'
  BY <1>b, <1>5 DEF FireInvalid, DoUpdateTitle, DoRestartStarted, cellVars,
                    Acked
<1>6. ASSUME NEW mc \in Addr, BusAsyncDone(mc)
      PROVE  Acked(c)'
  <2>1. CASE c = mc
    BY <1>a, <1>6, <2>1 DEF BusAsyncDone, Acked, TypeOK
  <2>2. CASE c # mc
    BY <1>a, <1>b, <1>6, <2>2 DEF BusAsyncDone, Acked, TypeOK
  <2> QED BY <2>1, <2>2
<1>7. ASSUME NEW mc \in Addr, BusFailure(mc)
      PROVE  Acked(c)'
  <2>1. CASE c = mc
    BY <1>a, <1>7, <2>1 DEF BusFailure, MoncellStopStream, Acked, TypeOK
  <2>2. CASE c # mc
    BY <1>a, <1>b, <1>7, <2>2
    DEF BusFailure, MoncellStopStream, Acked, TypeOK
  <2> QED BY <2>1, <2>2
<1>8. ASSUME NEW mc \in Addr, PipelinePreroll(mc)
      PROVE  Acked(c)'
  <2>1. CASE c = mc
    <3>1. bus'[c] = Append(bus[c], "ASYNC_DONE")
      BY <1>a, <1>8, <2>1 DEF PipelinePreroll, TypeOK
    <3> QED BY <1>a, <3>1, PostKeeps DEF Acked, Message
  <2>2. CASE c # mc
    BY <1>a, <1>b, <1>8, <2>2 DEF PipelinePreroll, Acked, TypeOK
  <2> QED BY <2>1, <2>2
<1>9. ASSUME NEW mc \in Addr, PipelineFrame(mc)
      PROVE  Acked(c)'
  BY <1>a, <1>b, <1>9 DEF PipelineFrame, Acked, TypeOK
<1>10. ASSUME NEW mc \in Addr, PipelineFailure(mc)
       PROVE  Acked(c)'
  <2>1. bus'[c] \in {bus[c], Append(bus[c], "FAILURE")}
    BY <1>a, <1>10 DEF PipelineFailure, TypeOK
  <2> QED BY <1>a, <1>b, <1>10, <2>1, PostKeeps
          DEF PipelineFailure, Acked, Message
<1>11. CASE DoCheckSink
  <2>1. bus'[c] \in {bus[c], Append(bus[c], "FAILURE")}
    BY <1>a, <1>11 DEF DoCheckSink
  <2>2. sample[c] = "none" => sample'[c] = "none"
    BY <1>a, <1>11 DEF DoCheckSink
  <2>3. UNCHANGED <<started, pipe, failed>>
    BY <1>11 DEF DoCheckSink
  <2> QED BY <1>a, <1>b, <2>1, <2>2, <2>3, PostKeeps DEF Acked, Message
<1>12. ASSUME NEW idx \in 0 .. n_cells - 1, NEW m \in Monitor \cup {None},
              MongridSetMon(idx, m)
       PROVE  Acked(c)'
  BY <1>b, <1>12 DEF MongridSetMon, Acked
<1> QED
  BY <1>1, <1>2, <1>3, <1>4, <1>5, <1>6, <1>7, <1>8, <1>9, <1>10, <1>11, <1>12
  DEF Next, Reconfigure, Command, FireTimer, BusWatch, Pipeline, Exited, vars,
      cellVars, MongridInit, MongridInitTooLarge, MongridRun

----------------------------------------------------------------------------
(* The title bars *)

\* TitleCurrent for one cell.
Titled(c) ==
    \/ Pending("do_update_title", c)
    \/ \E lit \in BOOLEAN : title[c] = TitleOf(c, lit) /\ (lit => started[c])

\* Stopping a stream updates the title of its cell and disturbs no other.
LEMMA StopTitles ==
  ASSUME Gui, TypeOK, NEW mc \in Addr, NEW delay \in Delay,
         MoncellStopStream(mc, delay), NEW c \in Addr, Titled(c),
         UNCHANGED <<mon, title>>, c # mc => req'[c] = req[c]
  PROVE  Titled(c)'
<1>1. timers' = timers \o StopTimers(mc, delay)
  BY DEF MoncellStopStream
<1>2. CASE c = mc
  BY <1>1, <1>2, StopTimersType, AttachKeeps DEF Titled
<1>3. CASE c # mc
  <2>1. started'[c] = started[c]
    BY <1>3 DEF MoncellStopStream, TypeOK
  <2>2. \A fn : Pending(fn, c) => Pending(fn, c)'
    BY <1>1, StopTimersType, AttachKeeps
  <2>3. \A lit \in BOOLEAN : TitleOf(c, lit)' = TitleOf(c, lit)
    BY <1>3 DEF TitleOf
  <2> QED BY <2>1, <2>2, <2>3 DEF Titled
<1> QED BY <1>2, <1>3

\* No step leaves a title bar behind its cell with no update on its way.
LEMMA TitleStep ==
  ASSUME Gui, TypeOK, GridOK, FreedUntouched, TitleCurrent, [Next]_vars
  PROVE  TitleCurrent'
<1> SUFFICES \A c \in Live' : Titled(c)'
  BY DEF TitleCurrent, Titled
<1> TAKE c \in Live'
<1>a. c \in Addr
  BY DEF Live
<1>b. Titled(c)
  <2>1. CASE c \in Live
    BY <2>1 DEF TitleCurrent, Titled
  <2>2. CASE c \notin Live
    <3>1. mon[c] = None /\ title[c] = BlankTitle
      BY <1>a, <2>2 DEF FreedUntouched
    <3>2. TitleOf(c, FALSE) = BlankTitle
      BY <3>1 DEF TitleOf, BlankTitle
    <3> QED BY <3>1, <3>2 DEF Titled
  <2> QED BY <2>1, <2>2
<1>1. CASE UNCHANGED <<mon, req, started, title, timers>>
  BY <1>b, <1>1 DEF Titled, Pending, TitleOf
<1>2. CASE MongridReset
  BY <1>2, EmptyGrid DEF MongridReset, Live
<1>3. ASSUME NEW idx \in 0 .. n_cells - 1, NEW m \in Monitor \cup {None},
             MongridSetMon(idx, m)
      PROVE  Titled(c)'
  <2> DEFINE mc == cells + idx
  <2>1. mc \in Addr /\ TitleTimer(mc) \in Seq(Timer)
    BY <1>3, IndexedCellLive, StopTimersType DEF Delay
  <2>2. timers' = timers \o TitleTimer(mc)
    BY <1>3 DEF MongridSetMon
  <2>3. CASE c = mc
    <3>1. HasTimer(TitleTimer(mc), "do_update_title", mc)
      BY DEF TitleTimer, HasTimer, NewTimer
    <3> QED BY <2>1, <2>2, <2>3, <3>1, AttachKeeps DEF Titled
  <2>4. CASE c # mc
    <3>1. mon'[c] = mon[c] /\ UNCHANGED <<req, started, title>>
      BY <1>a, <1>3, <2>4 DEF MongridSetMon, TypeOK
    <3>2. Pending("do_update_title", c) => Pending("do_update_title", c)'
      BY <2>1, <2>2, AttachKeeps
    <3> QED BY <1>b, <3>1, <3>2 DEF Titled, TitleOf
  <2> QED BY <2>3, <2>4
<1>4. ASSUME NEW idx \in 0 .. n_cells - 1, NEW r \in Request,
             MongridPlayStream(idx, r)
      PROVE  Titled(c)'
  <2>1. cells + idx \in Addr /\ MoncellStopStream(cells + idx, 20)
    BY <1>4, IndexedCellLive DEF MongridPlayStream
  <2>2. /\ UNCHANGED <<mon, title>>
        /\ c # cells + idx => req'[c] = req[c]
    BY <1>a, <1>4 DEF MongridPlayStream, TypeOK
  <2> QED BY <1>a, <1>b, <2>1, <2>2, StopTitles DEF Delay
<1>5. ASSUME NEW i \in DOMAIN timers, DoUpdateTitle(i)
      PROVE  Titled(c)'
  <2>1. CASE c = timers[i].mc
    <3>1. /\ title'[c] = TitleOf(c, started[c])
          /\ UNCHANGED <<mon, req, started>>
      BY <1>a, <1>5, <2>1 DEF DoUpdateTitle, TypeOK
    <3>2. started[c] \in BOOLEAN
      BY <1>a DEF TypeOK
    <3> QED BY <3>1, <3>2 DEF Titled, TitleOf
  <2>2. CASE c # timers[i].mc
    <3>1. title'[c] = title[c] /\ UNCHANGED <<mon, req, started>>
      BY <1>a, <1>5, <2>2 DEF DoUpdateTitle, TypeOK
    <3>2. Pending("do_update_title", c) => Pending("do_update_title", c)'
      BY <1>5, <2>2, FireKeeps DEF DoUpdateTitle
    <3> QED BY <1>b, <3>1, <3>2 DEF Titled, TitleOf
  <2> QED BY <2>1, <2>2
<1>6. ASSUME NEW i \in DOMAIN timers,
             DoStopStream(i) \/ DoRestart(i) \/ DoRestartStarted(i)
      PROVE  Titled(c)'
  <2>1. Pending("do_update_title", c) => Pending("do_update_title", c)'
    BY <1>6, FireKeeps DEF DoStopStream, DoRestart, DoRestartStarted
  <2>2. UNCHANGED <<mon, req>> /\ (started[c] => started'[c])
    BY <1>a, <1>6
    DEF DoStopStream, DoRestart, DoRestartStarted, cellVars, TypeOK
  <2>3. \/ title'[c] = title[c]
        \/ title'[c] = TitleOf(c, TRUE) /\ started'[c]
    <3>1. CASE DoStopStream(i) \/ DoRestartStarted(i)
      BY <3>1 DEF DoStopStream, DoRestartStarted, cellVars
    <3>2. CASE DoRestart(i)
      <4>1. \/ title' = title
            \/ title' = [title EXCEPT ![timers[i].mc] =
                                         TitleOf(timers[i].mc, TRUE)]
        BY <3>2 DEF DoRestart
      <4>2. c = timers[i].mc => started'[c]
        BY <1>a, <3>2 DEF DoRestart, TypeOK
      <4>3. title \in [Addr -> Title]
        BY DEF TypeOK
      <4> QED BY <1>a, <4>1, <4>2, <4>3
    <3> QED BY <1>6, <3>1, <3>2
  <2> QED BY <1>b, <2>1, <2>2, <2>3 DEF Titled, TitleOf
<1>7. ASSUME NEW i \in DOMAIN timers, FireInvalid(i)
      PROVE  Titled(c)'
  <2>1. Live' = Live /\ timers[i].mc \in Addr
    BY <1>7, LiveUnchanged, FireType DEF FireInvalid
  <2>2. c # timers[i].mc
    BY <1>a, <1>7, <2>1, ValidIsLive DEF FireInvalid
  <2>3. Pending("do_update_title", c) => Pending("do_update_title", c)'
    BY <1>7, <2>2, FireKeeps DEF FireInvalid
  <2> QED BY <1>b, <1>7, <2>3 DEF FireInvalid, cellVars, Titled, TitleOf
<1>8. ASSUME NEW mc \in Addr, BusAsyncDone(mc)
      PROVE  Titled(c)'
  <2>1. TitleTimer(mc) \in Seq(Timer) /\ timers' = timers \o TitleTimer(mc)
    BY <1>8, StopTimersType DEF BusAsyncDone, Delay
  <2>2. Pending("do_update_title", c) => Pending("do_update_title", c)'
    BY <2>1, AttachKeeps
  <2> QED BY <1>b, <1>8, <2>2 DEF BusAsyncDone, Titled, TitleOf
<1>9. ASSUME NEW mc \in Addr, BusFailure(mc)
      PROVE  Titled(c)'
  <2>1. MoncellStopStream(mc, 1000) /\ UNCHANGED <<mon, title, req>>
    BY <1>9 DEF BusFailure
  <2> QED BY <1>a, <1>b, <2>1, StopTitles DEF Delay
<1> QED
  BY <1>1, <1>2, <1>3, <1>4, <1>5, <1>6, <1>7, <1>8, <1>9
  DEF Next, Reconfigure, Command, FireTimer, BusWatch, Pipeline, Exited, vars,
      cellVars, MongridInit, MongridInitTooLarge, MongridRun, PipelinePreroll,
      PipelineFrame, PipelineFailure, DoCheckSink

----------------------------------------------------------------------------
(* Theorems: what is shown *)

\* With a window, a started stream whose ASYNC_DONE has been handled is never
\* reported as failed.
THEOREM AckedIsOk == ASSUME Gui PROVE Spec => []AckedMeansOk
<1>1. Init => AckedMeansOk
  BY DEF Init, AckedMeansOk, Live
<1>2. IndInv /\ AckedMeansOk /\ [Next]_vars => AckedMeansOk'
  BY AckedStep DEF IndInv
<1> QED BY Invariance, <1>1, <1>2, PTL DEF Spec

\* A title bar shows what its cell plays, or an update of it is on its way.
THEOREM TitleStaysCurrent == ASSUME Gui PROVE Spec => []TitleCurrent
<1>1. Init => TitleCurrent
  BY DEF Init, TitleCurrent, Live
<1>2. IndInv /\ TitleCurrent /\ [Next]_vars => TitleCurrent'
  BY TitleStep DEF IndInv
<1> QED BY Invariance, <1>1, <1>2, PTL DEF Spec

----------------------------------------------------------------------------
(* MonGrid implements Wall: cells and monitors *)

\* A monitor is a live cell, and the other way round.
LEMMA MonitorOfCell ==
    ASSUME TypeOK, GridOK, NEW mc \in Live
    PROVE  /\ mc \in Addr /\ mc - cells \in 0 .. n_cells - 1
           /\ cells + (mc - cells) = mc
<1>1. cells \in Nat /\ n_cells \in Nat /\ mc \in Nat
  BY AddrAssumption DEF TypeOK, NULL, Live
<1> QED BY <1>1 DEF Live

\* The cells of the monitors lie within the grid that was allocated.
LEMMA CellOfMonitor ==
    ASSUME TypeOK, GridOK, NEW i \in 0 .. n_cells - 1
    PROVE  cells + i \in Addr
BY IndexedCellLive

\* Two monitors are two cells.
LEMMA CellsApart ==
    ASSUME TypeOK, GridOK, NEW i \in 0 .. n_cells - 1,
           NEW j \in 0 .. n_cells - 1
    PROVE  /\ cells + i \in Addr /\ cells + j \in Addr
           /\ cells + i = cells + j <=> i = j
<1>1. cells \in Nat /\ n_cells \in Nat
  BY AddrAssumption DEF TypeOK, NULL
<1> QED BY <1>1, CellOfMonitor

\* A cell's field is changed for its own monitor only.
LEMMA FieldExcept ==
    ASSUME TypeOK, GridOK, NEW f, DOMAIN f = Addr,
           NEW i \in 0 .. n_cells - 1, NEW v, NEW j \in 0 .. n_cells - 1
    PROVE  [f EXCEPT ![cells + i] = v][cells + j]
               = IF j = i THEN v ELSE f[cells + j]
<1>1. /\ cells + i \in Addr /\ cells + j \in Addr
      /\ cells + i = cells + j <=> i = j
  BY CellsApart
<1> DEFINE a == cells + i
           b == cells + j
<1> HIDE DEF a, b
<1>2. a \in Addr /\ b \in Addr /\ (a = b <=> i = j)
  BY <1>1 DEF a, b
<1>3. [f EXCEPT ![a] = v][b] = IF j = i THEN v ELSE f[b]
  BY <1>2, Zenon
<1> QED BY <1>3 DEF a, b

\* To change the cell of a monitor is to change what the wall has of it.
LEMMA CellExcept ==
    ASSUME TypeOK, GridOK, NEW f, DOMAIN f = Addr,
           NEW i \in 0 .. n_cells - 1, NEW v
    PROVE  Cell([f EXCEPT ![cells + i] = v]) = [Cell(f) EXCEPT ![i] = v]
<1>1. ASSUME NEW j \in 0 .. n_cells - 1
      PROVE  [f EXCEPT ![cells + i] = v][cells + j]
                 = IF j = i THEN v ELSE f[cells + j]
  BY FieldExcept
<1> QED BY <1>1, Zenon DEF Cell

\* A step that leaves the array and the cells' fields alone is no step of
\* the wall.
LEMMA Stutter ==
    ASSUME UNCHANGED <<cells, n_cells, req, pipe, started>>
    PROVE  UNCHANGED W!vars
BY DEF W!vars, Cell, Owing

----------------------------------------------------------------------------
(* What a pipeline, its bus and its sample say of each other *)

PipeOK ==
    \A mc \in Addr :
      /\ pipe[mc] # None => req[mc] # None
      /\ bus[mc] # <<>> \/ sample[mc] # "none" => pipe[mc] # None

\* Every step keeps what runs in a pipeline to cells that have one.
LEMMA PipeStep ==
    ASSUME IndInv, PipeOK, [Next]_vars
    PROVE  PipeOK'
<1> USE DEF PipeOK
<1>0. TypeOK /\ GridOK
  BY DEF IndInv
<1>1. CASE UNCHANGED <<req, pipe, bus, sample>>
  BY <1>1
<1>2. CASE MongridReset
  BY <1>2 DEF MongridReset
<1>3. ASSUME NEW idx \in 0 .. n_cells - 1, NEW r \in Request,
             MongridPlayStream(idx, r)
      PROVE  PipeOK'
  BY <1>0, <1>3, RequestAssumption DEF MongridPlayStream, TypeOK
<1>4. ASSUME NEW i \in DOMAIN timers, FireTimer(i)
      PROVE  PipeOK'
  <2>1. CASE FireInvalid(i) \/ DoRestartStarted(i) \/ DoUpdateTitle(i)
    BY <1>1, <2>1 DEF FireInvalid, DoRestartStarted, DoUpdateTitle, cellVars
  <2>2. CASE DoStopStream(i)
    BY <1>0, <2>2 DEF DoStopStream, StopPipelineThen, TypeOK
  <2>3. CASE DoRestart(i)
    <3> DEFINE mc == timers[i].mc
    <3>1. \/ pipe' = [pipe EXCEPT ![mc] = None]
          \/ pipe' = [pipe EXCEPT ![mc] = req[mc]] /\ req[mc] \in Playable
      BY <2>3 DEF DoRestart, StopPipelineThen, StreamStart
    <3>2. /\ sample' = [sample EXCEPT ![mc] = "none"]
          /\ bus' = [bus EXCEPT ![mc] = <<>>] /\ req' = req
      BY <2>3 DEF DoRestart, StopPipelineThen
    <3> HIDE DEF mc
    <3> QED BY <1>0, <3>1, <3>2, RequestAssumption DEF TypeOK
  <2> QED BY <1>4, <2>1, <2>2, <2>3 DEF FireTimer
<1>5. ASSUME NEW mc \in Addr, BusWatch(mc)
      PROVE  PipeOK'
  <2>1. /\ bus[mc] # <<>> /\ bus' = [bus EXCEPT ![mc] = Tail(@)]
        /\ UNCHANGED <<req, pipe, sample>>
    BY <1>5 DEF BusWatch, BusAsyncDone, BusFailure
  <2> QED BY <1>0, <2>1 DEF TypeOK
<1>6. ASSUME NEW mc \in Addr, Pipeline(mc)
      PROVE  PipeOK'
  <2>1. CASE PipelinePreroll(mc)
    BY <1>0, <2>1 DEF PipelinePreroll, TypeOK
  <2>2. CASE PipelineFrame(mc)
    BY <1>0, <2>2 DEF PipelineFrame, TypeOK
  <2>3. CASE PipelineFailure(mc)
    BY <1>0, <2>3 DEF PipelineFailure, TypeOK
  <2> QED BY <1>6, <2>1, <2>2, <2>3 DEF Pipeline
<1>7. CASE DoCheckSink
  <2>1. \A mc \in Addr :
          \/ bus'[mc] = bus[mc] /\ sample'[mc] = "none"
          \/ sample[mc] # "none"
          \/ bus'[mc] = bus[mc] /\ sample'[mc] = sample[mc]
    BY <1>7 DEF DoCheckSink
  <2>2. UNCHANGED <<req, pipe>>
    BY <1>7 DEF DoCheckSink
  <2> QED BY <2>1, <2>2
<1> QED
  BY <1>1, <1>2, <1>3, <1>4, <1>5, <1>6, <1>7
  DEF Next, Reconfigure, Command, Exited, vars, cellVars, MongridInit,
      MongridInitTooLarge, MongridRun, MongridSetMon

----------------------------------------------------------------------------
(* Steps *)

\* mongrid_init and mongrid_reset are a new wall.
LEMMA InitRebuilds ==
    ASSUME IndInv, NEW num \in Nums, NEW base \in Addr, MongridInit(num, base)
    PROVE  W!Next
<1> DEFINE n == NumCells(num)
<1>1. /\ num <= GridLimit /\ n \in Nat \ {0}
      /\ base .. base + n - 1 \subseteq Addr
      /\ cells' = base /\ n_cells' = n
      /\ UNCHANGED <<req, started, pipe>> /\ loop = "setup"
  BY NumsAssumption DEF MongridInit, cellVars
<1>2. base \in Nat
  BY AddrAssumption
<1>3. Live = {}
  BY <1>1, EmptyGrid DEF IndInv, GridOK
<1>4. \A mc \in Addr : req[mc] = None /\ pipe[mc] = None
  BY <1>3 DEF IndInv, FreedUntouched
<1> HIDE DEF n
<1>5. \A i \in 0 .. n - 1 : base + i \in Addr
  BY <1>1, <1>2
<1>6. Cell(req)' = [i \in 0 .. n - 1 |-> None]
  BY <1>1, <1>4, <1>5 DEF Cell
<1>7. Cell(pipe)' = [i \in 0 .. n - 1 |-> None]
  BY <1>1, <1>4, <1>5 DEF Cell
<1>8. Owing' = {}
  BY <1>1, <1>4, <1>5 DEF Owing
<1>9. n \in {0} \cup {NumCells(m) : m \in {k \in Nums : k <= GridLimit}}
  BY <1>1 DEF n
<1> QED BY <1>6, <1>7, <1>8, <1>9 DEF W!Next, W!Rebuild, W!Blank

\* A grid without cells is a wall that is taken down and rebuilt.
LEMMA EmptyRebuilds ==
    ASSUME n_cells' = 0
    PROVE  W!Next
<1>1. \A x : x \notin 0 .. 0 - 1
  OBVIOUS
<1>2. /\ Cell(req)' = [i \in 0 .. 0 - 1 |-> None]
      /\ Cell(pipe)' = [i \in 0 .. 0 - 1 |-> None]
      /\ Owing' = {}
  BY <1>1 DEF Cell, Owing
<1> QED BY <1>2 DEF W!Next, W!Rebuild, W!Blank

\* A "play" command asks.
LEMMA PlayAsks ==
    ASSUME IndInv, NEW idx \in 0 .. n_cells - 1, NEW r \in Request,
           MongridPlayStream(idx, r)
    PROVE  W!Next
<1> DEFINE mc == cells + idx
<1>1. /\ req' = [req EXCEPT ![mc] = r]
      /\ started' = [started EXCEPT ![mc] = FALSE]
      /\ UNCHANGED <<cells, n_cells, pipe>>
  BY DEF MongridPlayStream, MoncellStopStream
<1>2. TypeOK /\ GridOK /\ cells \in Nat /\ n_cells \in Nat
  BY AddrAssumption DEF IndInv, TypeOK, NULL
<1>3. \A j \in 0 .. n_cells - 1 : cells + j \in Addr
  BY <1>2, CellOfMonitor
<1>4. Cell(req)' = [Cell(req) EXCEPT ![idx] = r]
  <2>1. Cell(req)' = Cell([req EXCEPT ![mc] = r])
    BY <1>1 DEF Cell
  <2> QED BY <1>2, <2>1, CellExcept DEF TypeOK
<1>5. Cell(pipe)' = Cell(pipe)
  BY <1>1 DEF Cell
<1>6. Owing' = Owing \cup {idx}
  <2>1. \A j \in 0 .. n_cells - 1 :
          req'[cells + j] = IF j = idx THEN r ELSE req[cells + j]
    <3>1. DOMAIN req = Addr
      BY <1>2 DEF TypeOK
    <3>2. ASSUME NEW j \in 0 .. n_cells - 1
          PROVE  [req EXCEPT ![cells + idx] = r][cells + j]
                = IF j = idx THEN r ELSE req[cells + j]
      BY <1>2, <3>1, FieldExcept
    <3> QED BY <1>1, <3>2
  <2>2. /\ ~started'[cells + idx]
        /\ \A j \in 0 .. n_cells - 1 :
             j # idx => started'[cells + j] = started[cells + j]
    <3>1. DOMAIN started = Addr /\ cells + idx \in Addr
      BY <1>2, CellOfMonitor DEF TypeOK
    <3>2. ASSUME NEW j \in 0 .. n_cells - 1, j # idx
          PROVE  cells + j \in Addr /\ cells + j # cells + idx
      BY <1>2, <3>2, CellsApart
    <3> QED BY <1>1, <3>1, <3>2
  <2>3. r # None
    BY RequestAssumption
  <2> QED BY <1>1, <2>1, <2>2, <2>3 DEF Owing
<1>7. idx \in DOMAIN Cell(req)
  BY DEF Cell
<1> QED BY <1>4, <1>5, <1>6, <1>7 DEF W!Next, W!Ask, W!Monitors

\* A failure on the bus of a pipeline owes a start.
LEMMA FailureFails ==
    ASSUME IndInv, PipeOK, NEW mc \in Addr, BusFailure(mc)
    PROVE  W!Next
<1> DEFINE idx == mc - cells
<1>1. /\ bus[mc] # <<>> /\ started' = [started EXCEPT ![mc] = FALSE]
      /\ UNCHANGED <<cells, n_cells, req, pipe>>
  BY DEF BusFailure, MoncellStopStream
<1>2. TypeOK /\ GridOK /\ cells \in Nat /\ n_cells \in Nat
  BY AddrAssumption DEF IndInv, TypeOK, NULL
<1>3. mc \in Live
  BY <1>1, ActiveIsLive DEF IndInv
<1>4. idx \in 0 .. n_cells - 1 /\ cells + idx = mc
  BY <1>2, <1>3, MonitorOfCell
<1>5. pipe[mc] # None /\ req[mc] # None
  BY <1>1 DEF PipeOK
<1> HIDE DEF idx
<1>6. \A j \in 0 .. n_cells - 1 : cells + j \in Addr
  BY <1>2, CellOfMonitor
<1>7. Cell(req)' = Cell(req) /\ Cell(pipe)' = Cell(pipe)
  BY <1>1 DEF Cell
<1>8. Owing' = Owing \cup {idx}
  <2>1. /\ ~started'[cells + idx]
        /\ \A j \in 0 .. n_cells - 1 :
             j # idx => started'[cells + j] = started[cells + j]
    <3>1. DOMAIN started = Addr /\ cells + idx \in Addr
      BY <1>2, <1>4, CellOfMonitor DEF TypeOK
    <3>2. ASSUME NEW j \in 0 .. n_cells - 1, j # idx
          PROVE  cells + j \in Addr /\ cells + j # cells + idx
      BY <1>2, <1>4, <3>2, CellsApart
    <3> QED BY <1>1, <1>4, <3>1, <3>2
  <2> QED BY <1>1, <1>4, <1>5, <2>1 DEF Owing
<1>9. idx \in DOMAIN Cell(req) /\ Cell(pipe)[idx] # None
  BY <1>4, <1>5 DEF Cell
<1> QED BY <1>7, <1>8, <1>9 DEF W!Next, W!Fail, W!Monitors

\* do_stop_stream darkens the monitor of its cell.
LEMMA StopDarkens ==
    ASSUME IndInv, NEW i \in DOMAIN timers, DoStopStream(i)
    PROVE  W!Next
<1> DEFINE mc == timers[i].mc
           idx == mc - cells
<1>1. /\ Fire(i) /\ IsMoncellValid(mc) /\ pipe' = [pipe EXCEPT ![mc] = None]
      /\ UNCHANGED <<cells, n_cells, req, started>>
  BY DEF DoStopStream, StopPipelineThen
<1>2. TypeOK /\ GridOK
  BY DEF IndInv
<1>3. mc \in Live
  BY <1>1, <1>2, FireType, ValidIsLive
<1>4. idx \in 0 .. n_cells - 1 /\ cells + idx = mc
  BY <1>2, <1>3, MonitorOfCell
<1> HIDE DEF idx, mc
<1>5. Cell(pipe)' = [Cell(pipe) EXCEPT ![idx] = None]
  <2>1. Cell(pipe)' = Cell([pipe EXCEPT ![cells + idx] = None])
    BY <1>1, <1>4 DEF Cell
  <2> QED BY <1>2, <1>4, <2>1, CellExcept DEF TypeOK
<1>6. Cell(req)' = Cell(req) /\ Owing' = Owing
  BY <1>1 DEF Cell, Owing
<1>7. idx \in DOMAIN Cell(req)
  BY <1>4 DEF Cell
<1> QED BY <1>5, <1>6, <1>7 DEF W!Next, W!Darken, W!Monitors

\* do_restart is the start that is owed; on a cell that was never asked for
\* anything, it does nothing a wall can show.
LEMMA RestartStarts ==
    ASSUME IndInv, PipeOK, NEW i \in DOMAIN timers, DoRestart(i)
    PROVE  W!Next \/ UNCHANGED W!vars
<1> DEFINE mc == timers[i].mc
           idx == mc - cells
           new == IF req[mc] \in Playable THEN req[mc] ELSE None
<1>1. /\ Fire(i) /\ IsMoncellValid(mc) /\ ~started[mc]
      /\ pipe' = [pipe EXCEPT ![mc] = new]
      /\ started' = [started EXCEPT ![mc] = TRUE]
      /\ UNCHANGED <<cells, n_cells, req>>
  BY DEF DoRestart, StopPipelineThen, StreamStart
<1>2. TypeOK /\ GridOK /\ cells \in Nat /\ n_cells \in Nat
  BY AddrAssumption DEF IndInv, TypeOK, NULL
<1>3. mc \in Live
  BY <1>1, <1>2, FireType, ValidIsLive
<1>4. idx \in 0 .. n_cells - 1 /\ cells + idx = mc /\ mc \in Addr
  BY <1>2, <1>3, MonitorOfCell
<1> HIDE DEF idx, mc
<1>5. \A j \in 0 .. n_cells - 1 : cells + j \in Addr
  BY <1>2, CellOfMonitor
<1>6. Cell(pipe)' = [Cell(pipe) EXCEPT ![idx] = new]
  <2>1. Cell(pipe)' = Cell([pipe EXCEPT ![cells + idx] = new])
    BY <1>1, <1>4 DEF Cell
  <2> QED BY <1>2, <1>4, <2>1, CellExcept DEF TypeOK
<1>7. Cell(req)' = Cell(req)
  BY <1>1 DEF Cell
<1>8. Owing' = Owing \ {idx}
  <2>1. /\ started'[cells + idx]
        /\ \A j \in 0 .. n_cells - 1 :
             j # idx => started'[cells + j] = started[cells + j]
    <3>1. DOMAIN started = Addr /\ cells + idx \in Addr
      BY <1>2, <1>4, CellOfMonitor DEF TypeOK
    <3>2. ASSUME NEW j \in 0 .. n_cells - 1, j # idx
          PROVE  cells + j \in Addr /\ cells + j # cells + idx
      BY <1>2, <1>4, <3>2, CellsApart
    <3> QED BY <1>1, <1>4, <3>1, <3>2
  <2> QED BY <1>1, <1>4, <2>1 DEF Owing
<1>9. idx \in DOMAIN Cell(req) /\ Cell(req)[idx] = req[mc]
      /\ Cell(pipe)[idx] = pipe[mc]
  BY <1>4 DEF Cell
<1>10. CASE req[mc] # None
  <2>1. idx \in Owing
    BY <1>1, <1>4, <1>10 DEF Owing
  <2>2. Cell(pipe)' = [Cell(pipe) EXCEPT ![idx] =
                         IF Cell(req)[idx] \in Playable THEN Cell(req)[idx]
                         ELSE None]
    BY <1>6, <1>9
  <2> QED BY <1>7, <1>8, <1>9, <2>1, <2>2 DEF W!Next, W!Start, W!Monitors
<1>11. CASE req[mc] = None
  <2>1. pipe[mc] = None /\ new = None
    BY <1>4, <1>11, RequestAssumption DEF PipeOK
  <2>2. Cell(pipe)' = Cell(pipe)
    BY <1>6, <1>9, <2>1 DEF Cell
  <2>3. idx \notin Owing
    BY <1>4, <1>11 DEF Owing
  <2> QED BY <1>7, <1>8, <2>2, <2>3 DEF W!vars
<1> QED BY <1>10, <1>11

\* Every step of the grid is a step of the wall, or none.
LEMMA WallStep ==
    ASSUME IndInv, PipeOK, [Next]_vars
    PROVE  W!Next \/ UNCHANGED W!vars
<1>1. ASSUME NEW num \in Nums, MongridInitTooLarge(num)
      PROVE  W!Next
  BY <1>1, EmptyRebuilds DEF MongridInitTooLarge
<1>2. CASE MongridReset
  BY <1>2, EmptyRebuilds DEF MongridReset
<1>3. CASE MongridRun \/ Exited \/ DoCheckSink \/ UNCHANGED vars
  BY <1>3, Stutter DEF MongridRun, Exited, DoCheckSink, vars, cellVars
<1>4. CASE Command
  <2>1. ASSUME NEW idx \in 0 .. n_cells - 1, NEW m \in Monitor \cup {None},
               MongridSetMon(idx, m)
        PROVE  UNCHANGED W!vars
    BY <2>1, Stutter DEF MongridSetMon
  <2> QED BY <1>4, <2>1, PlayAsks DEF Command
<1>5. ASSUME NEW i \in DOMAIN timers, FireTimer(i)
      PROVE  W!Next \/ UNCHANGED W!vars
  <2>1. CASE FireInvalid(i) \/ DoRestartStarted(i) \/ DoUpdateTitle(i)
    BY <2>1, Stutter DEF FireInvalid, DoRestartStarted, DoUpdateTitle, cellVars
  <2> QED BY <1>5, <2>1, StopDarkens, RestartStarts DEF FireTimer
<1>6. ASSUME NEW mc \in Addr, BusWatch(mc) \/ Pipeline(mc)
      PROVE  W!Next \/ UNCHANGED W!vars
  <2>1. CASE BusAsyncDone(mc) \/ Pipeline(mc)
    BY <2>1, Stutter DEF BusAsyncDone, Pipeline, PipelinePreroll,
                         PipelineFrame, PipelineFailure
  <2> QED BY <1>6, <2>1, FailureFails DEF BusWatch
<1> QED
  BY <1>1, <1>2, <1>3, <1>4, <1>5, <1>6, InitRebuilds DEF Next, Reconfigure

----------------------------------------------------------------------------
\* The grid implements the wall: the monitors only start to show what they
\* are asked for, when a start is owed, and a new wall starts blank.
THEOREM GridImplementsWall == Spec => WallKept
<1>1. Init => W!Init /\ PipeOK
  <2> SUFFICES ASSUME Init PROVE W!Init /\ PipeOK
    OBVIOUS
  <2>1. \A x : x \notin 0 .. 0 - 1
    OBVIOUS
  <2>2. /\ Cell(req) = [i \in 0 .. 0 - 1 |-> None]
        /\ Cell(pipe) = [i \in 0 .. 0 - 1 |-> None] /\ Owing = {}
    BY <2>1 DEF Init, Cell, Owing
  <2> QED BY <2>2 DEF Init, PipeOK, W!Init, W!Blank
<1>2. IndInv /\ PipeOK /\ [Next]_vars => PipeOK'
  BY PipeStep
<1>3. IndInv /\ PipeOK /\ [Next]_vars => [W!Next]_(W!vars)
  BY WallStep
<1> QED BY <1>1, <1>2, <1>3, Invariance, PTL DEF Spec, WallKept, W!Spec
=============================================================================
