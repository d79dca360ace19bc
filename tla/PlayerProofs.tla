---------------------------- MODULE PlayerProofs ----------------------------
(***************************************************************************)
(* Proofs about Player: its types, and that a rebuild of the grid runs     *)
(* undisturbed by the command thread, for any number of monitors.          *)
(***************************************************************************)
EXTENDS Player, TLAPS

\* The main thread works through the files of a count the grid accepts.
LoadOK ==
    /\ main \in {"read", "apply"} => mon \in 1 .. MaxIndex + 1
    /\ main = "apply" => next < mon

\* The command thread works on what its command carried.
ArgOK ==
    /\ cmd \in {"apply", "open", "write", "fetch"} => arg.value \in Setting
    /\ cmd \in {"open_config", "write_config"} => arg.value \in Count

\* Without an early command, the command thread is idle until the GTK loop is
\* entered first, and the flag stays cleared until it asks the loop to quit.
HandshakeOK ==
    /\ entered => main # "start"
    /\ ~overlap /\ ~entered => cmd = "recv"
    /\ ~overlap /\ cmd = "quit" => ~running
    /\ RebuildUndisturbed

IndInv == TypeOK /\ LoadOK /\ ArgOK /\ HandshakeOK

\* The initial state is one of the invariant's.
THEOREM InitInv == Init => IndInv
<1> SUFFICES ASSUME Init PROVE IndInv
  OBVIOUS
<1> USE DEF Init, Index, NoSetting, NoCommand
<1>1. TypeOK
  <2>1. /\ mon \in Count \cup {1} /\ next \in 0 .. MaxIndex + 1
        /\ arg \in [index : Index, value : Setting \cup Count \cup {None}]
        /\ view \in [Index -> Setting \cup {None}]
        /\ file \in [Index -> Setting \cup {None, Empty}]
    BY IndexAssumption
  <2> QED BY <2>1 DEF TypeOK
<1>2. LoadOK /\ ArgOK /\ HandshakeOK
  BY DEF LoadOK, ArgOK, HandshakeOK, RebuildUndisturbed, Rebuilding
<1> QED BY <1>1, <1>2 DEF IndInv

\* An empty grid tells its cells nothing.
LEMMA NoSettingType == NoSetting \in [Index -> Setting \cup {None}]
BY DEF NoSetting

\* What a cell is told keeps the type of the view.
LEMMA ToldType ==
  ASSUME TypeOK, NEW i \in Index, NEW s \in Setting
  PROVE  Told(i, s) \in [Index -> Setting \cup {None}]
BY DEF TypeOK, Told

\* Every step of either thread, and a crash, keeps the types.
LEMMA TypeStep ==
  ASSUME IndInv, Next
  PROVE  TypeOK' /\ LoadOK' /\ ArgOK'
<1> USE IndexAssumption, FileAssumption DEF IndInv, TypeOK, LoadOK, ArgOK, Index
<1> USE DEF mainVars, cmdVars, gridVars, files, history
<1>1. CASE Start
  <2>1. TypeOK'
    BY <1>1 DEF Start
  <2>2. LoadOK' /\ ArgOK'
    BY <1>1 DEF Start
  <2> QED BY <2>1, <2>2
<1>2. CASE LoadConfig
  BY <1>2 DEF LoadConfig
<1>3. CASE MongridInit
  <2>1. TypeOK'
    <3>1. n_cells' \in Nat
      BY <1>3, CountAssumption DEF MongridInit
    <3>2. view' \in [Index -> Setting \cup {None}]
      <4>1. view' = NoSetting
        BY <1>3 DEF MongridInit
      <4> QED BY ONLY <4>1, NoSettingType
    <3>3. main' = "read" /\ next' = 0 /\ running' = FALSE
      BY <1>3 DEF MongridInit
    <3>4. UNCHANGED <<mon, buf, cmd, arg, configuring, config, file, entered,
                      overlap, unsaved>>
      BY <1>3 DEF MongridInit
    <3>5. next' \in 0 .. MaxIndex + 1
      BY <3>3
    <3>6. (buf \in Setting \cup {None, Empty})' /\ (mon \in Count \cup {1})'
      BY <3>4
    <3>7. (/\ arg \in [index : Index, value : Setting \cup Count \cup {None}]
           /\ config \in Count \cup {None, Empty}
           /\ file \in [Index -> Setting \cup {None, Empty}])'
      BY <3>4
    <3>8. (/\ configuring \in BOOLEAN /\ running \in BOOLEAN
           /\ overlap \in BOOLEAN /\ entered \in BOOLEAN
           /\ unsaved \subseteq Index)'
      BY <3>3, <3>4
    <3> QED BY <3>1, <3>2, <3>3, <3>4, <3>5, <3>6, <3>7, <3>8
  <2>2. LoadOK' /\ ArgOK'
    BY <1>3, CountAssumption DEF MongridInit
  <2> QED BY <2>1, <2>2
<1>4. CASE MongridInitTooLarge
  BY <1>4 DEF MongridInitTooLarge
<1>5. CASE ReadFile
  BY <1>5 DEF ReadFile
<1>6. CASE ApplyFile
  <2>1. next \in Index /\ next' = next + 1 /\ next' \in 0 .. MaxIndex + 1
    BY <1>6 DEF ApplyFile
  <2>2. view' \in [Index -> Setting \cup {None}]
    BY <1>6, <2>1, ToldType DEF ApplyFile
  <2> QED BY <1>6, <2>1, <2>2 DEF ApplyFile
<1>7. CASE FilesLoaded \/ SetRunning \/ EnterLoop
  BY <1>7 DEF FilesLoaded, SetRunning, EnterLoop
<1>8. CASE MongridReset
  <2>1. view' \in [Index -> Setting \cup {None}]
    <3>1. view' = NoSetting
      BY <1>8 DEF MongridReset
    <3> QED BY ONLY <3>1, NoSettingType
  <2> QED BY <1>8, <2>1 DEF MongridReset
<1>9. CASE RecvCommand
  <2>1. CASE \E i \in Index, s \in Setting : RecvSetting(i, s)
    BY <2>1 DEF RecvSetting, Met
  <2>2. CASE RecvConfigZero
    BY <2>2 DEF RecvConfigZero, Met
  <2>3. CASE \E n \in Count : RecvConfig(n)
    BY <2>3 DEF RecvConfig, Met
  <2> QED BY <1>9, <2>1, <2>2, <2>3 DEF RecvCommand
<1>10. CASE ApplySetting
  <2>1. view' \in [Index -> Setting \cup {None}]
    BY <1>10, ToldType DEF ApplySetting
  <2> QED BY <1>10, <2>1 DEF ApplySetting
<1>11. CASE OpenFile \/ WriteFile \/ StoreFails
  BY <1>11 DEF OpenFile, WriteFile, StoreFails
<1>12. CASE FetchedPlay
  <2>1. view' \in [Index -> Setting \cup {None}]
    BY <1>12, ToldType DEF FetchedPlay
  <2> QED BY <1>12, <2>1 DEF FetchedPlay, NoCommand
<1>13. CASE NothingFetched \/ Restarted
  <2>1. arg' = NoCommand /\ NoCommand \in [index : Index,
                                            value : Setting \cup Count \cup {None}]
    BY <1>13 DEF NothingFetched, Restarted, NoCommand
  <2>2. CASE NothingFetched
    BY <2>1, <2>2 DEF NothingFetched
  <2>3. CASE Restarted
    BY <2>1, <2>3 DEF Restarted
  <2> QED BY <1>13, <2>2, <2>3
<1>14. CASE OpenConfig \/ WriteConfig \/ StoreConfigFails
  BY <1>14 DEF OpenConfig, WriteConfig, StoreConfigFails
<1>15. CASE ClearRunning
  BY <1>15 DEF ClearRunning
<1>16. CASE GtkMainQuit
  BY <1>16 DEF GtkMainQuit
<1>17. CASE Crash
  <2>1. TypeOK'
    <3>1. /\ arg' \in [index : Index, value : Setting \cup Count \cup {None}]
          /\ view' \in [Index -> Setting \cup {None}]
          /\ next' \in 0 .. MaxIndex + 1
      BY <1>17 DEF Crash, NoSetting, NoCommand
    <3> QED BY <1>17, <3>1 DEF Crash
  <2>2. LoadOK' /\ ArgOK'
    BY <1>17 DEF Crash
  <2> QED BY <2>1, <2>2
<1> QED BY <1>1, <1>2, <1>3, <1>4, <1>5, <1>6, <1>7, <1>8, <1>9, <1>10,
           <1>11, <1>12, <1>13, <1>14, <1>15, <1>16, <1>17
        DEF Next, MainThread, HandleCommand

\* Every step keeps the handshake: what starts a rebuild is the command
\* thread's own gtk_main_quit, after which it waits for the flag, and the
\* flag is set by the last step of the rebuild.
LEMMA HandshakeStep ==
  ASSUME IndInv, Next
  PROVE  HandshakeOK'
<1>0. /\ HandshakeOK
      /\ entered \in BOOLEAN /\ overlap \in BOOLEAN /\ running \in BOOLEAN
  BY DEF IndInv, TypeOK
<1> USE <1>0 DEF HandshakeOK, RebuildUndisturbed, Rebuilding
<1> USE DEF mainVars, cmdVars, gridVars, files, history
<1>1. CASE Start \/ LoadConfig \/ MongridInit \/ MongridInitTooLarge
  BY <1>1 DEF Start, LoadConfig, MongridInit, MongridInitTooLarge
<1>2. CASE ReadFile \/ ApplyFile \/ FilesLoaded
  BY <1>2 DEF ReadFile, ApplyFile, FilesLoaded
<1>3. CASE SetRunning
  BY <1>3 DEF SetRunning
<1>4. CASE EnterLoop \/ MongridReset
  BY <1>4 DEF EnterLoop, MongridReset
<1>5. CASE RecvCommand
  <2>1. CASE \E i \in Index, s \in Setting : RecvSetting(i, s)
    <3>1. (overlap' <=> overlap \/ ~entered) /\ entered' = entered
      BY <2>1 DEF RecvSetting, Met
    <3> QED BY <2>1, <3>1 DEF RecvSetting
  <2>2. CASE RecvConfigZero
    BY <2>2 DEF RecvConfigZero, Met
  <2>3. CASE \E n \in Count : RecvConfig(n)
    <3>1. (overlap' <=> overlap \/ ~entered) /\ entered' = entered
      BY <2>3 DEF RecvConfig, Met
    <3> QED BY <2>3, <3>1 DEF RecvConfig
  <2> QED BY <1>5, <2>1, <2>2, <2>3 DEF RecvCommand
<1>6. CASE ApplySetting \/ OpenFile \/ WriteFile \/ StoreFails
           \/ FetchedPlay \/ NothingFetched
  BY <1>6 DEF ApplySetting, OpenFile, WriteFile, StoreFails, FetchedPlay,
              NothingFetched
<1>7. CASE OpenConfig \/ WriteConfig \/ StoreConfigFails
  BY <1>7 DEF OpenConfig, WriteConfig, StoreConfigFails
<1>8. CASE ClearRunning
  BY <1>8 DEF ClearRunning
<1>9. CASE GtkMainQuit
  BY <1>9 DEF GtkMainQuit
<1>10. CASE Restarted
  BY <1>10 DEF Restarted
<1>11. CASE Crash
  BY <1>11 DEF Crash
<1> QED BY <1>1, <1>2, <1>3, <1>4, <1>5, <1>6, <1>7, <1>8, <1>9, <1>10, <1>11
        DEF Next, MainThread, HandleCommand

\* The invariant is inductive.
THEOREM StepInv == IndInv /\ [Next]_vars => IndInv'
<1>1. ASSUME IndInv, Next PROVE IndInv'
  BY <1>1, TypeStep, HandshakeStep DEF IndInv
<1>2. ASSUME IndInv, UNCHANGED vars PROVE IndInv'
  BY <1>2 DEF IndInv, vars, mainVars, cmdVars, gridVars, files, history,
              TypeOK, LoadOK, ArgOK, HandshakeOK, RebuildUndisturbed,
              Rebuilding
<1> QED BY <1>1, <1>2

\* The invariant holds in every reachable state.
THEOREM Invariance == Spec => []IndInv
BY InitInv, StepInv, PTL DEF Spec

\* Every variable keeps its type, and no index leaves the files.
THEOREM TypeCorrect == Spec => []TypeOK
<1>1. IndInv => TypeOK
  BY DEF IndInv
<1> QED BY <1>1, Invariance, PTL

\* Once the program is up, the main thread rebuilds the grid with the command
\* thread waiting, whatever commands came before (mongrid_restart).
THEOREM RebuildIsUndisturbed == Spec => []RebuildUndisturbed
<1>1. IndInv => RebuildUndisturbed
  BY DEF IndInv, HandshakeOK
<1> QED BY <1>1, Invariance, PTL

----------------------------------------------------------------------------
(* Between commands the grid is what the files say. *)

\* The grid stands, and no config command is being handled.
Steady ==
    /\ main \in {"gtk_main", "loop"}
    /\ \/ cmd \in {"recv", "apply", "open", "write", "fetch"}
       \/ cmd = "wait" /\ running

Matches(i) == i \notin unsaved => view[i] = FileView(i)

\* While the grid is built: its size, then the files up to the next one.
LoadingOK ==
    /\ main \in {"init", "read", "apply", "run"} => mon = Configured
    /\ main \in {"read", "apply", "run"} => n_cells = NumCells(mon) /\ mon <= n_cells
    /\ main \in {"read", "apply"} =>
         /\ next <= mon
         /\ \A i \in 0 .. mon - 1 :
              view[i] = IF i < next THEN FileView(i) ELSE None
    /\ main = "apply" => buf = file[next]
    /\ main = "run" => \A i \in 0 .. mon - 1 : Matches(i)

\* While it stands: only the monitor whose setting is being stored may
\* differ from its file, and it shows that setting.
StandingOK ==
    Steady =>
      /\ mon = Configured /\ n_cells = NumCells(mon) /\ mon <= n_cells
      /\ ~configuring => \A i \in 0 .. mon - 1 :
           IF cmd \in {"open", "write"} /\ i = arg.index
           THEN view[i] = arg.value ELSE Matches(i)

FilesOK ==
    /\ main \in {"run", "gtk_main", "loop"} => mon \in 1 .. MaxIndex + 1
    /\ cmd \in {"quit", "wait"} => ~configuring
    /\ ~overlap =>
         /\ ~entered => ~configuring
         /\ cmd = "fetch" /\ arg.index \notin unsaved =>
              file[arg.index] = arg.value
         /\ LoadingOK /\ StandingOK

FilesInv == IndInv /\ FilesOK

\* What cells show after one of them was told a setting.
LEMMA ToldIs ==
  ASSUME TypeOK, NEW i \in Index, i < n_cells, NEW s, NEW j \in Index
  PROVE  Told(i, s)[j] = IF j = i THEN s ELSE view[j]
BY DEF TypeOK, Told

\* Before any command, and while the grid is rebuilt, the player is not being
\* configured, and the command thread does not touch files or cells.
LEMMA Quiet ==
  ASSUME FilesInv, ~overlap, Rebuilding
  PROVE  ~configuring /\ cmd \in {"recv", "wait"} /\ (cmd = "wait" => ~running)
BY DEF FilesInv, IndInv, HandshakeOK, RebuildUndisturbed, FilesOK

\* A command is carried out while the grid stands, if none came too early.
LEMMA Standing ==
  ASSUME FilesInv, ~overlap, main # "exited",
         \/ cmd \in {"apply", "open", "write", "fetch", "quit"}
         \/ cmd \in {"open_config", "write_config", "restart"}
         \/ cmd = "wait" /\ running
  PROVE  main \in {"gtk_main", "loop"} /\ entered
BY DEF FilesInv, IndInv, TypeOK, HandshakeOK, RebuildUndisturbed, Rebuilding

\* The initial state is one of the invariant's.
LEMMA FilesInit == Init => FilesInv
BY InitInv DEF FilesInv, FilesOK, LoadingOK, StandingOK, Steady, Init

\* The steps of the main thread build the grid from the files.
LEMMA FilesMainStep ==
  ASSUME FilesInv, MainThread
  PROVE  FilesOK'
<1>0. /\ TypeOK /\ LoadOK /\ FilesOK
      /\ view \in [Index -> Setting \cup {None}] /\ next \in Nat
      /\ entered => main # "start"
  BY IndexAssumption DEF FilesInv, IndInv, TypeOK, HandshakeOK
<1>0a. mon \in 1 .. MaxIndex + 1 => \A i \in 0 .. mon - 1 : i \in Index
  BY IndexAssumption DEF Index
<1> USE DEF mainVars, cmdVars, gridVars, files, history
<1>1. CASE Start
  BY <1>0, <1>1 DEF Start, FilesOK, LoadingOK, StandingOK, Steady
<1>2. CASE LoadConfig
  BY <1>0, <1>2 DEF LoadConfig, FilesOK, LoadingOK, StandingOK, Steady,
                    Configured
<1>3. CASE MongridInit
  <2>1. /\ main' = "read" /\ next' = 0 /\ n_cells' = NumCells(mon)
        /\ view' = NoSetting /\ main = "init"
        /\ UNCHANGED <<mon, cmd, arg, configuring, config, file, history>>
    BY <1>3 DEF MongridInit
  <2>2. mon \in 1 .. MaxIndex + 1 /\ mon <= n_cells'
    BY <1>0, <1>3, CountAssumption DEF MongridInit, TypeOK
  <2>3. \A i \in 0 .. mon - 1 : view'[i] = None
    BY <2>1, <2>2, <1>0a DEF NoSetting
  <2>4. ~overlap => LoadingOK'
    BY <1>0, <2>1, <2>2, <2>3 DEF FilesOK, LoadingOK, Configured
  <2> QED BY <1>0, <2>1, <2>4 DEF FilesOK, StandingOK, Steady
<1>4. CASE MongridInitTooLarge
  BY <1>0, <1>4 DEF MongridInitTooLarge, FilesOK, LoadingOK, StandingOK, Steady
<1>5. CASE ReadFile
  BY <1>0, <1>5 DEF ReadFile, FilesOK, LoadingOK, StandingOK, Steady,
                    Configured, FileView
<1>6. CASE ApplyFile
  <2>1. /\ main = "apply" /\ main' = "read" /\ next' = next + 1 /\ next < mon
        /\ mon \in 1 .. MaxIndex + 1 /\ next \in Index
        /\ view' = IF buf \in Setting /\ ~configuring THEN Told(next, buf)
                   ELSE view
        /\ UNCHANGED <<mon, buf, cmd, arg, configuring, running, n_cells,
                       config, file, history>>
    BY <1>0, <1>6, IndexAssumption DEF ApplyFile, LoadOK, Index
  <2>2. ASSUME ~overlap
        PROVE  \A i \in 0 .. mon - 1 :
                 view'[i] = IF i < next + 1 THEN FileView(i) ELSE None
    <3>1. ~configuring /\ LoadingOK
      BY <1>0, <2>1, <2>2, Quiet DEF FilesOK, Rebuilding
    <3> TAKE i \in 0 .. mon - 1
    <3>2. /\ i \in Index /\ next < n_cells /\ buf = file[next]
          /\ view[i] = IF i < next THEN FileView(i) ELSE None
      BY <2>1, <3>1, <1>0a, <1>0 DEF LoadingOK, TypeOK
    <3>3. CASE buf \in Setting
      <4>1. view'[i] = IF i = next THEN buf ELSE view[i]
        BY <1>0, <2>1, <3>1, <3>2, <3>3, ToldIs
      <4> QED BY <1>0, <2>1, <3>2, <3>3, <4>1 DEF FileView
    <3>4. CASE buf \notin Setting
      BY <1>0, <2>1, <3>2, <3>4 DEF FileView
    <3> QED BY <3>3, <3>4
  <2>3. ~overlap => LoadingOK'
    BY <1>0, <2>1, <2>2 DEF FilesOK, LoadingOK, Configured, FileView
  <2> QED BY <1>0, <2>1, <2>3 DEF FilesOK, StandingOK, Steady
<1>7. CASE FilesLoaded
  <2>1. /\ main = "read" /\ main' = "run" /\ next = mon
        /\ UNCHANGED <<mon, cmd, arg, configuring, n_cells, view, config, file,
                       history>>
    BY <1>7 DEF FilesLoaded
  <2>2. ~overlap => LoadingOK'
    BY <1>0, <2>1 DEF FilesOK, LoadingOK, Configured, FileView, Matches
  <2> QED BY <1>0, <2>1, <2>2 DEF FilesOK, StandingOK, Steady, LoadOK
<1>8. CASE SetRunning
  <2>1. ASSUME ~overlap PROVE cmd \in {"recv", "wait"}
    BY <1>8, <2>1, Quiet DEF SetRunning, Rebuilding
  <2>2. ~overlap => StandingOK'
    BY <1>0, <1>8, <2>1 DEF SetRunning, FilesOK, LoadingOK, StandingOK, Steady,
                            Configured, FileView, Matches
  <2> QED BY <1>0, <1>8, <2>2 DEF SetRunning, FilesOK, LoadingOK
<1>9. CASE EnterLoop
  BY <1>0, <1>9 DEF EnterLoop, FilesOK, LoadingOK, StandingOK, Steady,
                    Configured, FileView, Matches
<1>10. CASE MongridReset
  <2>1. ASSUME ~overlap PROVE cmd \in {"recv", "wait"}
    BY <1>10, <2>1, Quiet DEF MongridReset, Rebuilding
  <2> QED BY <1>0, <1>10, <2>1 DEF MongridReset, FilesOK, LoadingOK, StandingOK,
                                   Steady
<1> QED BY <1>1, <1>2, <1>3, <1>4, <1>5, <1>6, <1>7, <1>8, <1>9, <1>10
        DEF MainThread

\* The steps of the command thread keep cells and files together.
LEMMA FilesCommandStep ==
  ASSUME FilesInv, HandleCommand
  PROVE  FilesOK'
<1>0. /\ TypeOK /\ LoadOK /\ ArgOK /\ FilesOK /\ main # "exited"
      /\ view \in [Index -> Setting \cup {None}]
      /\ file \in [Index -> Setting \cup {None, Empty}]
      /\ arg.index \in Index
  BY DEF FilesInv, IndInv, TypeOK, HandleCommand
<1>0a. mon \in 1 .. MaxIndex + 1 => \A i \in 0 .. mon - 1 : i \in Index
  BY IndexAssumption DEF Index
<1>0b. \A n \in Nat : arg.index < n \/ \A i \in 0 .. n - 1 : i # arg.index
  BY <1>0, IndexAssumption DEF Index
<1> USE DEF mainVars, cmdVars, gridVars, files, history
<1>1. CASE ApplySetting
  <2>1. CASE overlap
    BY <1>0, <1>1, <2>1 DEF ApplySetting, FilesOK
  <2>2. CASE ~overlap
    <3>1. /\ main \in {"gtk_main", "loop"} /\ mon \in 1 .. MaxIndex + 1
          /\ StandingOK /\ Steady /\ cmd = "apply" /\ mon <= n_cells
      BY <1>0, <1>1, <2>2, Standing DEF ApplySetting, FilesOK, StandingOK,
                                       Steady
    <3>2. ASSUME ~configuring, NEW i \in 0 .. mon - 1
          PROVE  IF i = arg.index THEN view'[i] = arg.value
                 ELSE Matches(i)'
      <4>1. i \in Index /\ view' = Told(arg.index, arg.value) /\ Matches(i)
        BY <1>0a, <1>1, <3>1, <3>2 DEF ApplySetting, StandingOK
      <4>2. CASE arg.index < n_cells
        <5>1. view'[i] = IF i = arg.index THEN arg.value ELSE view[i]
          BY <1>0, <4>1, <4>2, ToldIs
        <5> QED BY <1>1, <4>1, <5>1 DEF ApplySetting, Matches, FileView
      <4>3. CASE ~(arg.index < n_cells)
        <5>1. i # arg.index
          BY <1>0, <3>1, <4>3, IndexAssumption DEF TypeOK, Index
        <5>2. view' = view
          BY <4>1, <4>3 DEF Told
        <5> QED BY <1>1, <4>1, <5>1, <5>2 DEF ApplySetting, Matches, FileView
      <4> QED BY <4>2, <4>3
    <3>3. StandingOK'
      BY <1>1, <3>1, <3>2 DEF ApplySetting, StandingOK, Configured
    <3> QED BY <1>0, <1>1, <3>1, <3>3 DEF ApplySetting, FilesOK, LoadingOK
  <2> QED BY <2>1, <2>2
<1>2. CASE OpenFile \/ WriteFile \/ StoreFails
  <2>0. /\ cmd \in {"open", "write"} /\ cmd' \in {"write", "fetch"}
        /\ UNCHANGED <<main, mon, next, buf, arg, configuring, running, n_cells,
                       view, config, entered, overlap>>
    BY <1>2 DEF OpenFile, WriteFile, StoreFails
  <2>1. CASE overlap
    BY <1>0, <2>0, <2>1 DEF FilesOK
  <2>2. CASE ~overlap
    <3>1. /\ main \in {"gtk_main", "loop"} /\ mon \in 1 .. MaxIndex + 1
          /\ StandingOK /\ Steady /\ arg.value \in Setting
      BY <1>0, <2>0, <2>2, Standing DEF FilesOK, Steady, ArgOK
    <3>2. ASSUME ~configuring, NEW i \in 0 .. mon - 1
          PROVE  IF cmd' = "write" /\ i = arg.index THEN view[i] = arg.value
                 ELSE Matches(i)'
      <4>1. /\ i \in Index
            /\ IF i = arg.index THEN view[i] = arg.value ELSE Matches(i)
        BY <1>0a, <2>0, <3>1, <3>2 DEF StandingOK
      <4>2. i # arg.index => file'[i] = file[i] /\ (i \in unsaved' <=> i \in unsaved)
        BY <1>0, <1>2, <4>1 DEF OpenFile, WriteFile, StoreFails
      <4>3. CASE i # arg.index
        BY <2>0, <4>1, <4>2, <4>3 DEF Matches, FileView
      <4>4. CASE i = arg.index /\ WriteFile
        BY <1>0, <2>0, <3>1, <4>1, <4>4 DEF WriteFile, Matches, FileView
      <4>5. CASE i = arg.index /\ StoreFails
        BY <2>0, <4>1, <4>5 DEF StoreFails, Matches
      <4>6. CASE i = arg.index /\ OpenFile
        BY <2>0, <4>1, <4>6 DEF OpenFile
      <4> QED BY <1>2, <4>3, <4>4, <4>5, <4>6
    <3>3. StandingOK'
      BY <2>0, <3>1, <3>2 DEF StandingOK, Configured, Steady
    <3>4. (cmd = "fetch" /\ arg.index \notin unsaved =>
             file[arg.index] = arg.value)'
      BY <1>0, <1>2 DEF OpenFile, WriteFile, StoreFails
    <3> QED BY <1>0, <2>0, <3>1, <3>3, <3>4 DEF FilesOK, LoadingOK
  <2> QED BY <2>1, <2>2
<1>3. CASE FetchedPlay
  <2>1. CASE overlap
    BY <1>0, <1>3, <2>1 DEF FetchedPlay, FilesOK
  <2>2. CASE ~overlap
    <3>1. /\ main \in {"gtk_main", "loop"} /\ mon \in 1 .. MaxIndex + 1
          /\ StandingOK /\ Steady /\ arg.value \in Setting /\ mon <= n_cells
          /\ arg.index \notin unsaved => file[arg.index] = arg.value
      BY <1>0, <1>3, <2>2, Standing DEF FetchedPlay, FilesOK, StandingOK,
                                       Steady, ArgOK
    <3>2. ASSUME ~configuring, NEW i \in 0 .. mon - 1
          PROVE  Matches(i)'
      <4>1. i \in Index /\ view' = Told(arg.index, arg.value) /\ Matches(i)
        BY <1>0a, <1>3, <3>1, <3>2 DEF FetchedPlay, StandingOK
      <4>2. CASE arg.index < n_cells
        <5>1. view'[i] = IF i = arg.index THEN arg.value ELSE view[i]
          BY <1>0, <4>1, <4>2, ToldIs
        <5> QED BY <1>3, <3>1, <4>1, <5>1 DEF FetchedPlay, Matches, FileView
      <4>3. CASE ~(arg.index < n_cells)
        BY <1>3, <4>1, <4>3 DEF FetchedPlay, Matches, FileView, Told
      <4> QED BY <4>2, <4>3
    <3>3. StandingOK'
      BY <1>3, <3>1, <3>2 DEF FetchedPlay, StandingOK, Configured
    <3> QED BY <1>0, <1>3, <3>1, <3>3 DEF FetchedPlay, FilesOK, LoadingOK
  <2> QED BY <2>1, <2>2
<1>4. CASE NothingFetched \/ Restarted
  <2>0. /\ cmd = "fetch" \/ (cmd = "wait" /\ running)
        /\ cmd' = "recv" /\ arg' = NoCommand
        /\ UNCHANGED <<mainVars, configuring, gridVars, files, history>>
    BY <1>4 DEF NothingFetched, Restarted
  <2>1. CASE overlap
    BY <1>0, <2>0, <2>1 DEF FilesOK
  <2>2. CASE ~overlap
    <3>1. main \in {"gtk_main", "loop"} /\ StandingOK /\ Steady /\ entered
      BY <1>0, <2>0, <2>2, Standing DEF FilesOK, Steady
    <3>2. StandingOK'
      BY <2>0, <3>1 DEF StandingOK, Configured, Matches, FileView
    <3> QED BY <1>0, <2>0, <3>1, <3>2 DEF FilesOK, LoadingOK
  <2> QED BY <2>1, <2>2
<1>5. CASE OpenConfig \/ WriteConfig \/ StoreConfigFails \/ ClearRunning
           \/ GtkMainQuit
  <2>0. /\ cmd \in {"open_config", "write_config", "restart", "quit"}
        /\ cmd' \in {"write_config", "restart", "quit", "wait"}
        /\ cmd' = "quit" => ~configuring'
        /\ cmd' = "wait" => cmd = "quit" /\ UNCHANGED <<configuring, running>>
        /\ UNCHANGED <<mon, history>> /\ (main' = main \/ main' = "reset")
        /\ configuring' => configuring
    BY <1>0, <1>5 DEF OpenConfig, WriteConfig, StoreConfigFails, ClearRunning,
                      GtkMainQuit, TypeOK
  <2>1. CASE overlap
    BY <1>0, <2>0, <2>1 DEF FilesOK
  <2>2. CASE ~overlap
    <3>1. main \in {"gtk_main", "loop"} /\ entered
      BY <1>0, <2>0, <2>2, Standing
    <3>2. cmd = "quit" => ~running
      BY <2>2 DEF FilesInv, IndInv, HandshakeOK
    <3>3. ~Steady'
      BY <2>0, <3>2 DEF Steady
    <3> QED BY <1>0, <2>0, <3>1, <3>3 DEF FilesOK, LoadingOK, StandingOK
  <2> QED BY <2>1, <2>2
<1> QED BY <1>1, <1>2, <1>3, <1>4, <1>5 DEF HandleCommand

\* A command that arrives changes nothing yet.
LEMMA FilesRecvStep ==
  ASSUME FilesInv, RecvCommand
  PROVE  FilesOK'
<1>0. /\ FilesOK /\ overlap \in BOOLEAN /\ entered \in BOOLEAN
      /\ (~overlap /\ Rebuilding => ~entered \/ cmd = "wait")
  BY DEF FilesInv, IndInv, TypeOK, HandshakeOK, RebuildUndisturbed
<1>1. /\ cmd = "recv" /\ (overlap' <=> overlap \/ ~entered) /\ entered' = entered
      /\ UNCHANGED <<mainVars, gridVars, files, unsaved>>
      /\ cmd' \in {"recv", "apply", "open_config"}
      /\ configuring' = configuring \/ configuring' = TRUE
  <2>1. CASE \E i \in Index, s \in Setting : RecvSetting(i, s)
    BY <1>0, <2>1 DEF RecvSetting, Met
  <2>2. CASE RecvConfigZero
    BY <1>0, <2>2 DEF RecvConfigZero, Met, cmdVars
  <2>3. CASE \E n \in Count : RecvConfig(n)
    BY <1>0, <2>3 DEF RecvConfig, Met
  <2> QED BY <2>1, <2>2, <2>3 DEF RecvCommand
<1> USE DEF mainVars, gridVars, files
<1>2. ASSUME ~overlap' PROVE ~overlap /\ entered /\ ~Rebuilding
  BY <1>0, <1>1, <1>2
<1>3. ASSUME ~overlap' PROVE LoadingOK'
  BY <1>0, <1>1, <1>2, <1>3 DEF LoadingOK, Rebuilding
<1>4. ASSUME ~overlap' PROVE StandingOK'
  BY <1>0, <1>1, <1>2, <1>4 DEF FilesOK, StandingOK, Steady, Configured,
                                Matches, FileView
<1> QED BY <1>0, <1>1, <1>2, <1>3, <1>4 DEF FilesOK

\* The invariant is inductive.
LEMMA FilesStep == FilesInv /\ [Next]_vars => FilesInv'
<1> SUFFICES ASSUME FilesInv, [Next]_vars PROVE FilesInv'
  OBVIOUS
<1>1. IndInv'
  BY StepInv DEF FilesInv
<1>2. CASE Crash
  BY <1>1, <1>2 DEF Crash, FilesInv, FilesOK, LoadingOK, StandingOK, Steady
<1>3. CASE UNCHANGED vars
  BY <1>1, <1>3 DEF FilesInv, FilesOK, LoadingOK, StandingOK, Steady, Matches,
                    Configured, FileView, vars, mainVars, cmdVars, gridVars,
                    files, history
<1> QED BY <1>1, <1>2, <1>3, FilesMainStep, FilesCommandStep, FilesRecvStep
        DEF FilesInv, Next

\* Between commands the grid is what the files say, whatever was commanded,
\* failed to be stored, or was killed before (player_load_cmds).
THEOREM GridIsFiles == Spec => []GridMatchesFiles
<1>1. FilesInv => GridMatchesFiles
  BY DEF FilesInv, FilesOK, StandingOK, Steady, GridMatchesFiles, Matches
<1> QED BY <1>1, FilesInit, FilesStep, PTL DEF Spec
=============================================================================
