--------------------------- MODULE Desktop_proofs ---------------------------
(***************************************************************************)
(* Theorems about Launcher, for any monitors, any number of rounds of the  *)
(* start-up loop and any number of signals; then about Desktop, whose      *)
(* steps are steps of the launcher, for any monitors with shared titles.   *)
(***************************************************************************)
EXTENDS Desktop, TLAPS

USE DEF Child, Command, Trapped, Alive

LEMMA InitInv == Init => LauncherInv
<1> SUFFICES ASSUME Init PROVE LauncherInv
  OBVIOUS
<1>1. TypeOK
  <2>1. stateFile \in BOOLEAN /\ stale \in BOOLEAN /\ written \in BOOLEAN
    BY LauncherAssumption, Zenon DEF Init
  <2>2. attempts \in 0..MaxAttempts /\ signals \in 0..MaxSignals
    BY LauncherAssumption DEF Init
  <2>3. /\ pc \in Command
        /\ process \in [Child -> {"none", "running", "ended", "stuck"}]
        /\ recorded \subseteq Child /\ asked \subseteq Child /\ toKill \subseteq recorded
        /\ heads \subseteq Monitor /\ current \in Child
    BY DEF Init
  <2> QED BY <2>1, <2>2, <2>3, Zenon DEF TypeOK
<1>2. stateFile => stale \/ written
  BY DEF Init
<1>3. Alive = {} /\ \A m \in Monitor : process[m] = "none"
  BY DEF Init
<1>4. pc = "spawn" /\ current = Provider
  BY DEF Init
<1>5. attempts < MaxAttempts
  BY LauncherAssumption DEF Init
<1> QED
  BY <1>1, <1>2, <1>3, <1>4, <1>5 DEF LauncherInv, CleanupIsThorough, DashboardsHaveData

LEMMA StartUpKeepsInv ==
    ASSUME LauncherInv, StartProvider \/ RecordProvider \/ Poll \/ CheckPresent
    PROVE  LauncherInv'
<1> USE LauncherAssumption
          DEF LauncherInv, TypeOK, CleanupIsThorough, DashboardsHaveData, loopVars, fileVars
<1>1. CASE StartProvider
  BY <1>1 DEF StartProvider
<1>2. CASE RecordProvider
  BY <1>2 DEF RecordProvider
<1>3. CASE Poll
  <2>1. /\ pc = "poll" /\ pc' \in {"cleanup", "present", "poll"}
        /\ attempts' \in {attempts, attempts + 1}
        /\ UNCHANGED <<process, recorded, asked, heads, current, toKill,
                       stateFile, stale, written, signals>>
    BY <1>3 DEF Poll
  <2>2. attempts' \in 0..MaxAttempts
    BY <1>3 DEF Poll
  <2>4. pc' = "poll" => attempts' < MaxAttempts
    BY <1>3 DEF Poll
  <2> HIDE DEF TypeOK
  <2>3. TypeOK'
    BY <2>1, <2>2 DEF TypeOK
  <2> QED BY <2>1, <2>3, <2>4
<1>4. CASE CheckPresent
  BY <1>4 DEF CheckPresent
<1> QED BY <1>1, <1>2, <1>3, <1>4

LEMMA DashboardsKeepInv ==
    ASSUME LauncherInv,
           \/ ListMonitors \/ NextHead \/ StartConky \/ RecordConky
           \/ ClickThrough \/ WaitAny
    PROVE  LauncherInv'
<1> USE LauncherAssumption
          DEF LauncherInv, TypeOK, CleanupIsThorough, DashboardsHaveData, loopVars, fileVars
<1>1. CASE ListMonitors
  BY <1>1 DEF ListMonitors
<1>2. CASE NextHead
  BY <1>2 DEF NextHead
<1>3. CASE StartConky
  BY <1>3 DEF StartConky
<1>4. CASE RecordConky
  BY <1>4 DEF RecordConky
<1>5. CASE ClickThrough
  BY <1>5 DEF ClickThrough
<1>6. CASE WaitAny
  BY <1>6 DEF WaitAny
<1> QED BY <1>1, <1>2, <1>3, <1>4, <1>5, <1>6

LEMMA CleanupKeepsInv ==
    ASSUME LauncherInv,
           Cleanup \/ (\E c \in Child : KillChild(c)) \/ EndKill \/ WaitChildren
    PROVE  LauncherInv'
<1> USE LauncherAssumption
          DEF LauncherInv, TypeOK, CleanupIsThorough, DashboardsHaveData, loopVars, fileVars
<1>1. CASE Cleanup
  BY <1>1 DEF Cleanup
<1>2. CASE \E c \in Child : KillChild(c)
  BY <1>2 DEF KillChild
<1>3. CASE EndKill
  BY <1>3 DEF EndKill
<1>4. CASE WaitChildren
  BY <1>4 DEF WaitChildren, Gone
<1> QED BY <1>1, <1>2, <1>3, <1>4

LEMMA OutsideKeepsInv ==
    ASSUME LauncherInv,
           Signal \/ WriteFile \/ \E c \in Child : Heed(c) \/ Quit(c)
    PROVE  LauncherInv'
<1> USE LauncherAssumption
          DEF LauncherInv, TypeOK, CleanupIsThorough, DashboardsHaveData, loopVars, fileVars
<1>1. CASE Signal
  BY <1>1 DEF Signal
<1>2. CASE WriteFile
  BY <1>2 DEF WriteFile
<1>3. ASSUME NEW c \in Child, Heed(c) \/ Quit(c) PROVE LauncherInv'
  <2>1. /\ process[c] = "running"
        /\ \E fate \in {"ended", "stuck"} : process' = [process EXCEPT ![c] = fate]
        /\ UNCHANGED <<pc, recorded, asked, loopVars, toKill, fileVars, signals>>
    BY <1>3 DEF Heed, Quit, Fate
  <2> QED BY <2>1
<1> QED BY <1>1, <1>2, <1>3

LEMMA NextInv == LauncherInv /\ [Next]_vars => LauncherInv'
<1>1. ASSUME LauncherInv, UNCHANGED vars PROVE LauncherInv'
  BY <1>1 DEF vars, loopVars, fileVars, LauncherInv, TypeOK, CleanupIsThorough,
              DashboardsHaveData
<1> QED
  BY <1>1, StartUpKeepsInv, DashboardsKeepInv, CleanupKeepsInv, OutsideKeepsInv
     DEF Next, Shell, Ended

(* The conjunction of the launcher's invariants.                           *)
THEOREM LauncherCorrect == Spec => []LauncherInv
  BY InitInv, NextInv, PTL DEF Spec

(* cleanup leaves no recorded child, and at most the child whose start the *)
(* signal followed.                                                        *)
THEOREM CleanupReachesAllRecorded == Spec => []CleanupIsThorough
<1>1. LauncherInv => CleanupIsThorough
  BY DEF LauncherInv
<1> QED BY <1>1, LauncherCorrect, PTL

(* No dashboard starts before a state file is there, and without an old one *)
(* before this provider has written its own.                               *)
THEOREM DataBeforeDashboards == Spec => []DashboardsHaveData
<1>1. LauncherInv => DashboardsHaveData
  BY DEF LauncherInv
<1> QED BY <1>1, LauncherCorrect, PTL

-----------------------------------------------------------------------------
(* Desktop.                                                                *)

(* Every step of the desktop is a step of the launcher, or leaves it alone.*)
LEMMA DeskStepIsStep == [DeskNext]_deskVars => [Next]_vars
<1> SUFFICES ASSUME [DeskNext]_deskVars PROVE [Next]_vars
  OBVIOUS
<1>1. CASE ChooseStyle \/ DeskEnded \/ UNCHANGED deskVars
  BY <1>1 DEF ChooseStyle, DeskEnded, deskVars, Next
<1>2. CASE DeskShell
  <2>1. CASE Helper
    BY <2>1 DEF Helper, FindWindow, ApplyClickThrough, GiveUp, Next, Shell
  <2>2. CASE Shell
    BY <2>2 DEF Next
  <2> QED BY <1>2, <2>1, <2>2 DEF DeskShell
<1>3. CASE Others
  BY <1>3 DEF Others, Next, MapWindow, ForeignWindow
<1>4. CASE \E c \in Child : DeskHeed(c)
  BY <1>4 DEF DeskHeed, Next
<1> QED BY <1>1, <1>2, <1>3, <1>4 DEF DeskNext

(* The launcher on the desktop is the launcher: what holds of every        *)
(* behaviour of Launcher holds of it too.                                  *)
THEOREM DesktopImplementsLauncher == DeskSpec => Spec
<1>1. DeskInit => Init
  BY DEF DeskInit
<1> QED BY <1>1, DeskStepIsStep, PTL DEF DeskSpec, Spec

LEMMA DeskTypeInit == DeskInit => DeskTypeOK
<1> SUFFICES ASSUME DeskInit PROVE DeskTypeOK
  OBVIOUS
<1>1. TypeOK
  BY InitInv DEF DeskInit, LauncherInv
<1> QED BY <1>1 DEF DeskInit, DeskTypeOK, Maybe

LEMMA DeskTypeKept ==
    ASSUME DeskTypeOK, TypeOK', [DeskNext]_deskVars
    PROVE  DeskTypeOK'
<1> USE DEF DeskTypeOK
<1>1. CASE ChooseStyle
  <2> USE DEF Maybe, Value, Style
  <2>1. UNCHANGED <<vars, windowVars>>
    BY <1>1 DEF ChooseStyle
  <2>2. /\ entry' \in {"start", "configured", "read", "resolve", "started", "refused"}
        /\ ({cli, env, exported, saved, style} \cup held)' \subseteq Maybe
    BY <1>1 DEF ChooseStyle, TestSaved, TestAgain, ReadSaved, Resolve, ResolveStyle, ChangeSaved
  <2> QED BY <2>1, <2>2 DEF windowVars
<1>2. CASE DeskShell
  <2>1. CASE Helper
    BY <1>2, <2>1 DEF DeskShell, Helper, FindWindow, ApplyClickThrough, GiveUp, styleVars
  <2>2. CASE Launch
    BY <1>2, <2>2 DEF DeskShell, Launch, styleVars
  <2> QED BY <1>2, <2>1, <2>2 DEF DeskShell
<1>3. CASE Others
  <2>1. CASE Launch
    BY <1>3, <2>1 DEF Others, Launch, styleVars
  <2>2. CASE \E m \in Monitor : MapWindow(m)
    BY <1>3, <2>2 DEF Others, MapWindow, styleVars
  <2>3. CASE \E m \in Shared : ForeignWindow(m)
    BY <1>3, <2>3 DEF Others, ForeignWindow, styleVars
  <2> QED BY <1>3, <2>1, <2>2, <2>3 DEF Others
<1>4. CASE \E c \in Child : DeskHeed(c)
  BY <1>4 DEF DeskHeed, Launch, styleVars
<1>5. CASE UNCHANGED deskVars
  BY <1>5 DEF deskVars, styleVars, windowVars
<1> QED BY <1>1, <1>2, <1>3, <1>4, <1>5 DEF DeskNext, DeskEnded

(* Every state of the desktop is well typed.                               *)
THEOREM DeskTypeCorrect == DeskSpec => []DeskTypeOK
<1>1. LauncherInv => TypeOK
  BY DEF LauncherInv
<1>2. DeskTypeOK /\ TypeOK' /\ [DeskNext]_deskVars => DeskTypeOK'
  BY DeskTypeKept
<1>3. DeskSpec => []TypeOK
  BY <1>1, DesktopImplementsLauncher, LauncherCorrect, PTL
<1> QED BY <1>2, <1>3, DeskTypeInit, PTL DEF DeskSpec

LEMMA StyleInit == DeskInit => StyleInv
  BY DEF DeskInit, StyleInv, FromFile

LEMMA StyleKept == StyleInv /\ [DeskNext]_deskVars => StyleInv'
<1> SUFFICES ASSUME StyleInv, [DeskNext]_deskVars PROVE StyleInv'
  OBVIOUS
<1> USE DEF StyleInv, FromFile
<1>1. CASE ChooseStyle
  <2>1. CASE TestSaved
    BY <2>1 DEF TestSaved
  <2>2. CASE TestAgain
    BY <2>2 DEF TestAgain
  <2>3. CASE ReadSaved
    BY <2>3 DEF ReadSaved
  <2>4. CASE Resolve
    BY <2>4 DEF Resolve
  <2>5. CASE \E v \in Maybe : ChangeSaved(v)
    BY <2>5 DEF ChangeSaved
  <2> QED BY <1>1, <2>1, <2>2, <2>3, <2>4, <2>5 DEF ChooseStyle
<1>2. CASE UNCHANGED styleVars
  BY <1>2 DEF styleVars
<1> QED
  BY <1>1, <1>2 DEF DeskNext, DeskShell, Others, DeskHeed, DeskEnded, deskVars

(* The dashboards get the style that the option, the environment, the file *)
(* and the default give in this order, and a start is refused only for an  *)
(* invalid one among them, however the file changes meanwhile.             *)
THEOREM StyleFollowsPrecedence == DeskSpec => StyleByPrecedence
<1> DEFINE Fits == /\ entry' = "started" /\ entry # "started" => style' \in Permitted \cap Style
                   /\ entry' = "refused" /\ entry # "refused" => Refusable
<1>1. DeskTypeOK /\ StyleInv /\ [DeskNext]_deskVars => [Fits]_deskVars
  <2> SUFFICES ASSUME DeskTypeOK, StyleInv, DeskNext PROVE Fits
    OBVIOUS
  <2>1. CASE ChooseStyle
    BY <2>1 DEF ChooseStyle, TestSaved, TestAgain, ReadSaved, Resolve, ResolveStyle,
                ChangeSaved, StyleInv, FromFile, Permitted, Refusable, DeskTypeOK,
                Maybe, Value, Style
  <2>2. CASE entry' = entry
    BY <2>2
  <2> QED
    BY <2>1, <2>2 DEF DeskNext, DeskShell, Others, DeskHeed, DeskEnded, styleVars, deskVars
<1>2. StyleInv /\ [DeskNext]_deskVars => StyleInv'
  BY StyleKept
<1> HIDE DEF Fits
<1>3. DeskSpec => [][Fits]_deskVars
  BY <1>1, <1>2, StyleInit, DeskTypeCorrect, PTL DEF DeskSpec
<1> QED BY <1>3 DEF Fits, StyleByPrecedence

-----------------------------------------------------------------------------
(* The windows.                                                            *)

LEMMA WindowInit == DeskInit => WindowInv
  BY DEF DeskInit, Init, WindowInv, Opaque

(* What the shell does between two runs of the helper.                     *)
LEMMA LaunchKeepsWindows ==
    ASSUME WindowInv, DeskTypeOK, LauncherInv, Shell, pc # "clickThrough", Launch,
           clash \subseteq clash'
    PROVE  WindowInv'
<1> USE DEF WindowInv, Opaque, Launch, LauncherInv, TypeOK, DeskTypeOK
<1>1. CASE StartProvider \/ RecordProvider \/ Poll \/ CheckPresent
  BY <1>1, LauncherAssumption DEF StartProvider, RecordProvider, Poll, CheckPresent
<1>2. CASE ListMonitors
  BY <1>2 DEF ListMonitors
<1>3. CASE NextHead
  BY <1>3 DEF NextHead, loopVars
<1>4. CASE StartConky
  BY <1>4 DEF StartConky, loopVars
<1>5. CASE RecordConky
  BY <1>5 DEF RecordConky, loopVars
<1>6. CASE WaitAny \/ Cleanup \/ EndKill \/ WaitChildren \/ \E c \in Child : KillChild(c)
  BY <1>6 DEF WaitAny, Cleanup, EndKill, WaitChildren, KillChild
<1>7. CASE ClickThrough
  BY <1>7 DEF ClickThrough
<1> QED BY <1>1, <1>2, <1>3, <1>4, <1>5, <1>6, <1>7 DEF Shell

LEMMA HelperKeepsWindows ==
    ASSUME WindowInv, DeskTypeOK, Helper,
           clash' = clash \cup (IF pc' = "clickThrough" THEN {current'} \cap foreign' ELSE {})
    PROVE  WindowInv'
<1> USE DEF WindowInv, Opaque, DeskTypeOK, Own, Foreign
<1>1. CASE FindWindow
  BY <1>1 DEF FindWindow, vars, loopVars
<1>2. CASE ApplyClickThrough
  BY <1>2 DEF ApplyClickThrough, ClickThrough, loopVars
<1>3. CASE GiveUp
  BY <1>3 DEF GiveUp, ClickThrough, loopVars
<1> QED BY <1>1, <1>2, <1>3 DEF Helper

(* A process that ends takes its window along, and the shell is left where *)
(* it is or sent to its end.                                               *)
LEMMA OthersKeepWindows ==
    ASSUME WindowInv, DeskTypeOK, clash \subseteq clash',
           \/ (Signal \/ WriteFile \/ \E c \in Child : Quit(c) \/ Heed(c)) /\ Launch
           \/ \E m \in Monitor : MapWindow(m)
           \/ \E m \in Shared : ForeignWindow(m)
    PROVE  WindowInv'
<1> USE DEF WindowInv, Opaque, DeskTypeOK, TypeOK, vars, loopVars
<1>1. CASE Signal /\ Launch
  BY <1>1 DEF Signal, Launch
<1>2. CASE WriteFile /\ Launch
  BY <1>2 DEF WriteFile, Launch
<1>3. ASSUME NEW c \in Child, Quit(c) \/ Heed(c), Launch PROVE WindowInv'
  BY <1>3 DEF Quit, Heed, Launch
<1>4. CASE \E m \in Monitor : MapWindow(m)
  BY <1>4 DEF MapWindow
<1>5. CASE \E m \in Shared : ForeignWindow(m)
  BY <1>5 DEF ForeignWindow
<1> QED BY <1>1, <1>2, <1>3, <1>4, <1>5

LEMMA WindowsKept ==
    ASSUME WindowInv, DeskTypeOK, LauncherInv, [DeskNext]_deskVars
    PROVE  WindowInv'
<1>1. CASE ChooseStyle \/ UNCHANGED deskVars
  BY <1>1 DEF ChooseStyle, deskVars, windowVars, vars, loopVars, WindowInv, Opaque
<1>2. CASE DeskShell
  <2>1. clash' = clash \cup (IF pc' = "clickThrough" THEN {current'} \cap foreign' ELSE {})
    BY <1>2 DEF DeskShell
  <2>2. Helper \/ (pc # "clickThrough" /\ Shell /\ Launch)
    BY <1>2 DEF DeskShell
  <2> QED BY <2>1, <2>2, HelperKeepsWindows, LaunchKeepsWindows
<1>3. CASE Others
  BY <1>3, OthersKeepWindows DEF Others
<1>4. CASE \E c \in Child : DeskHeed(c)
  BY <1>4, OthersKeepWindows DEF DeskHeed
<1> QED BY <1>1, <1>2, <1>3, <1>4 DEF DeskNext, DeskEnded

(* When the launcher waits, the mouse goes through every dashboard whose   *)
(* title no other window bore while the helper looked for it.              *)
THEOREM MouseAlwaysGoesThrough == DeskSpec => []MouseGoesThrough
<1>1. WindowInv => MouseGoesThrough
  BY DEF WindowInv, Opaque, MouseGoesThrough
<1>2. WindowInv /\ DeskTypeOK /\ LauncherInv /\ [DeskNext]_deskVars => WindowInv'
  BY WindowsKept
<1>3. DeskSpec => []LauncherInv
  BY DesktopImplementsLauncher, LauncherCorrect, PTL
<1> QED BY <1>1, <1>2, <1>3, WindowInit, DeskTypeCorrect, PTL DEF DeskSpec
=============================================================================
