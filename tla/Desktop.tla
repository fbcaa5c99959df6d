------------------------------ MODULE Desktop -------------------------------
(***************************************************************************)
(* The launcher on the user's desktop: packaging/bhola-pulse, which finds  *)
(* the style and becomes scripts/run-dev.sh (Launcher); the saved style,   *)
(* which "bhola-pulse config" and the user's editor change meanwhile; and  *)
(* src/bhola_clickthrough.py, which looks for the window of each dashboard *)
(* on a display that other programs use too.                               *)
(***************************************************************************)
EXTENDS Launcher

CONSTANTS Shared        \* the monitors whose title other windows may bear

ASSUME DesktopAssumption == Shared \subseteq Monitor

Style == {"modern", "nerd"}
Value == Style \cup {"invalid"}     \* what may be given for a style
Maybe == Value \cup {"none"}

VARIABLES
    entry,      \* where packaging/bhola-pulse is
    cli,        \* what --style says
    env,        \* BHOLA_STYLE when the program was called
    exported,   \* BHOLA_STYLE as it is passed on
    saved,      \* what the file config_file holds
    held,       \* observes: what it has held since the call
    style,      \* dashboard_style
    window,     \* the window of each dashboard
    foreign,    \* the monitors whose title another window bears
    clash,      \* observes: those for which it bore it while the helper ran
    target      \* the one window the helper has found

styleVars == <<entry, cli, env, exported, saved, held, style>>
windowVars == <<window, foreign, clash, target>>
deskVars == <<vars, styleVars, windowVars>>

DeskTypeOK ==
    /\ TypeOK
    /\ entry \in {"start", "configured", "read", "resolve", "started", "refused"}
    /\ {cli, env, exported, saved, style} \cup held \subseteq Maybe
    /\ window \in [Monitor -> {"none", "opaque", "through"}]
    /\ foreign \subseteq Shared /\ clash \subseteq Shared
    /\ target \in {"none", "own", "foreign"}

DeskInit ==
    /\ Init
    /\ entry = "start"
    /\ cli \in Maybe /\ env \in Maybe /\ exported = env
    /\ saved \in Maybe /\ held = {saved}
    /\ style = "none"
    /\ window = [m \in Monitor |-> "none"]
    /\ foreign = {} /\ clash = {} /\ target = "none"

-----------------------------------------------------------------------------
(* The saved style.  "config set" writes a temporary file and renames it,  *)
(* so the file changes at once; a user may edit it too, and "config reset" *)
(* removes it.                                                             *)
ChangeSaved(v) ==
    /\ entry \in {"start", "configured", "read"} /\ v # saved
    /\ saved' = v /\ held' = held \cup {v}
    /\ UNCHANGED <<entry, cli, env, exported, style>>

(* [[ -z ${BHOLA_STYLE+x} && -r $config_file ]]                            *)
TestSaved ==
    /\ entry = "start"
    /\ entry' = IF env = "none" /\ saved # "none" THEN "configured" ELSE "resolve"
    /\ UNCHANGED <<cli, env, exported, saved, held, style>>

(* configured_style finds no file any more, or reads it in the next step.  *)
TestAgain ==
    /\ entry = "configured"
    /\ IF saved = "none" THEN entry' = "resolve" /\ exported' = "modern"
                         ELSE entry' = "read" /\ exported' = exported
    /\ UNCHANGED <<cli, env, saved, held, style>>

(* A file that has gone since leaves "style" unset, which ends the shell.  *)
ReadSaved ==
    /\ entry = "read"
    /\ IF saved \in Style THEN entry' = "resolve" /\ exported' = saved
                          ELSE entry' = "refused" /\ exported' = exported
    /\ UNCHANGED <<cli, env, saved, held, style>>

(* Mutant of ResolveStyle: the environment goes before the option.         *)
EnvironmentFirst ==
    IF exported # "none" THEN exported ELSE IF cli # "none" THEN cli ELSE "modern"

ResolveStyle ==
    IF cli # "none" THEN cli ELSE IF exported # "none" THEN exported ELSE "modern"

(* run-dev.sh resolves the style before anything is started.  Nobody reads *)
(* the places it came from after that: they are forgotten here.            *)
Resolve ==
    /\ entry = "resolve"
    /\ IF ResolveStyle \in Style THEN entry' = "started" /\ style' = ResolveStyle
                                 ELSE entry' = "refused" /\ style' = style
    /\ cli' = "none" /\ env' = "none" /\ exported' = "none"
    /\ saved' = "none" /\ held' = {}

ChooseStyle ==
    /\ \/ TestSaved \/ TestAgain \/ ReadSaved \/ Resolve
       \/ \E v \in Maybe : ChangeSaved(v)
    /\ UNCHANGED <<vars, windowVars>>

-----------------------------------------------------------------------------
(* The windows.                                                            *)

MapWindow(m) ==
    /\ process[m] = "running" /\ window[m] = "none"
    /\ window' = [window EXCEPT ![m] = "opaque"]
    /\ UNCHANGED <<vars, foreign, target>>

(* A dashboard of another session, or one that an earlier launcher left.   *)
ForeignWindow(m) ==
    /\ pc = "clickThrough"
    /\ foreign' = IF m \in foreign THEN foreign \ {m} ELSE foreign \cup {m}
    /\ UNCHANGED <<vars, window, target>>

(* The helper of the present round: _find_windows goes by the process id   *)
(* or the title, and any other number of windows than one is looked up     *)
(* again.                                                                  *)
Own == IF window[current] # "none" THEN {"own"} ELSE {}
Foreign == IF current \in foreign THEN {"foreign"} ELSE {}

FindWindow ==
    /\ pc = "clickThrough" /\ target = "none"
    /\ \E w \in {"own", "foreign"} : Own \cup Foreign = {w} /\ target' = w
    /\ UNCHANGED <<vars, window, foreign>>

(* The region is set and read back.  A window that has gone since is an X  *)
(* error, which ends the helper.                                           *)
ApplyClickThrough ==
    /\ target # "none" /\ target' = "none"
    /\ ClickThrough
    /\ pc' = IF target \in Own \cup Foreign THEN "head" ELSE "cleanup"
    /\ window' = IF target \in Own THEN [window EXCEPT ![current] = "through"] ELSE window
    /\ UNCHANGED foreign

(* Mutant of GiveUp: a window that was not found is taken for a success.   *)
GoOnWithout ==
    /\ ClickThrough /\ pc' = "head"
    /\ target' = "none"
    /\ UNCHANGED <<window, foreign>>

(* Five seconds without just one window, no display, a dead helper.        *)
GiveUp ==
    /\ ClickThrough /\ pc' = "cleanup"
    /\ target' = "none"
    /\ UNCHANGED <<window, foreign>>

Helper == FindWindow \/ ApplyClickThrough \/ GiveUp

(* The steps of the launcher as before; a window goes with its process.    *)
Launch ==
    /\ window' = [m \in Monitor |-> IF process'[m] = "running" THEN window[m] ELSE "none"]
    /\ target' = IF pc' = "clickThrough" THEN target ELSE "none"
    /\ UNCHANGED foreign

DeskShell ==
    /\ entry = "started"
    /\ \/ Helper
       \/ pc # "clickThrough" /\ Shell /\ Launch
    /\ UNCHANGED styleVars
    /\ clash' = clash \cup (IF pc' = "clickThrough" THEN {current'} \cap foreign' ELSE {})

Others ==
    /\ entry = "started"
    /\ \/ (Signal \/ WriteFile \/ \E c \in Child : Quit(c)) /\ Launch
       \/ \E m \in Monitor : MapWindow(m)
       \/ \E m \in Shared : ForeignWindow(m)
    /\ UNCHANGED styleVars
    /\ clash' = clash \cup (IF pc' = "clickThrough" THEN {current'} \cap foreign' ELSE {})

DeskHeed(c) ==
    /\ entry = "started"
    /\ Heed(c) /\ Launch
    /\ UNCHANGED <<styleVars, clash>>

DeskEnded == (entry = "refused" \/ AtEnd) /\ UNCHANGED deskVars

DeskNext ==
    \/ ChooseStyle \/ DeskShell \/ Others \/ DeskEnded
    \/ \E c \in Child : DeskHeed(c)

DeskSpec == DeskInit /\ [][DeskNext]_deskVars

(* As in Launcher; the five seconds of the helper end.                     *)
DeskFairSpec ==
    /\ DeskSpec
    /\ WF_deskVars(DeskShell)
    /\ \A c \in Child : WF_deskVars(DeskHeed(c))

-----------------------------------------------------------------------------
(* The saved style counts only if it stood in the file at some instant     *)
(* between the call and the reading; without a file it is the default.     *)
FromFile == (held \cap Style) \cup (IF "none" \in held THEN {"modern"} ELSE {})

(* README.md: --style, BHOLA_STYLE, the saved style, modern, in this order,*)
(* whatever happens to the saved style meanwhile.  A start is refused only *)
(* when the option is invalid, or the environment is and there is no       *)
(* option, or there is no BHOLA_STYLE and the file held an invalid style,  *)
(* or held one and was gone at another instant: it vanished while it was   *)
(* looked at.  The file is judged before the option.                       *)
Permitted ==
    IF cli # "none" THEN {cli} ELSE IF env # "none" THEN {env} ELSE FromFile

Refusable == \/ cli = "invalid"
             \/ cli = "none" /\ env = "invalid"
             \/ env = "none" /\ "invalid" \in held
             \/ env = "none" /\ "none" \in held /\ held \cap Style # {}

StyleByPrecedence ==
    [][/\ entry' = "started" /\ entry # "started" => style' \in Permitted \cap Style
       /\ entry' = "refused" /\ entry # "refused" => Refusable]_deskVars

(* When the launcher has all its dashboards and waits, the mouse goes      *)
(* through each that still runs, unless another window bore the title of   *)
(* this one while the helper looked for it.                                *)
MouseGoesThrough ==
    pc = "waitAny" =>
        \A m \in Monitor \ clash : process[m] = "running" => window[m] = "through"

(* The strengthenings.  Up to "read" the style is what was given or still  *)
(* to be read; then it is given, or read from the file.                    *)
StyleInv ==
    /\ entry \in {"start", "configured", "read"} => saved \in held /\ exported = env
    /\ entry \in {"configured", "read"} => env = "none" /\ held \ {"none"} # {}
    /\ entry = "resolve" =>
         \/ exported = env /\ (env = "none" => "none" \in held)
         \/ env = "none" /\ exported \in FromFile

(* A dashboard started in an earlier round has its region, and the helper  *)
(* only ever takes another's window for one that is in clash.              *)
Opaque == {m \in Monitor \ clash : process[m] = "running" /\ window[m] # "through"}

WindowInv ==
    /\ pc \in {"spawn", "record", "poll", "present", "monitors"}
          => \A m \in Monitor : process[m] # "running"
    /\ pc \in {"head", "start", "waitAny"} => Opaque = {}
    /\ pc \in {"recordConky", "clickThrough"} => Opaque \subseteq {current}
    /\ target # "none" => pc = "clickThrough"
    /\ target = "foreign" => current \in clash
=============================================================================
