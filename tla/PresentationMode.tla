-------------------------- MODULE PresentationMode --------------------------
(***************************************************************************)
(* PDFPresentationMode and HandTool of the viewer                          *)
(* (static/generic/web/viewer.js), with the browser's fullscreen.          *)
(*                                                                         *)
(* The browser grants or ignores a request at any time, perhaps after the  *)
(* viewer gave it up and asked again, and says so by an event that it      *)
(* delivers later: the handler looks at what is the case when it runs.  A  *)
(* timer of 0 ms runs before the user or the browser does anything new;    *)
(* events under way may come first.                                        *)
(***************************************************************************)
EXTENDS Integers, Sequences

CONSTANTS
    Scales,      \* the zoom values a user chooses
    MaxRequests  \* bound on requests, zooms and uses of the hand tool

ASSUME MaxRequestsAssumption == MaxRequests \in Nat

PageFit == "page-fit"
NoScale == "none"

ASSUME ScalesAssumption == {PageFit, NoScale} \intersect Scales = {}

VARIABLES
    fullscreen,  \* the browser shows the viewer alone
    asked,       \* requests the browser has not answered
    changes,     \* fullscreenchange events to be delivered
    mode,        \* active, listening to these events, switchInProgress, and the
                 \* state the viewer was told
    args,        \* the scale to return to
    timers,      \* callbacks of setTimeout(.., 0)
    scale,       \* currentScaleValue
    hand,        \* the hand tool is active; wasActive
    chosen,      \* what the user chose last: scale (NoScale: while switching)
                 \* and hand tool
    requests

presVars == <<fullscreen, asked, changes, mode, args, timers, scale, hand, chosen,
              requests>>

PresTypeOK ==
    /\ fullscreen \in BOOLEAN
    /\ {asked, changes, requests} \subseteq Nat
    /\ mode \in [active : BOOLEAN, listening : BOOLEAN, switching : BOOLEAN,
                 told : {"normal", "changing", "fullscreen"}]
    /\ args \in Scales \union {NoScale}
    /\ timers \in Seq({"enter", "exit"})
    /\ scale \in Scales \union {PageFit}
    /\ hand \in [active : BOOLEAN, was : BOOLEAN]
    /\ chosen \in [scale : Scales \union {NoScale}, hand : BOOLEAN]

PresInit ==
    /\ fullscreen = FALSE
    /\ asked = 0 /\ changes = 0
    /\ mode = [active |-> FALSE, listening |-> FALSE, switching |-> FALSE,
               told |-> "normal"]
    /\ args = NoScale
    /\ timers = <<>>
    /\ scale \in Scales
    /\ hand = [active |-> FALSE, was |-> FALSE]
    /\ chosen = [scale |-> scale, hand |-> FALSE]
    /\ requests = 0

\* enterPresentationMode and exitPresentationMode of the hand tool.
HandTold(h, active) ==
    IF active THEN IF h.active THEN [active |-> FALSE, was |-> TRUE] ELSE h
    ELSE IF h.was THEN [active |-> TRUE, was |-> FALSE] ELSE h

\* _notifyStateChange: the viewer and, when nothing is in progress, the hand
\* tool hear of mode m.
Notify(m) ==
    /\ mode' = [m EXCEPT !.told = IF m.switching THEN "changing"
                                  ELSE IF m.active THEN "fullscreen" ELSE "normal"]
    /\ hand' = IF m.switching THEN hand ELSE HandTold(hand, m.active)

NoTimer == timers = <<>>

Act == /\ NoTimer
       /\ requests < MaxRequests
       /\ requests' = requests + 1

\* request: refused while another one is in progress and in presentation mode.
Request ==
    /\ Act
    /\ ~mode.switching /\ ~mode.active
    /\ Notify([mode EXCEPT !.listening = TRUE, !.switching = TRUE])
    /\ asked' = asked + 1
    /\ args' = scale
    /\ UNCHANGED <<fullscreen, changes, timers, scale, chosen>>

\* The browser grants a request, which changes nothing if it is fullscreen, or
\* drops it.
Answer ==
    /\ NoTimer
    /\ asked > 0
    /\ asked' = asked - 1
    /\ \/ /\ ~fullscreen
          /\ fullscreen' = TRUE
          /\ changes' = changes + 1
       \/ UNCHANGED <<fullscreen, changes>>
    /\ UNCHANGED <<mode, args, timers, scale, hand, chosen, requests>>

\* The user leaves fullscreen.
Leave ==
    /\ NoTimer
    /\ fullscreen
    /\ fullscreen' = FALSE
    /\ changes' = changes + 1
    /\ UNCHANGED <<asked, mode, args, timers, scale, hand, chosen, requests>>

Enter_KeepsTimer ==
    /\ Notify([mode EXCEPT !.active = TRUE])
    /\ timers' = Append(timers, "enter")

\* _enter
Enter ==
    /\ Notify([mode EXCEPT !.active = TRUE, !.switching = FALSE])
    /\ timers' = Append(timers, "enter")

\* _exit: all that is modelled waits for the timer.
Exit ==
    /\ timers' = Append(timers, "exit")
    /\ UNCHANGED <<mode, hand>>

\* _fullscreenChange
FullscreenChange ==
    /\ changes > 0
    /\ changes' = changes - 1
    /\ IF ~mode.listening THEN UNCHANGED <<mode, hand, timers>>
       ELSE IF fullscreen THEN Enter ELSE Exit
    /\ UNCHANGED <<fullscreen, asked, args, scale, chosen, requests>>

\* switchInProgressTimeout
SwitchTimeout ==
    /\ mode.switching
    /\ Notify([mode EXCEPT !.listening = FALSE, !.switching = FALSE])
    /\ UNCHANGED <<fullscreen, asked, changes, args, timers, scale, chosen, requests>>

\* enterPresentationModeTimeout
EnterTimeout ==
    /\ timers # <<>> /\ Head(timers) = "enter"
    /\ timers' = Tail(timers)
    /\ scale' = IF args = NoScale THEN scale ELSE PageFit
    /\ UNCHANGED <<fullscreen, asked, changes, mode, args, hand, chosen, requests>>

\* exitPresentationModeTimeout; with no args it throws after it has notified.
ExitTimeout ==
    /\ timers # <<>> /\ Head(timers) = "exit"
    /\ timers' = Tail(timers)
    /\ Notify([mode EXCEPT !.active = FALSE, !.listening = FALSE])
    /\ scale' = IF args = NoScale THEN scale ELSE args
    /\ args' = NoScale
    /\ UNCHANGED <<fullscreen, asked, changes, chosen, requests>>

\* Zooming and the hand tool's key are ignored in presentation mode.
Zoom ==
    /\ Act
    /\ mode.told # "fullscreen"
    /\ scale' \in Scales
    /\ chosen' = [chosen EXCEPT !.scale = IF mode.switching THEN NoScale ELSE scale']
    /\ UNCHANGED <<fullscreen, asked, changes, mode, args, timers, hand>>

ToggleHand ==
    /\ Act
    /\ mode.told # "fullscreen"
    /\ hand' = [hand EXCEPT !.active = ~hand.active]
    /\ chosen' = [chosen EXCEPT !.hand = ~hand.active]
    /\ UNCHANGED <<fullscreen, asked, changes, mode, args, timers, scale>>

\* What the browser does without the user.
PresWork == FullscreenChange \/ SwitchTimeout \/ EnterTimeout \/ ExitTimeout

PresNext == PresWork \/ Request \/ Answer \/ Leave \/ Zoom \/ ToggleHand

-----------------------------------------------------------------------------
(* Properties *)

\* Whatever is granted late, left early or asked for twice, presentation mode
\* knows that it has ended: it is only on while the browser is fullscreen or
\* the event or timer that ends it is still to come, and is heard.
PresentationEnds ==
    mode.active =>
        /\ mode.listening \/ timers # <<>>
        /\ fullscreen \/ changes > 0 \/ timers # <<>>

\* Leaving presentation mode brings the zoom and the hand tool back as the user
\* chose them (unless he zoomed while the browser was switching).
ViewRestored ==
    /\ mode.told # "fullscreen" /\ timers = <<>> =>
          /\ chosen.scale \in {scale, NoScale}
          /\ hand.active = chosen.hand
    /\ mode.told = "fullscreen" => ~hand.active
=============================================================================
