--------------------------- MODULE EnvelopeScene ---------------------------
(***************************************************************************)
(* What the recipient sees and touches: SecretEnvelopeScene.tsx with its   *)
(* envelope, its status screen and its animations.  The scene's state is   *)
(* the page's; this module holds what the view adds to it and how a new    *)
(* scene is put on the screen, effects included.                           *)
(***************************************************************************)
EXTENDS Naturals

NoStatus == "none"
NoKey == "none"

NoTimer == "none"

CONSTANTS Fragments,      \* what can follow the # of the link
          Timers,         \* names of timers; two tell a timer set anew from the old one
          MaxAnimations   \* bound on close animations in progress

ASSUME ViewAssumption ==
  /\ NoKey \notin Fragments /\ MaxAnimations \in Nat \ {0}
  /\ Timers # {} /\ NoTimer \notin Timers

VARIABLES scene,    \* [state, text]: the page's scene; text: it holds the plaintext
          view,     \* the view's own state, see Views
          timer,    \* the timer of a status screen that is leaving, or NoTimer
          running,  \* running[k]: animations of kind k in progress
          reduced   \* the system asks for reduced motion

sceneVars == <<scene, view, timer, running, reduced>>

StatusStates == {"loading", "vanished", "expired", "consumed", "error"}
EnvelopeStates == {"sealed", "opening", "revealed", "closing", "burning"}
Scenes == [state : StatusStates \cup EnvelopeStates, text : BOOLEAN]

Views ==
  [visible : StatusStates \cup {NoStatus},  \* the status screen that is on the screen
   consent : BOOLEAN,                       \* the warning was accepted
   triggered : BOOLEAN,                     \* hasTriggeredOpenRef
   hold : Fragments \cup {NoKey},           \* a hold in progress, with the fragment its closure has
   armed : BOOLEAN,                         \* the destroy timer runs
   lit : BOOLEAN]                           \* the paper was made visible

Plain(state) == [state |-> state, text |-> FALSE]

StatusOf(state) == IF state \in StatusStates THEN state ELSE NoStatus

\* The envelope is on the screen: no status screen, not even one that is leaving.
Mounted == view.visible = NoStatus /\ scene.state \in EnvelopeStates

InitialView(state) ==
  [visible |-> StatusOf(state), consent |-> FALSE, triggered |-> FALSE,
   hold |-> NoKey, armed |-> FALSE, lit |-> FALSE]

\* Mutant: a scene that is sealed again keeps the consent of the last one.
CommittedKeepsConsent(state) ==
  LET resealed == state = "sealed" /\ scene.state # "sealed"
      unmounted == state \in StatusStates
  IN  [view EXCEPT !.visible = IF @ = NoStatus THEN StatusOf(state) ELSE @,
                   !.triggered = @ /\ ~resealed,
                   !.armed = @ /\ ~unmounted,
                   !.lit = @ /\ ~unmounted]

\* Mutant: a scene that is sealed again stays as triggered as the last one.
CommittedStaysTriggered(state) ==
  LET resealed == state = "sealed" /\ scene.state # "sealed"
      unmounted == state \in StatusStates
  IN  [view EXCEPT !.visible = IF @ = NoStatus THEN StatusOf(state) ELSE @,
                   !.consent = @ /\ ~resealed,
                   !.armed = @ /\ ~unmounted,
                   !.lit = @ /\ ~unmounted]

\* A status screen comes at once when none is shown, and otherwise after the
\* one that is shown has left; a sealed scene starts over; a status screen
\* unmounts the envelope, with its timer.  A hold in progress goes on.
Committed(state) ==
  LET resealed == state = "sealed" /\ scene.state # "sealed"
      unmounted == state \in StatusStates
  IN  [view EXCEPT !.visible = IF @ = NoStatus THEN StatusOf(state) ELSE @,
                   !.consent = @ /\ ~resealed,
                   !.triggered = @ /\ ~resealed,
                   !.armed = @ /\ ~unmounted,
                   !.lit = @ /\ ~unmounted]

\* A timer that is cleared and set again is another one.
Restarted(t) == CHOOSE u \in Timers : u # t \/ Timers = {t}

\* The effect on a scene: the timer of the screen that leaves is cleared, and
\* set again unless the screen already shows the scene.  Nothing is done for a
\* status that stays the same, but an error may come with a new message.
StatusEffect ==
  LET status == StatusOf(scene'.state)
  IN  IF view'.visible = status THEN timer' = NoTimer
      ELSE \/ timer' = Restarted(timer) /\ (status # StatusOf(scene.state) \/ status = "error")
           \/ timer' = timer /\ status = StatusOf(scene.state)

Show(s) == scene' = s /\ view' = Committed(s.state) /\ StatusEffect

\* Mutant: only the way to the envelope has a timer.
OnlyEnvelopeFollows(t) ==
  /\ timer = t /\ StatusOf(scene.state) = NoStatus
  /\ view' = [view EXCEPT !.visible = NoStatus]
  /\ timer' = NoTimer
  /\ UNCHANGED <<scene, running, reduced>>

\* The timer t fires: the leaving status screen makes way for the scene.
StatusScreenLeaves(t) ==
  /\ timer = t
  /\ view' = [view EXCEPT !.visible = StatusOf(scene.state)]
  /\ timer' = NoTimer
  /\ UNCHANGED <<scene, running, reduced>>

-----------------------------------------------------------------------------
(* Animations *)

HandleOpenComplete(s) == IF s.state = "opening" THEN [s EXCEPT !.state = "revealed"] ELSE s
HandleClose(s) == IF s.state = "revealed" THEN [s EXCEPT !.state = "closing"] ELSE s
HandleBurning(s) == IF s.state = "closing" THEN [s EXCEPT !.state = "burning"] ELSE s

\* Mutant: reduced motion completes without making the paper visible.
PlayOpenUnlit(s, motion) ==
  IF view.visible = NoStatus /\ motion
  THEN /\ scene' = s
       /\ running' = [running EXCEPT !["open"] = @ + 1]
       /\ UNCHANGED view
  ELSE scene' = HandleOpenComplete(s) /\ UNCHANGED <<view, running>>

\* Mutant: without an envelope to animate, nobody is told that it is over.
PlayOpenSilent(s, motion) ==
  IF view.visible = NoStatus /\ motion
  THEN /\ scene' = s
       /\ running' = [running EXCEPT !["open"] = @ + 1]
       /\ UNCHANGED view
  ELSE scene' = s /\ UNCHANGED <<view, running>>

\* The scene becomes s, which is "opening".  Without an envelope to animate, or
\* with reduced motion, the animation is over at once; only an animation of a
\* mounted envelope makes the paper visible.
PlayOpen(s, motion) ==
  LET mounted == view.visible = NoStatus
  IN  IF mounted /\ motion
      THEN /\ scene' = s
           /\ running' = [running EXCEPT !["open"] = @ + 1]
           /\ UNCHANGED view
      ELSE /\ scene' = HandleOpenComplete(s)
           /\ view' = [view EXCEPT !.lit = mounted]
           /\ UNCHANGED running

OpenAnimationEnds ==
  /\ running["open"] > 0
  /\ running' = [running EXCEPT !["open"] = @ - 1]
  /\ scene' = HandleOpenComplete(scene)
  /\ view' = [view EXCEPT !.lit = @ \/ scene.state = "opening"]
  /\ UNCHANGED <<timer, reduced>>

\* The burn animation calls onBurning first and onBurnComplete last, whatever
\* the scene has become by then.
BurnAnimationStarts ==
  /\ running["close"] > 0
  /\ running' = [running EXCEPT !["close"] = @ - 1, !["burn"] = @ + 1]
  /\ scene' = HandleBurning(scene)
  /\ UNCHANGED <<view, timer, reduced>>

\* Mutant: the scene keeps "...current".
BurnKeepsText ==
  /\ running["burn"] > 0
  /\ running' = [running EXCEPT !["burn"] = @ - 1]
  /\ Show([scene EXCEPT !.state = "vanished"])
  /\ UNCHANGED reduced

BurnAnimationEnds ==
  /\ running["burn"] > 0
  /\ running' = [running EXCEPT !["burn"] = @ - 1]
  /\ Show(Plain("vanished"))
  /\ UNCHANGED reduced

\* Mutant: the burn animation plays also under a letter that is being read.
ReplayBurns ==
  IF scene.state \in {"revealed", "closing"} /\ running["close"] < MaxAnimations
  THEN running' = [running EXCEPT !["close"] = @ + 1] /\ UNCHANGED <<scene, view>>
  ELSE UNCHANGED <<scene, view, running>>

\* The view gets new animation functions, and the effects that play them run
\* again.
ReplayAnimations ==
  CASE scene.state = "opening" -> PlayOpen(scene, reduced)
    [] scene.state = "closing" ->
         /\ running["close"] < MaxAnimations
         /\ running' = [running EXCEPT !["close"] = @ + 1]
         /\ UNCHANGED <<scene, view>>
    [] OTHER -> UNCHANGED <<scene, view, running>>

\* The system's motion preference changes; a timer that runs is set anew.
ToggleMotion ==
  /\ reduced' = ~reduced
  /\ ReplayAnimations
  /\ timer' = IF timer = NoTimer THEN timer ELSE Restarted(timer)

-----------------------------------------------------------------------------
(* Gestures *)

AcceptConsent ==
  /\ Mounted /\ scene.state = "sealed" /\ ~view.consent
  /\ view' = [view EXCEPT !.consent = TRUE]
  /\ UNCHANGED <<scene, timer, running, reduced>>

CanOpen == Mounted /\ scene.state = "sealed" /\ view.consent /\ ~view.triggered

HoldStart(key) ==
  /\ CanOpen /\ ~reduced
  /\ view' = [view EXCEPT !.hold = key]
  /\ UNCHANGED <<scene, timer, running, reduced>>

\* Ignored when motion is reduced or the envelope no longer takes a hold.
HoldRelease ==
  /\ view.hold # NoKey /\ CanOpen /\ ~reduced
  /\ view' = [view EXCEPT !.hold = NoKey]
  /\ UNCHANGED <<scene, timer, running, reduced>>

\* The view's part of triggerOpen; the page's part is RevealPage's StartOpen.
TriggerOpen ==
  /\ view' = [view EXCEPT !.triggered = TRUE, !.consent = TRUE, !.hold = NoKey]
  /\ UNCHANGED <<scene, timer, running, reduced>>

PressDestroy ==
  /\ Mounted /\ scene.state = "revealed" /\ ~view.armed
  /\ view' = [view EXCEPT !.armed = TRUE]
  /\ UNCHANGED <<scene, timer, running, reduced>>

\* Mutant: the scene closes and nothing plays.
DestroyWithoutBurn ==
  /\ view.armed
  /\ scene' = HandleClose(scene)
  /\ view' = [view EXCEPT !.armed = FALSE]
  /\ UNCHANGED <<timer, running, reduced>>

\* The destroy timer fires: the scene closes and the burn animation starts.
DestroyFires ==
  /\ view.armed
  /\ scene' = HandleClose(scene)
  /\ view' = [view EXCEPT !.armed = FALSE]
  /\ running' = IF scene'.state = "closing" THEN [running EXCEPT !["close"] = @ + 1]
                                           ELSE running
  /\ UNCHANGED <<timer, reduced>>
=============================================================================
