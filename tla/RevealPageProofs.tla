-------------------------- MODULE RevealPageProofs --------------------------
(***************************************************************************)
(* What the recipient's page shows is true of the letter, and what it      *)
(* reveals stays, for any fragments and any number of calls in flight.     *)
(***************************************************************************)
EXTENDS RevealPage, TLAPS

-----------------------------------------------------------------------------
(* The inductive invariant *)

HasPayload(o) == opens[o].at = "payload"
NothingCloses == running["close"] = 0 /\ running["burn"] = 0
Unsealed == EnvelopeStates \ {"sealed"}

\* Whatever is about an open letter comes from the one this page burned.
BurnedByPage ==
  /\ burner = "page" => letter \in Gone
  /\ burner # "page" => ~scene.text /\ NothingCloses /\ \A o \in Opens : ~HasPayload(o)

\* The letter arrives once: its payload meets no other and no older reading.
OnePayload ==
  \A o \in Opens : HasPayload(o) =>
    /\ ~scene.text /\ NothingCloses
    /\ \A p \in Opens : HasPayload(p) => p = o

\* A letter that is not closed yet is not about to burn.
ClosesLast == scene.state \in {"opening", "revealed"} => NothingCloses

\* A sealed scene that may be opened was consented to under this link, and a
\* hold under the link it was begun on.
ConsentHeld ==
  /\ scene.state = "sealed" /\ view.consent /\ ~view.triggered => "link" \in accepted
  /\ view.hold # NoKey => "hold" \in accepted

\* An answer on its way that says gone still is right when it arrives.
GoneIsFinal ==
  /\ \A i \in Loads : loads[i] \in Gone => letter \in Gone
  /\ \A o \in Opens : opens[o].at \in Gone => letter \in Gone

\* As long as no calls overlapped, an open is alone on a sealed envelope, and a
\* letter on the screen is alone with its reader.
Calm ==
  ~overlapped =>
    /\ \A o, p \in Opens : opens[o] # NoOpen /\ opens[p] # NoOpen => p = o
    /\ \A o \in Opens, i \in Loads : opens[o] # NoOpen => loads[i] = "idle"
    /\ \A o \in Opens : opens[o] # NoOpen /\ (burner # "page" \/ HasPayload(o)) =>
         scene.state = "sealed" /\ view.triggered /\ view.visible = NoStatus
    /\ scene.state \in Unsealed => Quiet /\ view.triggered /\ view.visible = NoStatus
    /\ scene.state = "revealed" => view.lit

Inv ==
  /\ TypeOK
  /\ BurnedByPage
  /\ OnePayload
  /\ ClosesLast
  /\ TextOnlyInEnvelope
  /\ VanishedMeansRead
  /\ ConsentHeld
  /\ GoneIsFinal
  /\ Calm

-----------------------------------------------------------------------------
(* Scenes and views *)

\* The fields of a scene.
LEMMA SceneTypes ==
  ASSUME NEW s \in Scenes
  PROVE  s.state \in StatusStates \cup EnvelopeStates /\ s.text \in BOOLEAN
BY DEF Scenes

\* A scene without text is a scene.
LEMMA PlainType ==
  ASSUME NEW state \in StatusStates \cup {"sealed"}
  PROVE  Plain(state) \in Scenes /\ Plain(state).state = state /\ Plain(state).text = FALSE
BY DEF Plain, Scenes, EnvelopeStates

\* The fields of the view's own state.
LEMMA ViewTypes ==
  ASSUME NEW v \in Views
  PROVE  /\ v.visible \in StatusStates \cup {NoStatus} /\ v.hold \in Fragments \cup {NoKey}
         /\ v.consent \in BOOLEAN /\ v.triggered \in BOOLEAN
         /\ v.armed \in BOOLEAN /\ v.lit \in BOOLEAN
BY DEF Views

\* A timer that is set anew is a timer.
LEMMA RestartedType == ASSUME NEW t PROVE Restarted(t) \in Timers
<1>1. \E u \in Timers : u # t \/ Timers = {t}
  BY ViewAssumption
<1>2. QED BY <1>1 DEF Restarted

\* The status screen's timer after a scene was put on the screen.
LEMMA EffectType ==
  ASSUME timer \in Timers \cup {NoTimer}, StatusEffect
  PROVE  timer' \in Timers \cup {NoTimer}
BY RestartedType DEF StatusEffect

\* A scene without text is put on the screen.
LEMMA ShowPlain ==
  ASSUME scene \in Scenes, view \in Views, timer \in Timers \cup {NoTimer},
         NEW state \in StatusStates \cup {"sealed"}, Show(Plain(state))
  PROVE  /\ scene' \in Scenes /\ scene'.state = state /\ scene'.text = FALSE
         /\ view' \in Views /\ timer' \in Timers \cup {NoTimer} /\ view'.hold = view.hold
         /\ state = "sealed" /\ view'.consent /\ ~view'.triggered =>
              scene.state = "sealed" /\ view.consent /\ ~view.triggered
<1>1. scene' = Plain(state) /\ view' = Committed(state)
  BY PlainType DEF Show
<1>2. StatusOf(state) \in StatusStates \cup {NoStatus}
  BY DEF StatusOf
<1> DEFINE resealed == state = "sealed" /\ scene.state # "sealed"
           unmounted == state \in StatusStates
           visible == IF view.visible = NoStatus THEN StatusOf(state) ELSE view.visible
           consent == view.consent /\ ~resealed
           triggered == view.triggered /\ ~resealed
           armed == view.armed /\ ~unmounted
           lit == view.lit /\ ~unmounted
<1>3. view' = [view EXCEPT !.visible = visible, !.consent = consent, !.triggered = triggered,
                           !.armed = armed, !.lit = lit]
  BY <1>1 DEF Committed
<1>4. visible \in StatusStates \cup {NoStatus}
  BY <1>2, ViewTypes
<1>5. consent \in BOOLEAN /\ triggered \in BOOLEAN /\ armed \in BOOLEAN /\ lit \in BOOLEAN
  OBVIOUS
<1>6. /\ view' \in Views /\ view'.consent = consent /\ view'.triggered = triggered
      /\ view'.hold = view.hold
  <2> HIDE DEF visible, consent, triggered, armed, lit
  <2>1. LET w == [view EXCEPT !.visible = visible, !.consent = consent, !.triggered = triggered,
                              !.armed = armed, !.lit = lit]
        IN  w \in Views /\ w.consent = consent /\ w.triggered = triggered /\ w.hold = view.hold
    BY <1>4, <1>5 DEF Views
  <2>2. QED BY <1>3, <2>1, Zenon
<1>7. timer' \in Timers \cup {NoTimer}
  BY EffectType DEF Show
<1>8. QED BY <1>1, <1>6, <1>7, PlainType

\* The callbacks of the animations change the state of a scene alone.
LEMMA Handlers ==
  ASSUME NEW s \in Scenes
  PROVE  /\ HandleOpenComplete(s) \in Scenes
         /\ HandleOpenComplete(s).text = s.text
         /\ HandleOpenComplete(s).state = IF s.state = "opening" THEN "revealed" ELSE s.state
         /\ HandleClose(s) \in Scenes
         /\ HandleClose(s).text = s.text
         /\ HandleClose(s).state = IF s.state = "revealed" THEN "closing" ELSE s.state
         /\ HandleBurning(s) \in Scenes
         /\ HandleBurning(s).text = s.text
         /\ HandleBurning(s).state = IF s.state = "closing" THEN "burning" ELSE s.state
BY DEF HandleOpenComplete, HandleClose, HandleBurning, Scenes, EnvelopeStates

\* An opening scene is put on the screen: what changes, and what stays.
LEMMA Played ==
  ASSUME scene \in Scenes, view \in Views, running \in [{"open", "close", "burn"} -> Nat],
         NEW s \in Scenes, s.state = "opening", NEW motion \in BOOLEAN, PlayOpen(s, motion)
  PROVE  /\ scene' \in Scenes /\ view' \in Views
         /\ running' \in [{"open", "close", "burn"} -> Nat]
         /\ running'["close"] = running["close"] /\ running'["burn"] = running["burn"]
         /\ scene'.text = s.text /\ scene'.state \in {"opening", "revealed"}
         /\ view'.visible = view.visible /\ view'.triggered = view.triggered
         /\ view'.consent = view.consent /\ view'.hold = view.hold
         /\ scene'.state = "revealed" /\ view.visible = NoStatus => view'.lit
<1>1. CASE view.visible = NoStatus /\ motion
  <2>1. scene' = s /\ view' = view /\ running' = [running EXCEPT !["open"] = @ + 1]
    BY <1>1 DEF PlayOpen
  <2>2. QED BY <2>1, SceneTypes
<1>2. CASE ~(view.visible = NoStatus /\ motion)
  <2>1. /\ scene' = HandleOpenComplete(s) /\ running' = running
        /\ view' = [view EXCEPT !.lit = (view.visible = NoStatus)]
    BY <1>2 DEF PlayOpen
  <2>2. view' \in Views
    BY <2>1 DEF Views
  <2>3. /\ view'.visible = view.visible /\ view'.triggered = view.triggered
        /\ view'.consent = view.consent /\ view'.lit = (view.visible = NoStatus)
        /\ view'.hold = view.hold
    BY <2>1 DEF Views
  <2>4. QED BY <2>1, <2>2, <2>3, Handlers
<1>3. QED BY <1>1, <1>2

\* The effects run again: the letter that is being opened goes on opening, a
\* closing one closes once more, and nothing else happens.
LEMMA Replayed ==
  ASSUME scene \in Scenes, view \in Views, reduced \in BOOLEAN,
         running \in [{"open", "close", "burn"} -> Nat], ReplayAnimations
  PROVE  /\ scene' \in Scenes /\ view' \in Views
         /\ running' \in [{"open", "close", "burn"} -> Nat]
         /\ running'["burn"] = running["burn"]
         /\ running'["close"] # running["close"] => scene.state = "closing"
         /\ scene'.text = scene.text
         /\ \/ scene'.state = scene.state
            \/ scene.state = "opening" /\ scene'.state = "revealed"
         /\ view'.visible = view.visible /\ view'.triggered = view.triggered
         /\ view'.consent = view.consent /\ view'.hold = view.hold
         /\ scene.state # "opening" => view'.lit = view.lit
         /\ scene.state = "opening" /\ scene'.state = "revealed" /\ view.visible = NoStatus
              => view'.lit
<1>1. CASE scene.state = "opening"
  <2>1. PlayOpen(scene, reduced)
    BY <1>1 DEF ReplayAnimations
  <2>2. QED BY <1>1, <2>1, Played
<1>2. CASE scene.state = "closing"
  <2>1. scene' = scene /\ view' = view /\ running' = [running EXCEPT !["close"] = @ + 1]
    BY <1>2 DEF ReplayAnimations
  <2>2. QED BY <1>2, <2>1
<1>3. CASE scene.state \notin {"opening", "closing"}
  <2>1. scene' = scene /\ view' = view /\ running' = running
    BY <1>3 DEF ReplayAnimations
  <2>2. QED BY <1>3, <2>1
<1>4. QED BY <1>1, <1>2, <1>3

-----------------------------------------------------------------------------
(* Opens *)

\* A call of handleOpen is in flight, in one of its awaits, or its slot is free.
LEMMA OpenTypes ==
  ASSUME TypeOK, NEW o \in Opens
  PROVE  /\ opens[o] = NoOpen <=> opens[o].at = "idle"
         /\ opens[o] # NoOpen => /\ opens[o] \in [at : OpenPlaces, key : Fragments]
                                 /\ opens[o].at \in OpenPlaces
                                 /\ opens[o].key \in Fragments
BY DEF TypeOK, NoOpen, OpenPlaces, Refusals

\* A call goes on to its next await: nothing else about the opens changes.
LEMMA Awaited ==
  ASSUME TypeOK, NEW o \in Opens, opens[o].at # "idle",
         NEW at \in OpenPlaces, Await(o, at)
  PROVE  /\ opens' \in [Opens -> [at : OpenPlaces, key : Fragments] \cup {NoOpen}]
         /\ opens'[o].at = at /\ opens'[o] # NoOpen /\ opens[o] # NoOpen
         /\ \A p \in Opens : p # o => opens'[p] = opens[p]
<1>1. opens[o] \in [at : OpenPlaces, key : Fragments] /\ opens[o] # NoOpen
  BY OpenTypes
<1> DEFINE r == [opens[o] EXCEPT !.at = at]
<1>2. r \in [at : OpenPlaces, key : Fragments] /\ r.at = at
  BY <1>1
<1>3. r # NoOpen
  BY <1>2 DEF NoOpen, OpenPlaces, Refusals
<1>4. opens \in [Opens -> [at : OpenPlaces, key : Fragments] \cup {NoOpen}]
  BY DEF TypeOK
<1>5. opens' = [opens EXCEPT ![o] = r]
  BY DEF Await
<1> HIDE DEF r
<1>6. QED BY <1>1, <1>2, <1>3, <1>4, <1>5

\* A call ends, or a new one begins.
LEMMA SlotTypes ==
  ASSUME TypeOK, NEW o \in Opens,
         NEW r \in [at : OpenPlaces, key : Fragments] \cup {NoOpen},
         opens' = [opens EXCEPT ![o] = r]
  PROVE  /\ opens' \in [Opens -> [at : OpenPlaces, key : Fragments] \cup {NoOpen}]
         /\ opens'[o] = r
         /\ \A p \in Opens : p # o => opens'[p] = opens[p]
BY DEF TypeOK

-----------------------------------------------------------------------------
(* Steps that put a scene without text on the screen *)

\* Such a scene disturbs no conjunct about the letter: it says too little.
LEMMA PlainStep ==
  ASSUME Inv, NEW state \in StatusStates \cup {"sealed"}, Show(Plain(state)),
         UNCHANGED serviceVars,
         state # "sealed" \/ accepted' = accepted,
         "hold" \in accepted => "hold" \in accepted',
         state = "vanished" => burner = "page",
         NothingCloses => NothingCloses',
         \A o \in Opens : HasPayload(o)' => HasPayload(o)
  PROVE  /\ scene' \in Scenes /\ view' \in Views /\ scene'.state = state
         /\ timer' \in Timers \cup {NoTimer}
         /\ BurnedByPage' /\ OnePayload' /\ ClosesLast' /\ TextOnlyInEnvelope'
         /\ VanishedMeansRead' /\ ConsentHeld'
<1>1. /\ scene' \in Scenes /\ scene'.state = state /\ scene'.text = FALSE /\ view' \in Views
      /\ timer' \in Timers \cup {NoTimer} /\ view'.hold = view.hold
      /\ state = "sealed" /\ view'.consent /\ ~view'.triggered =>
           scene.state = "sealed" /\ view.consent /\ ~view.triggered
  BY ShowPlain DEF Inv, TypeOK
<1>2. letter' = letter /\ burner' = burner
  BY DEF serviceVars
<1>3. BurnedByPage'
  BY <1>1, <1>2 DEF Inv, BurnedByPage
<1>4. OnePayload'
  BY <1>1 DEF Inv, OnePayload
<1>5. ClosesLast' /\ TextOnlyInEnvelope'
  BY <1>1 DEF ClosesLast, TextOnlyInEnvelope, StatusStates, EnvelopeStates
<1>6. VanishedMeansRead'
  BY <1>1, <1>2 DEF VanishedMeansRead
<1>7. ConsentHeld'
  BY <1>1 DEF Inv, ConsentHeld
<1>8. QED BY <1>1, <1>3, <1>4, <1>5, <1>6, <1>7

\* A status check begins, or fails at once for a fragment that is no key.
LEMMA LoadStarts ==
  ASSUME Inv, NEW f \in Fragments, StartLoad(f), link' \in Fragments,
         accepted' = accepted \/ accepted' = accepted \ {"link"}
  PROVE  Inv'
<1> DEFINE state == IF f \in BadFragments THEN "error" ELSE "loading"
<1>1. /\ state \in StatusStates /\ state \notin {"vanished", "sealed"}
      /\ Show(Plain(state)) /\ UNCHANGED <<opens, serviceVars, hollow, running, reduced>>
      /\ overlapped' = (overlapped \/ ~Quiet)
  BY DEF StartLoad, StatusStates
<1>2. loads' \in [Loads -> {"idle", "asked"} \cup Statuses]
  BY DEF StartLoad, Inv, TypeOK
<1>3. \A i \in Loads : loads'[i] = loads[i] \/ loads'[i] = "asked"
  BY DEF StartLoad, Inv, TypeOK
<1> HIDE DEF state
<1>4. /\ scene' \in Scenes /\ view' \in Views /\ scene'.state = state
      /\ timer' \in Timers \cup {NoTimer}
      /\ BurnedByPage' /\ OnePayload' /\ ClosesLast' /\ TextOnlyInEnvelope'
      /\ VanishedMeansRead' /\ ConsentHeld'
  BY <1>1, PlainStep DEF NothingCloses, HasPayload
<1>5. TypeOK'
  BY <1>1, <1>2, <1>4 DEF Inv, TypeOK, serviceVars
<1>6. GoneIsFinal'
  BY <1>1, <1>3 DEF Inv, GoneIsFinal, Gone, serviceVars
<1>7. Calm'
  BY <1>1, <1>4 DEF Calm, Quiet, Unsealed, StatusStates, EnvelopeStates
<1>8. QED BY <1>4, <1>5, <1>6, <1>7 DEF Inv

\* A status check ends.
LEMMA LoadEnded ==
  ASSUME Inv, NEW i \in Loads, loads[i] # "idle",
         NEW state \in {"sealed", "consumed", "expired", "error"}, LoadEnds(i, state)
  PROVE  Inv'
<1>1. /\ Show(Plain(state)) /\ loads' = [loads EXCEPT ![i] = "idle"]
      /\ UNCHANGED <<link, opens, serviceVars, history, running, reduced>>
      /\ state \in StatusStates \cup {"sealed"} /\ state # "vanished"
  BY DEF LoadEnds, StatusStates
<1>2. /\ scene' \in Scenes /\ view' \in Views /\ scene'.state = state
      /\ timer' \in Timers \cup {NoTimer}
      /\ BurnedByPage' /\ OnePayload' /\ ClosesLast' /\ TextOnlyInEnvelope'
      /\ VanishedMeansRead' /\ ConsentHeld'
  BY <1>1, PlainStep DEF NothingCloses, HasPayload, history
<1>3. TypeOK'
  BY <1>1, <1>2 DEF Inv, TypeOK, serviceVars, history
<1>4. GoneIsFinal'
  BY <1>1 DEF Inv, TypeOK, GoneIsFinal, Gone, serviceVars
<1>5. Calm'
  <2>1. ~overlapped => \A o \in Opens : opens[o] = NoOpen
    BY DEF Inv, Calm
  <2>2. QED BY <1>1, <1>2, <2>1 DEF Calm, Unsealed, EnvelopeStates, history
<1>6. QED BY <1>2, <1>3, <1>4, <1>5 DEF Inv

\* An open ends without a letter.
LEMMA OpenEnded ==
  ASSUME Inv, NEW o \in Opens, opens[o].at # "idle",
         NEW state \in {"consumed", "expired", "error"}, OpenEnds(o, state)
  PROVE  Inv'
<1>1. /\ Show(Plain(state)) /\ opens' = [opens EXCEPT ![o] = NoOpen]
      /\ UNCHANGED <<link, loads, serviceVars, history, running, reduced>>
      /\ state \in StatusStates /\ state # "vanished"
  BY DEF OpenEnds, StatusStates
<1>2. /\ opens' \in [Opens -> [at : OpenPlaces, key : Fragments] \cup {NoOpen}]
      /\ opens'[o] = NoOpen /\ \A p \in Opens : p # o => opens'[p] = opens[p]
  BY <1>1, SlotTypes DEF Inv
<1>3. \A p \in Opens : HasPayload(p)' => HasPayload(p)
  BY <1>2 DEF HasPayload, NoOpen
<1>4. /\ scene' \in Scenes /\ view' \in Views /\ scene'.state = state
      /\ timer' \in Timers \cup {NoTimer}
      /\ BurnedByPage' /\ OnePayload' /\ ClosesLast' /\ TextOnlyInEnvelope'
      /\ VanishedMeansRead' /\ ConsentHeld'
  BY <1>1, <1>3, PlainStep DEF NothingCloses, history
<1>5. TypeOK'
  BY <1>1, <1>2, <1>4 DEF Inv, TypeOK, serviceVars, history
<1>6. GoneIsFinal'
  BY <1>1, <1>2 DEF Inv, GoneIsFinal, Gone, NoOpen, serviceVars
<1>7. Calm'
  <2>1. opens[o] # NoOpen
    BY DEF NoOpen
  <2>2. ~overlapped => \A p \in Opens : opens[p] # NoOpen => p = o
    BY <2>1 DEF Inv, Calm
  <2>3. QED BY <1>1, <1>2, <1>4, <2>2 DEF Calm, Unsealed, EnvelopeStates, StatusStates, history
<1>8. QED BY <1>4, <1>5, <1>6, <1>7 DEF Inv

\* The burn animation ends; it only ever plays after a reading.
LEMMA BurnEnded ==
  ASSUME Inv, BurnAnimationEnds, UNCHANGED <<link, loads, opens, serviceVars, history>>
  PROVE  Inv'
<1>1. /\ Show(Plain("vanished")) /\ running["burn"] > 0
      /\ running' = [running EXCEPT !["burn"] = @ - 1] /\ reduced' = reduced
  BY DEF BurnAnimationEnds
<1>2. running' \in [{"open", "close", "burn"} -> Nat] /\ (NothingCloses => NothingCloses')
  BY <1>1 DEF Inv, TypeOK, NothingCloses
<1>3. burner = "page" /\ \A o \in Opens : ~HasPayload(o)
  BY <1>1 DEF Inv, BurnedByPage, OnePayload, NothingCloses
<1>4. /\ scene' \in Scenes /\ view' \in Views /\ scene'.state = "vanished"
      /\ timer' \in Timers \cup {NoTimer}
      /\ BurnedByPage' /\ OnePayload' /\ ClosesLast' /\ TextOnlyInEnvelope'
      /\ VanishedMeansRead' /\ ConsentHeld'
  BY <1>1, <1>2, <1>3, PlainStep DEF HasPayload, StatusStates, history
<1>5. TypeOK'
  BY <1>1, <1>2, <1>4 DEF Inv, TypeOK, serviceVars, history
<1>6. GoneIsFinal'
  BY DEF Inv, GoneIsFinal, serviceVars
<1>7. Calm'
  BY <1>3, <1>4 DEF Inv, Calm, HasPayload, Unsealed, EnvelopeStates, history, serviceVars
<1>8. QED BY <1>4, <1>5, <1>6, <1>7 DEF Inv

-----------------------------------------------------------------------------
(* Steps of a call that leave the scene alone *)

\* A call of handleOpen goes on to ask for a session, or for the letter, or is
\* refused; a refusal that says gone is right.
LEMMA OpenGoesOn ==
  ASSUME Inv, NEW o \in Opens, opens[o].at \in {"import", "session", "open"},
         NEW at \in {"session", "open"} \cup Refusals, at \in Gone => letter \in Gone,
         Await(o, at), UNCHANGED serviceVars
  PROVE  Inv'
<1>1. /\ opens' \in [Opens -> [at : OpenPlaces, key : Fragments] \cup {NoOpen}]
      /\ opens'[o].at = at /\ opens'[o] # NoOpen /\ opens[o] # NoOpen
      /\ \A p \in Opens : p # o => opens'[p] = opens[p]
  BY Awaited DEF Inv, OpenPlaces
<1>2. UNCHANGED <<link, loads, serviceVars, history, sceneVars>>
  BY DEF Await
<1>3. /\ \A p \in Opens : HasPayload(p)' => HasPayload(p)
      /\ \A p \in Opens : (opens'[p] = NoOpen) <=> (opens[p] = NoOpen)
  BY <1>1 DEF HasPayload, Refusals
<1>4. TypeOK'
  BY <1>1, <1>2 DEF Inv, TypeOK, serviceVars, history, sceneVars
<1>5. BurnedByPage' /\ OnePayload'
  BY <1>2, <1>3 DEF Inv, BurnedByPage, OnePayload, NothingCloses, serviceVars, sceneVars
<1>6. ClosesLast' /\ TextOnlyInEnvelope' /\ VanishedMeansRead' /\ ConsentHeld'
  BY <1>2 DEF Inv, ClosesLast, TextOnlyInEnvelope, VanishedMeansRead, ConsentHeld,
              NothingCloses, serviceVars, sceneVars, history
<1>7. GoneIsFinal'
  BY <1>1, <1>2 DEF Inv, GoneIsFinal, serviceVars
<1>8. Calm'
  BY <1>2, <1>3 DEF Inv, Calm, Quiet, serviceVars, sceneVars, history
<1>9. QED BY <1>4, <1>5, <1>6, <1>7, <1>8 DEF Inv

\* The service burns the letter for this page: nobody else had, so nothing of
\* it is on the page yet.
LEMMA LetterBurned ==
  ASSUME Inv, NEW o \in Opens, LetterOpened(o)
  PROVE  Inv'
<1>1. /\ opens[o].at = "open" /\ letter = "active" /\ letter' = "consumed" /\ burner' = "page"
      /\ Await(o, "payload") /\ UNCHANGED <<link, loads, history, sceneVars>>
  BY DEF LetterOpened, Await
<1>2. /\ opens' \in [Opens -> [at : OpenPlaces, key : Fragments] \cup {NoOpen}]
      /\ opens'[o].at = "payload" /\ opens'[o] # NoOpen /\ opens[o] # NoOpen
      /\ \A p \in Opens : p # o => opens'[p] = opens[p]
  BY <1>1, Awaited DEF Inv, OpenPlaces, Refusals
<1>3. burner # "page" /\ ~scene.text /\ NothingCloses /\ \A p \in Opens : ~HasPayload(p)
  BY <1>1 DEF Inv, BurnedByPage, Gone
<1>4. TypeOK'
  BY <1>1, <1>2 DEF Inv, TypeOK, history, sceneVars, Statuses
<1>5. BurnedByPage'
  BY <1>1 DEF BurnedByPage, Gone
<1>6. OnePayload'
  BY <1>1, <1>2, <1>3 DEF OnePayload, HasPayload, NothingCloses, sceneVars
<1>7. ClosesLast' /\ TextOnlyInEnvelope' /\ VanishedMeansRead' /\ ConsentHeld'
  BY <1>1 DEF Inv, ClosesLast, TextOnlyInEnvelope, VanishedMeansRead, ConsentHeld,
              NothingCloses, sceneVars, history
<1>8. GoneIsFinal'
  BY <1>1 DEF GoneIsFinal, Gone
<1>9. Calm'
  <2>1. \A p \in Opens : (opens'[p] = NoOpen) <=> (opens[p] = NoOpen)
    BY <1>2
  <2>2. QED BY <1>1, <1>3, <2>1 DEF Inv, Calm, Quiet, history, sceneVars
<1>10. QED BY <1>4, <1>5, <1>6, <1>7, <1>8, <1>9 DEF Inv

\* The service answers a status check.
LEMMA StatusAnswered ==
  ASSUME Inv, NEW i \in Loads, StatusRead(i)
  PROVE  Inv'
<1>1. /\ loads[i] = "asked" /\ loads' = [loads EXCEPT ![i] = letter]
      /\ UNCHANGED <<link, opens, serviceVars, history, sceneVars>>
  BY DEF StatusRead
<1>2. TypeOK'
  BY <1>1 DEF Inv, TypeOK, serviceVars, history, sceneVars
<1>3. BurnedByPage' /\ OnePayload' /\ ClosesLast' /\ TextOnlyInEnvelope' /\ VanishedMeansRead'
      /\ ConsentHeld'
  BY <1>1 DEF Inv, BurnedByPage, OnePayload, ClosesLast, TextOnlyInEnvelope, VanishedMeansRead,
              ConsentHeld, NothingCloses, HasPayload, serviceVars, history, sceneVars
<1>4. GoneIsFinal'
  BY <1>1 DEF Inv, TypeOK, GoneIsFinal, serviceVars
<1>5. Calm'
  <2>1. ~overlapped => ~Quiet /\ \A p \in Opens : opens[p] = NoOpen
    BY <1>1 DEF Inv, Calm, Quiet
  <2>2. QED BY <1>1, <2>1 DEF Inv, Calm, serviceVars, history, sceneVars
<1>6. QED BY <1>2, <1>3, <1>4, <1>5 DEF Inv

\* Others move a letter that is still there, so it is not this page's.
LEMMA LetterMoved ==
  ASSUME Inv, NEW from \in {"active", "opening"}, NEW to \in Statuses, LetterMoves(from, to)
  PROVE  Inv'
<1>1. /\ letter = from /\ letter' = to /\ burner' = IF to = "consumed" THEN "other" ELSE burner
      /\ UNCHANGED <<link, loads, opens, history, sceneVars>>
  BY DEF LetterMoves
<1>2. /\ burner # "page" /\ burner' # "page" /\ burner' \in {"other", "nobody"}
      /\ ~scene.text /\ NothingCloses /\ \A p \in Opens : ~HasPayload(p)
  BY <1>1 DEF Inv, TypeOK, BurnedByPage, Gone
<1>3. TypeOK'
  BY <1>1, <1>2 DEF Inv, TypeOK, history, sceneVars
<1>4. BurnedByPage' /\ OnePayload'
  BY <1>1, <1>2 DEF BurnedByPage, OnePayload, HasPayload, NothingCloses, sceneVars
<1>5. ClosesLast' /\ TextOnlyInEnvelope' /\ VanishedMeansRead' /\ ConsentHeld'
  BY <1>1, <1>2 DEF Inv, ClosesLast, TextOnlyInEnvelope, VanishedMeansRead, ConsentHeld,
                    NothingCloses, sceneVars, history
<1>6. GoneIsFinal'
  BY <1>1 DEF Inv, GoneIsFinal, Gone
<1>7. Calm'
  BY <1>1, <1>2 DEF Inv, Calm, Quiet, HasPayload, history, sceneVars
<1>8. QED BY <1>3, <1>4, <1>5, <1>6, <1>7 DEF Inv

\* A status check writes "expired" over a letter that was burned: it stays gone.
LEMMA LetterOverwritten ==
  ASSUME Inv, LetterMoves("consumed", "expired")
  PROVE  Inv'
<1>1. /\ letter = "consumed" /\ letter' = "expired" /\ burner' = burner
      /\ UNCHANGED <<link, loads, opens, history, sceneVars>>
  BY DEF LetterMoves
<1>2. TypeOK' /\ GoneIsFinal'
  BY <1>1 DEF Inv, TypeOK, GoneIsFinal, Gone, Statuses, history, sceneVars
<1>3. BurnedByPage' /\ OnePayload' /\ ClosesLast' /\ TextOnlyInEnvelope' /\ VanishedMeansRead'
      /\ ConsentHeld'
  BY <1>1 DEF Inv, BurnedByPage, OnePayload, ClosesLast, TextOnlyInEnvelope, VanishedMeansRead,
              ConsentHeld, NothingCloses, HasPayload, Gone, history, sceneVars
<1>4. Calm'
  BY <1>1 DEF Inv, Calm, Quiet, HasPayload, history, sceneVars
<1>5. QED BY <1>2, <1>3, <1>4 DEF Inv

-----------------------------------------------------------------------------
(* Steps of the reader *)

\* An envelope is opened, by a touch or by a hold: it is triggered, so that it
\* is not opened again, and what begins is alone unless the history says
\* otherwise; without a fragment nothing begins.
LEMMA OpenStarts ==
  ASSUME Inv, NEW key \in Fragments, StartOpen(key), ~view.triggered
  PROVE  Inv'
<1>1. /\ view' = [view EXCEPT !.triggered = TRUE, !.consent = TRUE, !.hold = NoKey]
      /\ UNCHANGED <<scene, timer, running, reduced>>
      /\ UNCHANGED <<link, loads, serviceVars>>
      /\ accepted' = {} /\ hollow' \in BOOLEAN
  BY DEF StartOpen, TriggerOpen
<1>2. view' \in Views /\ view'.triggered = TRUE /\ view'.visible = view.visible
      /\ view'.hold = NoKey /\ view'.lit = view.lit
  BY <1>1 DEF Inv, TypeOK, Views
<1>3. ClosesLast' /\ TextOnlyInEnvelope' /\ VanishedMeansRead' /\ ConsentHeld'
  BY <1>1, <1>2 DEF Inv, ClosesLast, TextOnlyInEnvelope, VanishedMeansRead, ConsentHeld,
                    NothingCloses, serviceVars
<1>4. CASE opens' = opens /\ overlapped' = overlapped
  <2>1. TypeOK'
    BY <1>1, <1>2, <1>4 DEF Inv, TypeOK, serviceVars
  <2>2. BurnedByPage' /\ OnePayload' /\ GoneIsFinal'
    BY <1>1, <1>4 DEF Inv, BurnedByPage, OnePayload, GoneIsFinal, HasPayload, NothingCloses, serviceVars
  <2>3. Calm'
    BY <1>1, <1>2, <1>4 DEF Inv, Calm, Quiet, HasPayload, serviceVars
  <2>4. QED BY <1>3, <2>1, <2>2, <2>3 DEF Inv
<1>5. CASE \E o \in Opens : /\ opens[o] = NoOpen
                          /\ opens' = [opens EXCEPT ![o] = [at |-> "import", key |-> key]]
                          /\ overlapped' = (overlapped \/ ~Quiet \/ ~Mounted)
  <2>1. PICK o \in Opens : /\ opens[o] = NoOpen
                          /\ opens' = [opens EXCEPT ![o] = [at |-> "import", key |-> key]]
                          /\ overlapped' = (overlapped \/ ~Quiet \/ ~Mounted)
    BY <1>5
  <2>2. /\ opens' \in [Opens -> [at : OpenPlaces, key : Fragments] \cup {NoOpen}]
        /\ opens'[o].at = "import" /\ \A p \in Opens : p # o => opens'[p] = opens[p]
    BY <2>1, SlotTypes DEF Inv, OpenPlaces
  <2>3. \A p \in Opens : HasPayload(p)' => HasPayload(p)
    BY <2>2 DEF HasPayload
  <2>4. TypeOK'
    BY <1>1, <1>2, <2>1, <2>2 DEF Inv, TypeOK, serviceVars
  <2>5. BurnedByPage' /\ OnePayload'
    BY <1>1, <2>3 DEF Inv, BurnedByPage, OnePayload, NothingCloses, serviceVars
  <2>6. GoneIsFinal'
    BY <1>1, <2>2 DEF Inv, GoneIsFinal, Gone, serviceVars
  <2>7. Calm'
    <3>1. ~overlapped' => /\ ~overlapped /\ Quiet /\ view.visible = NoStatus
                          /\ scene.state \in EnvelopeStates
      BY <2>1 DEF Mounted
    <3>2. ~overlapped' => scene.state = "sealed"
      BY <3>1 DEF Inv, Calm, Unsealed
    <3>3. QED BY <1>1, <1>2, <2>1, <2>2, <3>1, <3>2 DEF Calm, Quiet, Unsealed
  <2>8. QED BY <1>3, <2>4, <2>5, <2>6, <2>7 DEF Inv
<1>6. QED BY <1>4, <1>5 DEF StartOpen

\* The letter is decrypted and starts to open; its payload was the only one and
\* nothing of an earlier reading is left.
LEMMA LetterDecrypted ==
  ASSUME Inv, NEW o \in Opens, Decrypted(o)
  PROVE  Inv'
<1> DEFINE s == [state |-> "opening", text |-> TRUE]
<1>1. /\ HasPayload(o) /\ opens' = [opens EXCEPT ![o] = NoOpen] /\ PlayOpen(s, ~reduced)
      /\ StatusEffect /\ UNCHANGED <<link, loads, serviceVars, history, reduced>>
  BY DEF Decrypted, HasPayload
<1>2. /\ opens' \in [Opens -> [at : OpenPlaces, key : Fragments] \cup {NoOpen}]
      /\ opens'[o] = NoOpen /\ \A p \in Opens : p # o => opens'[p] = opens[p]
  BY <1>1, SlotTypes DEF Inv
<1>3. s \in Scenes /\ s.state = "opening" /\ s.text = TRUE
  BY DEF Scenes, EnvelopeStates
<1>4. (~reduced) \in BOOLEAN
  OBVIOUS
<1> HIDE DEF s
<1>5. /\ scene' \in Scenes /\ view' \in Views
      /\ running' \in [{"open", "close", "burn"} -> Nat]
      /\ running'["close"] = running["close"] /\ running'["burn"] = running["burn"]
      /\ scene'.text = TRUE /\ scene'.state \in {"opening", "revealed"}
      /\ view'.visible = view.visible /\ view'.triggered = view.triggered
      /\ view'.hold = view.hold
      /\ scene'.state = "revealed" /\ view.visible = NoStatus => view'.lit
  BY <1>1, <1>3, <1>4, Played DEF Inv, TypeOK
<1>6. /\ burner = "page" /\ NothingCloses
      /\ \A p \in Opens : HasPayload(p) => p = o
  BY <1>1 DEF Inv, BurnedByPage, OnePayload
<1>7. \A p \in Opens : ~HasPayload(p)'
  BY <1>2, <1>6 DEF HasPayload, NoOpen
<1>8. TypeOK'
  <2>1. timer' \in Timers \cup {NoTimer}
    BY <1>1, EffectType DEF Inv, TypeOK
  <2>2. QED BY <1>1, <1>2, <1>5, <2>1 DEF Inv, TypeOK, serviceVars, history
<1>9. BurnedByPage' /\ OnePayload'
  BY <1>1, <1>6, <1>7 DEF Inv, BurnedByPage, OnePayload, serviceVars
<1>10. ClosesLast' /\ TextOnlyInEnvelope' /\ VanishedMeansRead' /\ ConsentHeld'
  BY <1>1, <1>5, <1>6 DEF Inv, history, ClosesLast, TextOnlyInEnvelope, VanishedMeansRead, ConsentHeld,
                    NothingCloses, EnvelopeStates
<1>11. GoneIsFinal'
  BY <1>1, <1>2 DEF Inv, GoneIsFinal, Gone, NoOpen, serviceVars
<1>12. Calm'
  <2>1. opens[o] # NoOpen
    BY <1>1 DEF HasPayload, NoOpen
  <2>2. ~overlapped => /\ \A p \in Opens : opens[p] # NoOpen => p = o
                       /\ \A i \in Loads : loads[i] = "idle"
                       /\ view.triggered /\ view.visible = NoStatus
    BY <1>1, <2>1 DEF Inv, Calm
  <2>3. QED BY <1>1, <1>2, <1>5, <2>2 DEF Calm, Quiet, history
<1>13. QED BY <1>8, <1>9, <1>10, <1>11, <1>12 DEF Inv

-----------------------------------------------------------------------------
(* Steps of the view *)

PageUnchanged == UNCHANGED <<link, loads, opens, serviceVars, history>>

\* A view that changes neither what it shows nor what it was triggered by, and
\* makes no paper invisible.
LEMMA ViewOnly ==
  ASSUME Inv, UNCHANGED <<link, loads, opens, serviceVars, hollow, overlapped, scene, running, reduced>>,
         accepted' \in SUBSET {"link", "hold"}, timer' \in Timers \cup {NoTimer}, view' \in Views, view'.triggered = view.triggered,
         view.lit => view'.lit,
         view'.visible = view.visible \/ view'.visible = StatusOf(scene.state),
         ConsentHeld'
  PROVE  Inv'
<1>1. TypeOK'
  BY DEF Inv, TypeOK, serviceVars
<1>2. BurnedByPage' /\ OnePayload' /\ ClosesLast' /\ TextOnlyInEnvelope' /\ VanishedMeansRead'
      /\ GoneIsFinal'
  BY DEF Inv, BurnedByPage, OnePayload, ClosesLast, TextOnlyInEnvelope, VanishedMeansRead,
         GoneIsFinal, NothingCloses, HasPayload, serviceVars
<1>3. Calm'
  <2>1. scene.state \in EnvelopeStates => StatusOf(scene.state) = NoStatus
    BY DEF StatusOf, EnvelopeStates, StatusStates
  <2>2. QED BY <2>1 DEF Inv, Calm, Quiet, HasPayload, Unsealed, EnvelopeStates, serviceVars
<1>4. QED BY <1>1, <1>2, <1>3 DEF Inv

\* The steps of the reader and the timer that change the view alone.
LEMMA ViewMoves ==
  ASSUME Inv, (\E t \in Timers : StatusScreenLeaves(t)) \/ PressDestroy, PageUnchanged
  PROVE  Inv'
<1>1. view \in Views /\ scene.state \in StatusStates \cup EnvelopeStates
  BY SceneTypes DEF Inv, TypeOK
<1>2. /\ UNCHANGED <<scene, running, reduced>> /\ (timer' = timer \/ timer' = NoTimer)
      /\ \/ view' = [view EXCEPT !.visible = StatusOf(scene.state)]
         \/ view' = [view EXCEPT !.armed = TRUE]
  BY DEF StatusScreenLeaves, PressDestroy
<1>3. StatusOf(scene.state) \in StatusStates \cup {NoStatus}
  BY DEF StatusOf
<1>4. /\ view' \in Views /\ view'.triggered = view.triggered /\ view'.lit = view.lit
      /\ view'.consent = view.consent /\ view'.hold = view.hold
      /\ view'.visible = view.visible \/ view'.visible = StatusOf(scene.state)
  BY <1>1, <1>2, <1>3 DEF Views
<1>5. ConsentHeld'
  BY <1>2, <1>4 DEF Inv, ConsentHeld, PageUnchanged, history
<1>6. QED BY <1>2, <1>4, <1>5, ViewOnly DEF PageUnchanged, history, Inv, TypeOK

\* The warning is accepted, or a hold begins, which takes the acceptance along,
\* or ends.
LEMMA Accepted ==
  ASSUME Inv, Accept \/ BeginHold \/ EndHold
  PROVE  Inv'
<1>1. /\ UNCHANGED <<scene, timer, running, reduced>>
      /\ UNCHANGED <<link, loads, opens, serviceVars, hollow, overlapped>>
      /\ \/ view' = [view EXCEPT !.consent = TRUE] /\ accepted' = accepted \cup {"link"}
         \/ /\ view' = [view EXCEPT !.hold = link] /\ CanOpen
            /\ accepted' = accepted \cup (IF "link" \in accepted THEN {"hold"} ELSE {})
         \/ view' = [view EXCEPT !.hold = NoKey] /\ accepted' = accepted \ {"hold"}
  BY DEF Accept, AcceptConsent, BeginHold, EndHold, HoldStart, HoldRelease
<1>2. view \in Views /\ link \in Fragments /\ accepted \in SUBSET {"link", "hold"}
  BY DEF Inv, TypeOK
<1>3. /\ view' \in Views /\ view'.triggered = view.triggered /\ view'.lit = view.lit
      /\ view'.visible = view.visible
  BY <1>1, <1>2 DEF Views
<1>4. ConsentHeld'
  <2>1. CASE view' = [view EXCEPT !.consent = TRUE] /\ accepted' = accepted \cup {"link"}
    <3>1. view'.hold = view.hold
      BY <1>2, <2>1 DEF Views
    <3>2. QED BY <2>1, <3>1 DEF Inv, ConsentHeld
  <2>2. CASE /\ view' = [view EXCEPT !.hold = link] /\ CanOpen
             /\ accepted' = accepted \cup (IF "link" \in accepted THEN {"hold"} ELSE {})
    <3>1. "link" \in accepted
      BY <2>2 DEF Inv, ConsentHeld, CanOpen
    <3>2. QED BY <2>2, <3>1 DEF ConsentHeld
  <2>3. CASE view' = [view EXCEPT !.hold = NoKey] /\ accepted' = accepted \ {"hold"}
    <3>1. view'.hold = NoKey /\ view'.consent = view.consent
      BY <1>2, <2>3 DEF Views
    <3>2. QED BY <1>1, <1>3, <2>3, <3>1 DEF Inv, ConsentHeld
  <2>4. QED BY <1>1, <2>1, <2>2, <2>3
<1>5. accepted' \in SUBSET {"link", "hold"} /\ timer' \in Timers \cup {NoTimer}
  BY <1>1, <1>2 DEF Inv, TypeOK
<1>6. QED BY <1>1, <1>3, <1>4, <1>5, ViewOnly

\* An animation takes a letter one state further, text and all; the letter
\* closes only when it was revealed.
LEMMA Animated ==
  ASSUME Inv, PageUnchanged, reduced' \in BOOLEAN,
         scene' \in Scenes, view' \in Views, timer' \in Timers \cup {NoTimer},
         running' \in [{"open", "close", "burn"} -> Nat],
         scene'.text = scene.text,
         \/ scene'.state = scene.state
         \/ scene.state = "opening" /\ scene'.state = "revealed"
         \/ scene.state = "revealed" /\ scene'.state = "closing"
         \/ scene.state = "closing" /\ scene'.state = "burning",
         NothingCloses => NothingCloses' \/ scene'.state = "closing",
         view'.visible = view.visible, view'.triggered = view.triggered,
         view'.consent = view.consent, view'.hold = view.hold,
         scene'.state = "revealed" /\ view.visible = NoStatus =>
           view'.lit \/ (scene.state = "revealed" /\ view'.lit = view.lit)
  PROVE  Inv'
<1>1. TypeOK'
  BY DEF Inv, TypeOK, PageUnchanged, serviceVars, history
<1>2. TextOnlyInEnvelope'
  BY SceneTypes DEF Inv, TypeOK, TextOnlyInEnvelope, EnvelopeStates
<1>3. VanishedMeansRead' /\ ConsentHeld' /\ GoneIsFinal'
  BY DEF Inv, VanishedMeansRead, ConsentHeld, GoneIsFinal, PageUnchanged, serviceVars, history
<1>4. scene'.state = "closing" => scene.text
  BY SceneTypes DEF Inv, TypeOK, TextOnlyInEnvelope, EnvelopeStates
<1>5. BurnedByPage' /\ OnePayload'
  BY <1>4 DEF Inv, BurnedByPage, OnePayload, HasPayload, PageUnchanged, serviceVars
<1>6. ClosesLast'
  BY DEF Inv, ClosesLast
<1>7. Calm'
  <2>1. scene'.state \in Unsealed <=> scene.state \in Unsealed
    BY DEF Unsealed, EnvelopeStates
  <2>2. scene.state = "sealed" => scene'.state = "sealed"
    OBVIOUS
  <2>3. QED BY <2>1, <2>2 DEF Inv, Calm, Quiet, HasPayload, Unsealed, EnvelopeStates,
                              PageUnchanged, serviceVars, history
<1>8. QED BY <1>1, <1>2, <1>3, <1>5, <1>6, <1>7 DEF Inv

\* The steps of ViewStep that are animations, or replay one.
LEMMA AnimationMoves ==
  ASSUME Inv, OpenAnimationEnds \/ BurnAnimationStarts \/ DestroyFires \/ ToggleMotion, PageUnchanged
  PROVE  Inv'
<1>1. /\ scene \in Scenes /\ view \in Views /\ reduced \in BOOLEAN
      /\ running \in [{"open", "close", "burn"} -> Nat] /\ timer \in Timers \cup {NoTimer}
  BY DEF Inv, TypeOK
<1>2. CASE OpenAnimationEnds
  <2>1. /\ running' = [running EXCEPT !["open"] = @ - 1] /\ running["open"] > 0
        /\ scene' = HandleOpenComplete(scene) /\ reduced' = reduced /\ timer' = timer
        /\ view' = [view EXCEPT !.lit = view.lit \/ scene.state = "opening"]
    BY <1>2 DEF OpenAnimationEnds
  <2>2. (view.lit \/ scene.state = "opening") \in BOOLEAN
    OBVIOUS
  <2>3. /\ view' \in Views /\ view'.visible = view.visible /\ view'.triggered = view.triggered
        /\ view'.consent = view.consent /\ view'.hold = view.hold /\ view'.lit = (view.lit \/ scene.state = "opening")
    BY <1>1, <2>1, <2>2 DEF Views
  <2>4. running' \in [{"open", "close", "burn"} -> Nat] /\ (NothingCloses => NothingCloses')
    BY <1>1, <2>1 DEF NothingCloses
  <2>5. /\ scene' \in Scenes /\ scene'.text = scene.text
        /\ scene'.state = IF scene.state = "opening" THEN "revealed" ELSE scene.state
    BY <1>1, <2>1, Handlers
  <2>6. view.lit => view'.lit
    BY <2>3
  <2>7. scene.state = "opening" => view'.lit
    BY <2>3
  <2>8. view'.lit = view.lit \/ view'.lit
    BY <1>1, <2>3, <2>6, <2>7, ViewTypes
  <2>9. QED BY <1>1, <2>1, <2>3, <2>4, <2>5, <2>7, <2>8, Animated
<1>3. CASE BurnAnimationStarts
  <2>1. /\ running' = [running EXCEPT !["close"] = @ - 1, !["burn"] = @ + 1]
        /\ running["close"] > 0
        /\ scene' = HandleBurning(scene) /\ reduced' = reduced /\ timer' = timer /\ view' = view
    BY <1>3 DEF BurnAnimationStarts
  <2>2. running' \in [{"open", "close", "burn"} -> Nat] /\ ~NothingCloses
    BY <1>1, <2>1 DEF NothingCloses
  <2>3. QED BY <1>1, <2>1, <2>2, Handlers, Animated
<1>4. CASE DestroyFires
  <2>1. /\ scene' = HandleClose(scene) /\ reduced' = reduced /\ timer' = timer
        /\ view' = [view EXCEPT !.armed = FALSE]
        /\ running' = IF scene'.state = "closing" THEN [running EXCEPT !["close"] = @ + 1]
                                                  ELSE running
    BY <1>4 DEF DestroyFires
  <2>2. running' \in [{"open", "close", "burn"} -> Nat]
        /\ (NothingCloses => NothingCloses' \/ scene'.state = "closing")
    BY <1>1, <2>1 DEF NothingCloses
  <2>3. /\ view' \in Views /\ view'.visible = view.visible /\ view'.triggered = view.triggered
        /\ view'.consent = view.consent /\ view'.hold = view.hold /\ view'.lit = view.lit
    BY <1>1, <2>1 DEF Views
  <2>4. QED BY <1>1, <2>1, <2>2, <2>3, Handlers, Animated
<1>5. CASE ToggleMotion
  <2>1. ReplayAnimations /\ reduced' \in BOOLEAN /\ timer' \in Timers \cup {NoTimer}
    BY <1>1, <1>5, RestartedType DEF ToggleMotion
  <2>2. /\ scene' \in Scenes /\ view' \in Views
        /\ running' \in [{"open", "close", "burn"} -> Nat]
        /\ running'["burn"] = running["burn"]
        /\ running'["close"] # running["close"] => scene.state = "closing"
        /\ scene'.text = scene.text
        /\ \/ scene'.state = scene.state
           \/ scene.state = "opening" /\ scene'.state = "revealed"
        /\ view'.visible = view.visible /\ view'.triggered = view.triggered
        /\ view'.consent = view.consent /\ view'.hold = view.hold
        /\ scene.state # "opening" => view'.lit = view.lit
        /\ scene.state = "opening" /\ scene'.state = "revealed" /\ view.visible = NoStatus
             => view'.lit
    BY <1>1, <2>1, Replayed
  <2>3. NothingCloses => NothingCloses' \/ scene'.state = "closing"
    BY <2>2 DEF NothingCloses
  <2>4. QED BY <2>1, <2>2, <2>3, Animated
<1>6. QED BY <1>2, <1>3, <1>4, <1>5

-----------------------------------------------------------------------------
(* The invariant holds *)

\* A document starts with its first status check, or with the error of its link.
LEMMA InvInitially == Init => Inv
<1> SUFFICES ASSUME Init PROVE Inv
  OBVIOUS
<1> DEFINE state == IF link \in BadFragments THEN "error" ELSE "loading"
<1>1. /\ state \in {"error", "loading"} /\ scene = Plain(state) /\ view = InitialView("loading")
      /\ timer \in Timers \cup {NoTimer}
      /\ \E first \in Loads :
           loads = [i \in Loads |-> IF i = first /\ state = "loading" THEN "asked" ELSE "idle"]
      /\ opens = [o \in Opens |-> NoOpen]
      /\ running = [k \in {"open", "close", "burn"} |-> 0]
  BY DEF Init
<1> HIDE DEF state
<1>2. scene \in Scenes /\ scene.state = state /\ scene.text = FALSE
  BY <1>1, PlainType DEF StatusStates
<1>3. view \in Views /\ view.consent = FALSE /\ view.hold = NoKey
  BY <1>1 DEF InitialView, Views, StatusOf, StatusStates
<1>4. TypeOK
  <2>1. loads \in [Loads -> {"idle", "asked"} \cup Statuses]
    BY <1>1
  <2>2. opens \in [Opens -> [at : OpenPlaces, key : Fragments] \cup {NoOpen}]
    BY <1>1
  <2>3. running \in [{"open", "close", "burn"} -> Nat]
    BY <1>1
  <2>4. QED BY <1>1, <1>2, <1>3, <2>1, <2>2, <2>3 DEF Init, TypeOK
<1>5. BurnedByPage /\ OnePayload
  BY <1>1, <1>2 DEF Init, BurnedByPage, OnePayload, NothingCloses, HasPayload, NoOpen
<1>6. ClosesLast /\ TextOnlyInEnvelope /\ VanishedMeansRead /\ ConsentHeld
  BY <1>1, <1>2, <1>3 DEF ClosesLast, TextOnlyInEnvelope, VanishedMeansRead, ConsentHeld, EnvelopeStates
<1>7. GoneIsFinal
  BY <1>1 DEF GoneIsFinal, Gone, NoOpen
<1>8. Calm
  BY <1>1, <1>2 DEF Calm, Unsealed, EnvelopeStates
<1>9. QED BY <1>4, <1>5, <1>6, <1>7, <1>8 DEF Inv

\* The scenes that the end of a call can lead to.
LEMMA EndScenes ==
  /\ \A status \in Statuses : LoadScene(status) \in {"sealed", "consumed", "expired", "error"}
  /\ \A why \in Refusals : RefusalScenes[why] \subseteq {"consumed", "expired", "error"}
  /\ FailureScenes \subseteq {"consumed", "expired", "error"}
<1>1. \A code : OpenErrorScene(code) \in {"consumed", "expired", "error"}
  BY DEF OpenErrorScene
<1>2. QED BY <1>1 DEF LoadScene, Statuses, RefusalScenes, FailureScenes

\* Every step of a call of loadStatus.
LEMMA LoadSteps ==
  ASSUME Inv, NEW i \in Loads, LoadStep(i)
  PROVE  Inv'
<1>1. CASE StatusRead(i)
  BY <1>1, StatusAnswered
<1>2. CASE LoadAnswered(i)
  <2>1. loads[i] \in Statuses /\ LoadEnds(i, LoadScene(loads[i]))
    BY <1>2 DEF LoadAnswered
  <2>2. loads[i] # "idle"
    BY <2>1 DEF Statuses
  <2>3. QED BY <2>1, <2>2, EndScenes, LoadEnded
<1>3. CASE LoadFails(i)
  BY <1>3, LoadEnded DEF LoadFails
<1>4. QED BY <1>1, <1>2, <1>3 DEF LoadStep

\* Every step of a call of handleOpen.
LEMMA OpenSteps ==
  ASSUME Inv, NEW o \in Opens, OpenStep(o)
  PROVE  Inv'
<1>1. CASE \/ KeyImported(o) \/ SessionCreated(o) \/ SessionRefused(o) \/ SessionLapsed(o)
           \/ OpenRefused(o)
  <2>1. CASE KeyImported(o)
    BY <2>1, OpenGoesOn DEF KeyImported, Gone
  <2>2. CASE SessionCreated(o)
    BY <2>2, OpenGoesOn DEF SessionCreated, Gone
  <2>3. CASE SessionRefused(o)
    BY <2>3, OpenGoesOn DEF SessionRefused, Gone, Refusals
  <2>4. CASE SessionLapsed(o)
    BY <2>4, OpenGoesOn DEF SessionLapsed, Gone, Refusals
  <2>5. CASE OpenRefused(o)
    <3>1. letter \in Statuses
      BY DEF Inv, TypeOK
    <3>2. QED BY <2>5, <3>1, OpenGoesOn DEF OpenRefused, Gone, Refusals, Statuses
  <2>6. QED BY <1>1, <2>1, <2>2, <2>3, <2>4, <2>5
<1>2. CASE KeyRefused(o) \/ DecryptFails(o)
  BY <1>2, OpenEnded DEF KeyRefused, DecryptFails
<1>3. CASE RefusalReceived(o) \/ OpenFails(o)
  <2>1. PICK state \in {"consumed", "expired", "error"} : OpenEnds(o, state) /\ opens[o].at # "idle"
    BY <1>3, EndScenes DEF RefusalReceived, OpenFails, Refusals
  <2>2. QED BY <2>1, OpenEnded
<1>4. CASE LetterOpened(o)
  BY <1>4, LetterBurned
<1>5. CASE Decrypted(o)
  BY <1>5, LetterDecrypted
<1>6. QED BY <1>1, <1>2, <1>3, <1>4, <1>5 DEF OpenStep

\* Every step of the reader that begins a call.
LEMMA ReaderSteps ==
  ASSUME Inv, Retry \/ (\E f \in Fragments : ChangeLink(f)) \/ PressEnvelope \/ HoldCompletes
  PROVE  Inv'
<1>1. link \in Fragments /\ view \in Views
  BY DEF Inv, TypeOK
<1>2. CASE Retry
  BY <1>1, <1>2, LoadStarts DEF Retry
<1>3. CASE \E f \in Fragments : ChangeLink(f)
  BY <1>3, LoadStarts DEF ChangeLink
<1>4. CASE PressEnvelope
  BY <1>1, <1>4, OpenStarts DEF PressEnvelope, CanOpen
<1>5. CASE HoldCompletes
  BY <1>1, <1>5, ViewTypes, OpenStarts DEF HoldCompletes
<1>6. QED BY <1>2, <1>3, <1>4, <1>5

\* Every step of the page, of its view and of the rest of the world.
LEMMA InvStep == Inv /\ [Next]_vars => Inv'
<1> SUFFICES ASSUME Inv, [Next]_vars PROVE Inv'
  OBVIOUS
<1>1. CASE Retry \/ (\E f \in Fragments : ChangeLink(f)) \/ PressEnvelope \/ HoldCompletes
  BY <1>1, ReaderSteps
<1>2. CASE \E i \in Loads : LoadStep(i)
  BY <1>2, LoadSteps
<1>3. CASE \E o \in Opens : OpenStep(o)
  BY <1>3, OpenSteps
<1>4. CASE OthersAct
  BY <1>4, LetterMoved, LetterOverwritten DEF OthersAct, Statuses
<1>5. CASE ViewStep
  <2>1. PageUnchanged
    BY <1>5 DEF ViewStep, PageUnchanged
  <2>2. CASE (\E t \in Timers : StatusScreenLeaves(t)) \/ PressDestroy
    BY <2>1, <2>2, ViewMoves
  <2>3. CASE OpenAnimationEnds \/ BurnAnimationStarts \/ DestroyFires \/ ToggleMotion
    BY <2>1, <2>3, AnimationMoves
  <2>4. CASE BurnAnimationEnds
    BY <2>1, <2>4, BurnEnded DEF PageUnchanged
  <2>5. QED BY <1>5, <2>2, <2>3, <2>4 DEF ViewStep
<1>6. CASE Accept \/ BeginHold \/ EndHold
  BY <1>6, Accepted
<1>7. CASE UNCHANGED vars
  BY <1>7 DEF vars, serviceVars, history, Inv, TypeOK, BurnedByPage, OnePayload, ClosesLast,
              TextOnlyInEnvelope, VanishedMeansRead, ConsentHeld, GoneIsFinal, Calm, Quiet,
              NothingCloses, HasPayload
<1>8. QED BY <1>1, <1>2, <1>3, <1>4, <1>5, <1>6, <1>7 DEF Next

\* The inductive invariant holds in every state of the page.
THEOREM RevealInvariant == Spec => []Inv
BY InvInitially, InvStep, PTL DEF Spec

-----------------------------------------------------------------------------
(* What follows *)

\* The types of the page's, the view's and the service's state.
THEOREM TypeCorrect == Spec => []TypeOK
<1>1. Inv => TypeOK
  BY DEF Inv
<1>2. QED BY <1>1, RevealInvariant, PTL

\* The plaintext is on the page only after this page itself burned the letter.
THEOREM NeverShownUnburned == Spec => []ShownOnlyOnceBurned
<1>1. Inv => ShownOnlyOnceBurned
  BY DEF Inv, BurnedByPage, ShownOnlyOnceBurned
<1>2. QED BY <1>1, RevealInvariant, PTL

\* The plaintext is held exactly in the scenes about an open letter.
THEOREM TextDropped == Spec => []TextOnlyInEnvelope
<1>1. Inv => TextOnlyInEnvelope
  BY DEF Inv
<1>2. QED BY <1>1, RevealInvariant, PTL

\* A letter revealed without overlapping calls is on a mounted, visible paper.
THEOREM RevealedIsReadable == Spec => []ReadableWhenRevealed
<1>1. Inv => ReadableWhenRevealed
  BY DEF Inv, Calm, Unsealed, EnvelopeStates, Mounted, ReadableWhenRevealed
<1>2. QED BY <1>1, RevealInvariant, PTL

\* Only a letter this page burned is said to have dissolved.
THEOREM DissolvedOnlyIfRead == Spec => []VanishedMeansRead
<1>1. Inv => VanishedMeansRead
  BY DEF Inv
<1>2. QED BY <1>1, RevealInvariant, PTL

-----------------------------------------------------------------------------
(* Consent *)

\* OpenedByConsent for one step: only a touch and a completed hold begin an open.
LEMMA ConsentStep ==
  ASSUME Inv, [Next]_vars, NEW o \in Opens, opens[o] = NoOpen, opens'[o] # NoOpen
  PROVE  \/ opens'[o].key = link /\ "link" \in accepted
         \/ opens'[o].key = view.hold /\ "hold" \in accepted
<1>1. opens[o].at = "idle" /\ opens \in [Opens -> [at : OpenPlaces, key : Fragments] \cup {NoOpen}]
  BY DEF NoOpen, Inv, TypeOK
<1>2. ASSUME NEW key, StartOpen(key)
      PROVE  opens'[o].key = key
  BY <1>1, <1>2 DEF StartOpen
<1>3. CASE PressEnvelope
  BY <1>2, <1>3 DEF PressEnvelope, CanOpen, Inv, ConsentHeld
<1>4. CASE HoldCompletes
  BY <1>2, <1>4 DEF HoldCompletes, Inv, ConsentHeld
<1>5. CASE \E p \in Opens : OpenStep(p)
  <2>1. PICK p \in Opens : OpenStep(p)
    BY <1>5
  <2>2. opens[p].at # "idle"
    BY <2>1 DEF OpenStep, KeyImported, KeyRefused, SessionCreated, SessionRefused, SessionLapsed,
       LetterOpened, OpenRefused, RefusalReceived, OpenFails, Decrypted, DecryptFails, Refusals
  <2>3. \A q \in Opens : q # p => opens'[q] = opens[q]
    BY <1>1, <2>1 DEF OpenStep, KeyImported, KeyRefused, SessionCreated, SessionRefused, SessionLapsed,
       LetterOpened, OpenRefused, RefusalReceived, OpenFails, Decrypted, DecryptFails, Await, OpenEnds
  <2>4. QED BY <1>1, <2>2, <2>3
<1>6. CASE \/ Retry \/ (\E f \in Fragments : ChangeLink(f)) \/ (\E i \in Loads : LoadStep(i))
           \/ OthersAct \/ ViewStep \/ Accept \/ BeginHold \/ EndHold \/ UNCHANGED vars
  BY <1>6 DEF Retry, ChangeLink, StartLoad, LoadStep, StatusRead, LoadAnswered, LoadFails, LoadEnds,
     OthersAct, LetterMoves, ViewStep, Accept, BeginHold, EndHold, vars
<1>7. QED BY <1>3, <1>4, <1>5, <1>6 DEF Next

\* Every open rests on an acceptance given for the fragment it carries, also
\* the open of a hold that was begun under another link.
THEOREM OpensAreConsented == Spec => OpenedByConsent
<1>1. Inv /\ [Next]_vars =>
        [\A o \in Opens : opens[o] = NoOpen /\ opens'[o] # NoOpen =>
           \/ opens'[o].key = link /\ "link" \in accepted
           \/ opens'[o].key = view.hold /\ "hold" \in accepted]_vars
  BY ConsentStep
<1>2. QED BY <1>1, RevealInvariant, PTL DEF Spec, OpenedByConsent

-----------------------------------------------------------------------------
(* A revealed letter stays *)

\* The history of overlapping calls is never forgotten.
LEMMA OverlapStays ==
  ASSUME Inv, [Next]_vars, ~overlapped'
  PROVE  ~overlapped
BY DEF Next, vars, history, Retry, ChangeLink, StartLoad, LoadStep, StatusRead, LoadAnswered, LoadFails,
       LoadEnds, PressEnvelope, HoldCompletes, StartOpen, OpenStep, KeyImported, KeyRefused,
       SessionCreated, SessionRefused, SessionLapsed, LetterOpened, OpenRefused, RefusalReceived,
       OpenFails, Decrypted, DecryptFails, Await, OpenEnds, OthersAct, LetterMoves, ViewStep, Accept,
       BeginHold, EndHold, Inv, TypeOK

\* RevealedUntilClosed for one step: what could replace the scene is not in flight.
LEMMA RevealedStep ==
  Inv /\ [Next]_vars => (scene.state = "revealed" /\ link' = link /\ ~overlapped' =>
                           scene'.state \in {"revealed", "closing"})
<1> SUFFICES ASSUME Inv, [Next]_vars, scene.state = "revealed", link' = link, ~overlapped'
             PROVE  scene'.state \in {"revealed", "closing"}
  OBVIOUS
<1>1. /\ \A i \in Loads : loads[i] = "idle"
      /\ \A o \in Opens : opens[o] = NoOpen
      /\ view.visible = NoStatus /\ running["burn"] = 0
  BY OverlapStays DEF Inv, Calm, Unsealed, EnvelopeStates, Quiet, ClosesLast, NothingCloses
<1>2. scene \in Scenes /\ view \in Views /\ reduced \in BOOLEAN
      /\ running \in [{"open", "close", "burn"} -> Nat]
  BY DEF Inv, TypeOK
<1>3. CASE Retry \/ (\E f \in Fragments : ChangeLink(f))
  BY <1>1, <1>3 DEF Retry, ChangeLink, NoStatus
<1>4. CASE \E i \in Loads : LoadStep(i)
  BY <1>1, <1>4 DEF LoadStep, StatusRead, LoadAnswered, LoadFails, Statuses
<1>5. CASE \E o \in Opens : OpenStep(o)
  BY <1>1, <1>5 DEF NoOpen, Refusals, OpenStep, KeyImported, KeyRefused, SessionCreated, SessionRefused,
     SessionLapsed, LetterOpened, OpenRefused, RefusalReceived, OpenFails, Decrypted, DecryptFails
<1>6. CASE PressEnvelope \/ HoldCompletes \/ Accept \/ BeginHold \/ EndHold \/ OthersAct
  BY <1>6 DEF PressEnvelope, HoldCompletes, StartOpen, TriggerOpen, Accept, AcceptConsent, BeginHold, HoldStart,
     EndHold, HoldRelease, OthersAct, LetterMoves, sceneVars
<1>7. CASE ViewStep
  <2>1. CASE (\E t \in Timers : StatusScreenLeaves(t)) \/ PressDestroy
    BY <2>1 DEF StatusScreenLeaves, PressDestroy
  <2>2. CASE OpenAnimationEnds \/ BurnAnimationStarts \/ DestroyFires
    BY <1>2, <2>2, Handlers DEF OpenAnimationEnds, BurnAnimationStarts, DestroyFires
  <2>3. CASE BurnAnimationEnds
    BY <1>1, <2>3 DEF BurnAnimationEnds
  <2>4. CASE ToggleMotion
    BY <1>2, <2>4 DEF ToggleMotion, ReplayAnimations
  <2>5. QED BY <1>7, <2>1, <2>2, <2>3, <2>4 DEF ViewStep
<1>8. CASE UNCHANGED vars
  BY <1>8 DEF vars
<1>9. QED BY <1>3, <1>4, <1>5, <1>6, <1>7, <1>8 DEF Next

\* A letter stays on the screen until it is destroyed or the link changes,
\* unless calls overlapped.
THEOREM RevealedStays == Spec => RevealedUntilClosed
<1>1. Inv /\ [Next]_vars =>
        [scene.state = "revealed" /\ link' = link /\ ~overlapped'
           => scene'.state \in {"revealed", "closing"}]_vars
  BY RevealedStep
<1>2. QED BY <1>1, RevealInvariant, PTL DEF Spec, RevealedUntilClosed

-----------------------------------------------------------------------------
(* Screens that say a letter is gone *)

\* A missing letter, and an answer that says nothing about the letter, end in
\* the error screen, whether the body of the answer arrives or not.
LEMMA ErrorCodes ==
  /\ \A state \in RefusalScenes["not_found"] : state = "error"
  /\ \A state \in FailureScenes : state = "error"
<1>1. /\ NormalizedCode("SECRET_NOT_FOUND", 404) = "SECRET_NOT_FOUND"
      /\ NormalizedCode(NoCode, 404) = "SECRET_NOT_FOUND"
  BY DEF NormalizedCode, KeptCodes, NoCode
<1>2. /\ NormalizedCode("rate_limit_exceeded", 429) = "rate_limit_exceeded"
      /\ NormalizedCode(NoCode, 429) = "rate_limit_exceeded"
  BY DEF NormalizedCode, KeptCodes, NoCode
<1>3. /\ NormalizedCode("invalid_request", 400) = "client_error"
      /\ NormalizedCode(NoCode, 400) = "client_error"
      /\ NormalizedCode("internal_error", 500) = "server_error"
      /\ NormalizedCode(NoCode, 500) = "server_error"
      /\ NormalizedCode(NoCode, 502) = "server_error"
      /\ NormalizedCode(NoCode, 504) = "timeout_error"
  BY DEF NormalizedCode, KeptCodes, NoCode
<1>4. \A code \in {"SECRET_NOT_FOUND", "rate_limit_exceeded", "client_error", "server_error",
                    "timeout_error", "network_error"} : OpenErrorScene(code) = "error"
  BY DEF OpenErrorScene
<1> HIDE DEF NormalizedCode, OpenErrorScene
<1>5. /\ \A code \in ApiErrors(Answer("SECRET_NOT_FOUND", 404)) : OpenErrorScene(code) = "error"
      /\ \A answer \in BusyAnswers : \A code \in ApiErrors(answer) : OpenErrorScene(code) = "error"
      /\ \A code \in FetchErrors : OpenErrorScene(code) = "error"
  BY <1>1, <1>2, <1>3, <1>4 DEF ApiErrors, Answer, BusyAnswers, FetchErrors
<1>6. QED BY <1>5 DEF RefusalScenes, Refusals, RefusalAnswer, FailureScenes

\* Whatever of a scene changes, a scene that keeps its state and its text stays.
LEMMA SameScene ==
  ASSUME NEW s \in Scenes, NEW t \in Scenes, s.state = t.state, s.text = t.text
  PROVE  s = t
BY DEF Scenes

\* An answer that was understood as gone, though it may not be about that.
Misread == \E o \in Opens : opens[o].at \in {"taken", "lapsed"} /\ opens'[o] = NoOpen

\* GoneScreensTrue for one step: only an answer about the letter can say gone.
LEMMA GoneStep ==
  Inv /\ [Next]_vars => (scene' # scene /\ scene'.state \in Gone => letter \in Gone \/ Misread)
<1> SUFFICES ASSUME Inv, [Next]_vars, scene' # scene, scene'.state \in {"consumed", "expired"}
             PROVE  letter \in Gone \/ Misread
  BY DEF Gone
<1>1. /\ scene \in Scenes /\ view \in Views /\ reduced \in BOOLEAN /\ letter \in Statuses
      /\ running \in [{"open", "close", "burn"} -> Nat]
  BY DEF Inv, TypeOK
<1>2. \A state : Show(Plain(state)) => scene'.state = state
  BY DEF Show, Plain
<1>3. CASE Retry \/ (\E f \in Fragments : ChangeLink(f))
  BY <1>2, <1>3 DEF Retry, ChangeLink, StartLoad
<1>4. CASE \E i \in Loads : LoadStep(i)
  <2>1. PICK i \in Loads : LoadAnswered(i)
    BY <1>2, <1>4 DEF LoadStep, LoadFails, LoadEnds, StatusRead, sceneVars
  <2>2. scene'.state = LoadScene(loads[i]) /\ loads[i] \in Statuses
    BY <1>2, <2>1 DEF LoadAnswered, LoadEnds
  <2>3. loads[i] \in {"consumed", "expired"}
    BY <2>2 DEF LoadScene, Statuses
  <2>4. QED BY <2>3 DEF Inv, GoneIsFinal, Gone
<1>5. CASE \E o \in Opens : OpenStep(o)
  <2>1. PICK o \in Opens : OpenStep(o)
    BY <1>5
  <2>2. CASE \/ KeyImported(o) \/ SessionCreated(o) \/ SessionRefused(o) \/ SessionLapsed(o)
             \/ LetterOpened(o) \/ OpenRefused(o)
    BY <2>2 DEF KeyImported, SessionCreated, SessionRefused, SessionLapsed, LetterOpened, OpenRefused,
       Await, sceneVars
  <2>3. CASE KeyRefused(o) \/ DecryptFails(o)
    BY <1>2, <2>3 DEF KeyRefused, DecryptFails, OpenEnds
  <2>4. CASE Decrypted(o)
    <3> DEFINE s == [state |-> "opening", text |-> TRUE]
    <3>1. s \in Scenes /\ s.state = "opening"
      BY DEF Scenes, EnvelopeStates
    <3>2. PlayOpen(s, ~reduced) /\ (~reduced) \in BOOLEAN
      BY <2>4 DEF Decrypted
    <3> HIDE DEF s
    <3>3. QED BY <1>1, <3>1, <3>2, Played
  <2>5. CASE OpenFails(o)
    BY <1>2, <2>5, ErrorCodes DEF OpenFails, OpenEnds
  <2>6. CASE RefusalReceived(o)
    <3>1. opens[o].at \in Refusals /\ opens'[o] = NoOpen
      BY <2>6 DEF RefusalReceived, OpenEnds, Inv, TypeOK
    <3>2. CASE opens[o].at \in Gone
      BY <3>2 DEF Inv, GoneIsFinal
    <3>3. CASE opens[o].at \in {"taken", "lapsed"}
      BY <3>1, <3>3 DEF Misread
    <3>4. CASE opens[o].at = "not_found"
      BY <1>2, <2>6, <3>4, ErrorCodes DEF RefusalReceived, OpenEnds
    <3>5. QED BY <3>1, <3>2, <3>3, <3>4 DEF Refusals, Gone
  <2>7. QED BY <2>1, <2>2, <2>3, <2>4, <2>5, <2>6 DEF OpenStep
<1>6. CASE PressEnvelope \/ HoldCompletes \/ Accept \/ BeginHold \/ EndHold \/ OthersAct
  BY <1>6 DEF PressEnvelope, HoldCompletes, StartOpen, TriggerOpen, Accept, AcceptConsent, BeginHold, HoldStart,
     EndHold, HoldRelease, OthersAct, LetterMoves, sceneVars
<1>7. CASE ViewStep
  <2>1. CASE (\E t \in Timers : StatusScreenLeaves(t)) \/ PressDestroy
    BY <2>1 DEF StatusScreenLeaves, PressDestroy
  <2>2. CASE OpenAnimationEnds \/ BurnAnimationStarts \/ DestroyFires
    BY <1>1, <2>2, Handlers, SameScene DEF OpenAnimationEnds, BurnAnimationStarts, DestroyFires
  <2>3. CASE BurnAnimationEnds
    BY <1>2, <2>3 DEF BurnAnimationEnds
  <2>4. CASE ToggleMotion
    <3>1. ReplayAnimations
      BY <2>4 DEF ToggleMotion
    <3>2. QED BY <1>1, <3>1, Replayed, SameScene
  <2>5. QED BY <1>7, <2>1, <2>2, <2>3, <2>4 DEF ViewStep
<1>8. CASE UNCHANGED vars
  BY <1>8 DEF vars
<1>9. QED BY <1>3, <1>4, <1>5, <1>6, <1>7, <1>8 DEF Next

\* When the page begins to say that a letter is gone, it is gone for good,
\* however long the answer travelled and whether its body arrived or not, unless
\* the answer was a refusal for another call's claim or for an expired session.
THEOREM GoneIsTrue == Spec => GoneScreensTrue
<1>1. Inv /\ [Next]_vars =>
        [scene' # scene /\ scene'.state \in Gone => letter \in Gone \/ Misread]_vars
  BY GoneStep
<1>2. QED BY <1>1, RevealInvariant, PTL DEF Spec, GoneScreensTrue, Misread

-----------------------------------------------------------------------------
(* The service, as the page takes it to be *)

\* The letter at the service as the one letter of OneTimeSecret, whose readers
\* are this page and everybody else.
Promise == INSTANCE OneTimeSecret
           WITH Tokens <- {"letter"}, Requests <- {"page", "other"},
                stage <- [t \in {"letter"} |->
                            IF letter \in {"active", "opening"} THEN "sealed" ELSE "gone"],
                readers <- [t \in {"letter"} |-> {burner} \ {"nobody"}]

\* Who burned the letter left it consumed.
BurnedIsGone == burner # "nobody" => letter \in Gone

LEMMA GoneInitially == Init => BurnedIsGone
BY DEF Init, BurnedIsGone

\* Only an open and the rest of the world touch the letter.
LEMMA LetterSteps ==
  ASSUME [Next]_vars
  PROVE  \/ UNCHANGED serviceVars
         \/ letter = "active" /\ letter' = "consumed" /\ burner' = "page"
         \/ letter = "opening" /\ letter' = "consumed" /\ burner' = "other"
         \/ letter = "active" /\ letter' = "opening" /\ UNCHANGED burner
         \/ letter = "opening" /\ letter' = "active" /\ UNCHANGED burner
         \/ letter \in {"active", "opening"} /\ letter' = "expired" /\ UNCHANGED burner
         \/ letter = "consumed" /\ letter' = "expired" /\ UNCHANGED burner
<1>1. CASE \E o \in Opens : LetterOpened(o)
  BY <1>1 DEF LetterOpened
<1>2. CASE \E o \in Opens : OpenStep(o) /\ ~LetterOpened(o)
  BY <1>2 DEF OpenStep, KeyImported, KeyRefused, SessionCreated, SessionRefused, SessionLapsed,
              OpenRefused, RefusalReceived, OpenFails, Decrypted, DecryptFails, OpenEnds
<1>3. CASE OthersAct
  BY <1>3 DEF OthersAct, LetterMoves
<1>4. CASE \/ Retry \/ (\E f \in Fragments : ChangeLink(f)) \/ (\E i \in Loads : LoadStep(i))
           \/ PressEnvelope \/ HoldCompletes \/ ViewStep \/ Accept \/ BeginHold \/ EndHold
           \/ UNCHANGED vars
  BY <1>4 DEF Retry, ChangeLink, StartLoad, LoadStep, StatusRead, LoadAnswered, LoadFails, LoadEnds,
              PressEnvelope, HoldCompletes, StartOpen, ViewStep, Accept, BeginHold, EndHold,
              vars, serviceVars
<1>5. QED BY <1>1, <1>2, <1>3, <1>4 DEF Next

LEMMA GoneStays == BurnedIsGone /\ [Next]_vars => BurnedIsGone'
<1> SUFFICES ASSUME BurnedIsGone, [Next]_vars PROVE BurnedIsGone'
  OBVIOUS
<1>1. QED BY LetterSteps DEF BurnedIsGone, Gone, serviceVars

\* One step of the letter as a step of OneTimeSecret.
LEMMA PromiseStep ==
  ASSUME BurnedIsGone, [Next]_vars
  PROVE  [Promise!Next]_(Promise!vars)
<1>1. CASE UNCHANGED serviceVars
  BY <1>1 DEF serviceVars, Promise!vars
<1>2. CASE letter \in {"active", "opening"} /\ letter' = "consumed" /\ burner' \in {"page", "other"}
  <2>1. burner = "nobody"
    BY <1>2 DEF BurnedIsGone, Gone
  <2>2. Promise!Read("letter", burner')
    BY <1>2, <2>1 DEF Promise!Read
  <2>3. QED BY <1>2, <2>2 DEF Promise!Next
<1>3. CASE letter \in {"active", "opening"} /\ letter' \in {"active", "opening"} /\ UNCHANGED burner
  BY <1>3 DEF Promise!vars
<1>4. CASE letter \in {"active", "opening"} /\ letter' = "expired" /\ UNCHANGED burner
  <2>1. Promise!Destroy("letter")
    BY <1>4 DEF Promise!Destroy
  <2>2. QED BY <2>1 DEF Promise!Next
<1>5. CASE letter = "consumed" /\ letter' = "expired" /\ UNCHANGED burner
  BY <1>5 DEF Promise!vars
<1>6. QED BY <1>1, <1>2, <1>3, <1>4, <1>5, LetterSteps

\* What the page's letters do at the service, other readers included, is what
\* the letter store was proved to implement: the page rests on nothing more.
THEOREM ServiceKeepsPromise == Spec => [][Promise!Next]_(Promise!vars)
<1>1. Spec => []BurnedIsGone
  BY GoneInitially, GoneStays, PTL DEF Spec
<1>2. BurnedIsGone /\ [Next]_vars => [Promise!Next]_(Promise!vars)
  BY PromiseStep
<1>3. QED BY <1>1, <1>2, PTL DEF Spec
=============================================================================
