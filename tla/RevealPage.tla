----------------------------- MODULE RevealPage -----------------------------
(***************************************************************************)
(* The recipient's page: RevealPage.tsx over EnvelopeScene and SecretApi,  *)
(* with the letter service as far as the page can tell.  Status checks and *)
(* opens are asynchronous calls: they are never cancelled, they do not     *)
(* know of each other, and each sets the scene when it ends.               *)
(*                                                                         *)
(* One document is one behaviour: a reload starts again in Init, with the  *)
(* letter as the service has it.                                           *)
(***************************************************************************)
EXTENDS EnvelopeScene, SecretApi, FiniteSets

CONSTANTS Keys,          \* the fragments that are well-formed keys
          RightKey,      \* the key the letter was sealed with
          NoFragment,    \* the link's fragment is missing
          Loads,         \* status checks that can be in flight at a time
          Opens          \* opens that can be in flight at a time

ASSUME PageAssumption ==
  /\ Keys \subseteq Fragments /\ RightKey \in Keys
  /\ NoFragment \notin Keys
  /\ Loads # {} /\ Opens # {}

VARIABLES link,       \* the fragment in the address bar
          loads,      \* loads[i]: "idle", "asked", or the status the service answered
          opens,      \* opens[o]: [at, key]: the await a call of handleOpen is in, or
            \* the refusal that is on its way to it, and its key
          letter,     \* the letter's status at the service
          burner,     \* history: who burned the letter: "page", "other" or "nobody"
          accepted,   \* history: what an acceptance of the warning was given for and may
            \* still open: "link", the letter of the address bar, or "hold", that of
            \* the hold in progress
          hollow,     \* history: the last touch that opened carried no fragment
          overlapped  \* history: a call began while another was in flight, or an
            \* open while no envelope was on the screen

vars == <<link, loads, opens, letter, burner, accepted, hollow, overlapped,
          scene, view, timer, running, reduced>>
serviceVars == <<letter, burner>>
history == <<accepted, hollow, overlapped>>

BadFragments == Fragments \ Keys   \* missing, or not a key
Statuses == {"active", "opening", "consumed", "expired", "not_found"}
Gone == {"consumed", "expired"}
NoOpen == [at |-> "idle", key |-> NoKey]

Quiet == (\A i \in Loads : loads[i] = "idle") /\ (\A o \in Opens : opens[o] = NoOpen)

-----------------------------------------------------------------------------
(* Status checks: loadStatus *)

\* Mutant: the service's word is taken for a scene.
LoadSceneAsTold(status) == IF status = "active" THEN "sealed" ELSE status

LoadScene(status) ==
  CASE status \in {"active", "pending"} -> "sealed"
    [] status \in {"consumed", "expired"} -> status
    [] OTHER -> "error"

\* The part of loadStatus before its await, for the fragment f.
StartLoad(f) ==
  /\ IF f \in BadFragments
     THEN Show(Plain("error")) /\ UNCHANGED loads
     ELSE /\ \E i \in Loads : loads[i] = "idle" /\ loads' = [loads EXCEPT ![i] = "asked"]
          /\ Show(Plain("loading"))
  /\ overlapped' = (overlapped \/ ~Quiet)
  /\ UNCHANGED <<opens, serviceVars, hollow, running, reduced>>

\* The button of the error screen; the keyboard reaches it also while that
\* screen leaves.
Retry == view.visible = "error" /\ StartLoad(link) /\ UNCHANGED <<link, accepted>>

\* The reader edits the fragment or goes back in the history of the document.
ChangeLink(f) == f # link /\ link' = f /\ accepted' = accepted \ {"link"} /\ StartLoad(f)

StatusRead(i) ==
  /\ loads[i] = "asked"
  /\ loads' = [loads EXCEPT ![i] = letter]
  /\ UNCHANGED <<link, opens, serviceVars, history, sceneVars>>

LoadEnds(i, state) ==
  /\ loads' = [loads EXCEPT ![i] = "idle"]
  /\ Show(Plain(state))
  /\ UNCHANGED <<link, opens, serviceVars, history, running, reduced>>

LoadAnswered(i) == loads[i] \in Statuses /\ LoadEnds(i, LoadScene(loads[i]))

\* Refused, timed out, no connection, or an answer that cannot be read.
LoadFails(i) == loads[i] # "idle" /\ LoadEnds(i, "error")

-----------------------------------------------------------------------------
(* Opens: handleOpen *)

\* The part of handleOpen before its first await, called by triggerOpen.  It
\* returns at once when the fragment is missing.
StartOpen(key) ==
  /\ IF key = NoFragment
     THEN UNCHANGED <<opens, overlapped>>
     ELSE /\ \E o \in Opens :
               opens[o] = NoOpen /\ opens' = [opens EXCEPT ![o] = [at |-> "import", key |-> key]]
          /\ overlapped' = (overlapped \/ ~Quiet \/ ~Mounted)
  /\ TriggerOpen
  /\ accepted' = {} /\ hollow' = (key = NoFragment)
  /\ UNCHANGED <<link, loads, serviceVars>>

\* Enter or Space, and with reduced motion the pointer, open at once.
PressEnvelope == CanOpen /\ StartOpen(link)

\* A hold opens with what its closure saw when the hold began.
HoldCompletes == view.hold # NoKey /\ ~view.triggered /\ StartOpen(view.hold)

Await(o, at) ==
  /\ opens' = [opens EXCEPT ![o].at = at]
  /\ UNCHANGED <<link, loads, history, sceneVars>>

OpenEnds(o, state) ==
  /\ opens' = [opens EXCEPT ![o] = NoOpen]
  /\ Show(Plain(state))
  /\ UNCHANGED <<link, loads, serviceVars, history, running, reduced>>

KeyImported(o) ==
  /\ opens[o].at = "import" /\ opens[o].key \in Keys
  /\ Await(o, "session") /\ UNCHANGED serviceVars

\* A status check of an older fragment may seal the scene under a bad one.
KeyRefused(o) ==
  opens[o].at = "import" /\ opens[o].key \in BadFragments /\ OpenEnds(o, "error")

\* Mutant: the session's answer is taken for the letter.
SessionIsEnough(o) ==
  /\ opens[o].at = "session" /\ letter = "active"
  /\ Await(o, "payload") /\ UNCHANGED serviceVars

\* The service makes a session; its answer, which the page only passes on with
\* the open, travels during the next await.
SessionCreated(o) ==
  /\ opens[o].at = "session" /\ letter = "active"
  /\ Await(o, "open") /\ UNCHANGED serviceVars

\* Answers that are on their way once the service has decided, and what they
\* say.  A letter that another call is opening is refused as consumed, and a
\* session that has expired as an expired letter.
Refusals == {"consumed", "expired", "not_found", "taken", "lapsed"}

RefusalAnswer(why) ==
  CASE why \in {"consumed", "taken"} -> Answer("SECRET_CONSUMED", 410)
    [] why \in {"expired", "lapsed"} -> Answer("SECRET_EXPIRED", 410)
    [] why = "not_found" -> Answer("SECRET_NOT_FOUND", 404)

\* A letter that is being opened has no sessions: that is an internal error.
SessionRefused(o) ==
  /\ opens[o].at = "session" /\ letter \in Gone \cup {"not_found"}
  /\ Await(o, letter) /\ UNCHANGED serviceVars

\* The session is looked at before the letter: it has expired, or is unknown.
SessionLapsed(o) ==
  /\ opens[o].at = "open"
  /\ \E why \in {"lapsed", "not_found"} : Await(o, why)
  /\ UNCHANGED serviceVars

LetterOpened(o) ==
  /\ opens[o].at = "open" /\ letter = "active"
  /\ Await(o, "payload")
  /\ letter' = "consumed" /\ burner' = "page"

OpenRefused(o) ==
  /\ opens[o].at = "open" /\ letter # "active"
  /\ Await(o, IF letter = "opening" THEN "taken" ELSE letter) /\ UNCHANGED serviceVars

\* A refusal arrives; meanwhile the letter may have moved on.
RefusalScenes == [why \in Refusals |-> {OpenErrorScene(code) : code \in ApiErrors(RefusalAnswer(why))}]

RefusalReceived(o) ==
  /\ opens[o].at \in Refusals
  /\ \E state \in RefusalScenes[opens[o].at] : OpenEnds(o, state)

\* A call fails without a word about the letter, or its answer is lost; at
\* "payload" the letter is burned already and its content is lost.
FailureScenes == {OpenErrorScene(code) : code \in FetchErrors \cup UNION {ApiErrors(a) : a \in BusyAnswers}}

OpenFails(o) ==
  /\ opens[o].at \in {"session", "open", "payload"} \cup Refusals
  /\ \E state \in FailureScenes : OpenEnds(o, state)

\* The letter is decrypted: it is put on whatever scene the page has by now.
Decrypted(o) ==
  /\ opens[o].at = "payload" /\ opens[o].key = RightKey
  /\ opens' = [opens EXCEPT ![o] = NoOpen]
  /\ PlayOpen([state |-> "opening", text |-> TRUE], ~reduced)
  /\ StatusEffect
  /\ UNCHANGED <<link, loads, serviceVars, history, reduced>>

DecryptFails(o) ==
  opens[o].at = "payload" /\ opens[o].key # RightKey /\ OpenEnds(o, "error")

-----------------------------------------------------------------------------
(* The rest of the world *)

\* Other readers claim the letter, give it back or burn it; it expires, and a
\* status check may write that over a letter that was burned meanwhile.  The
\* service remembers a letter that is gone for longer than a document is open.
LetterMoves(from, to) ==
  /\ letter = from /\ letter' = to
  /\ burner' = IF to = "consumed" THEN "other" ELSE burner
  /\ UNCHANGED <<link, loads, opens, history, sceneVars>>

OthersAct ==
  \/ LetterMoves("active", "opening") \/ LetterMoves("opening", "active")
  \/ LetterMoves("opening", "consumed")
  \/ LetterMoves("active", "expired") \/ LetterMoves("opening", "expired")
  \/ LetterMoves("consumed", "expired")

\* A hold takes the acceptance it was begun with along.
BeginHold ==
  /\ HoldStart(link)
  /\ accepted' = accepted \cup (IF "link" \in accepted THEN {"hold"} ELSE {})
  /\ UNCHANGED <<link, loads, opens, serviceVars, hollow, overlapped>>

EndHold ==
  /\ HoldRelease
  /\ accepted' = accepted \ {"hold"}
  /\ UNCHANGED <<link, loads, opens, serviceVars, hollow, overlapped>>

ViewStep ==
  /\ \/ \E t \in Timers : StatusScreenLeaves(t)
     \/ OpenAnimationEnds \/ BurnAnimationStarts \/ BurnAnimationEnds
     \/ ToggleMotion \/ PressDestroy \/ DestroyFires
  /\ UNCHANGED <<link, loads, opens, serviceVars, history>>

Accept ==
  /\ AcceptConsent
  /\ accepted' = accepted \cup {"link"}
  /\ UNCHANGED <<link, loads, opens, serviceVars, hollow, overlapped>>

\* The first render shows "loading"; the first effect checks the link.
Init ==
  /\ link \in Fragments /\ letter \in Statuses /\ burner = "nobody"
  /\ reduced \in BOOLEAN
  /\ running = [k \in {"open", "close", "burn"} |-> 0]
  /\ opens = [o \in Opens |-> NoOpen]
  /\ accepted = {} /\ hollow = FALSE /\ overlapped = FALSE
  /\ LET state == IF link \in BadFragments THEN "error" ELSE "loading"
     IN  /\ scene = Plain(state)
         /\ view = InitialView("loading")
         /\ IF state = "error" THEN timer \in Timers ELSE timer = NoTimer
         /\ \E first \in Loads :
              loads = [i \in Loads |-> IF i = first /\ state = "loading" THEN "asked" ELSE "idle"]

LoadStep(i) == StatusRead(i) \/ LoadAnswered(i) \/ LoadFails(i)

OpenStep(o) ==
  \/ KeyImported(o) \/ KeyRefused(o)
  \/ SessionCreated(o) \/ SessionRefused(o) \/ SessionLapsed(o)
  \/ LetterOpened(o) \/ OpenRefused(o) \/ RefusalReceived(o) \/ OpenFails(o)
  \/ Decrypted(o) \/ DecryptFails(o)

Next ==
  \/ Retry
  \/ \E f \in Fragments : ChangeLink(f)
  \/ \E i \in Loads : LoadStep(i)
  \/ PressEnvelope \/ HoldCompletes
  \/ \E o \in Opens : OpenStep(o)
  \/ OthersAct
  \/ ViewStep
  \/ Accept \/ BeginHold \/ EndHold

Spec == Init /\ [][Next]_vars

\* Calls end (an answer, an error, or the ten seconds of safeFetch); timers
\* fire and animations end.  A timer that is set anew is another timer: one that
\* is restarted for ever need not fire.  Nothing is assumed of the reader, of
\* the motion preference or of others.
Timer(step) == step /\ UNCHANGED <<link, loads, opens, serviceVars, history>>

FairSpec ==
  /\ Spec
  /\ \A i \in Loads : WF_vars(LoadStep(i))
  /\ \A o \in Opens : WF_vars(OpenStep(o))
  /\ \A t \in Timers : WF_vars(Timer(StatusScreenLeaves(t)))
  /\ WF_vars(Timer(DestroyFires))
  /\ WF_vars(Timer(OpenAnimationEnds))
  /\ WF_vars(Timer(BurnAnimationStarts)) /\ WF_vars(Timer(BurnAnimationEnds))

-----------------------------------------------------------------------------
(* Properties *)

OpenPlaces == {"import", "session", "open", "payload"} \cup Refusals

TypeOK ==
  /\ link \in Fragments /\ letter \in Statuses
  /\ burner \in {"page", "other", "nobody"}
  /\ loads \in [Loads -> {"idle", "asked"} \cup Statuses]
  /\ opens \in [Opens -> [at : OpenPlaces, key : Fragments] \cup {NoOpen}]
  /\ accepted \in SUBSET {"link", "hold"} /\ hollow \in BOOLEAN /\ overlapped \in BOOLEAN
  /\ scene \in Scenes /\ view \in Views /\ reduced \in BOOLEAN
  /\ timer \in Timers \cup {NoTimer}
  /\ running \in [{"open", "close", "burn"} -> Nat]

\* The plaintext is on the page only after this page itself burned the letter:
\* no path shows a letter that somebody else can still open or has opened.
ShownOnlyOnceBurned == scene.text => letter \in Gone /\ burner = "page"

\* The plaintext is in the scene exactly while the scene is about an open
\* letter: each of the updates that keep "...current" (RevealPage.tsx:146-181)
\* carries it along, and whatever ends the reading drops it.
TextOnlyInEnvelope == scene.text <=> scene.state \in EnvelopeStates \ {"sealed"}

\* Every open rests on an acceptance of the warning that was given for the very
\* fragment it carries, and uses it up: an acceptance does not outlive its link
\* (SecretEnvelopeScene.tsx:182-188), and a hold that outlives it opens only
\* what it was begun on (:100-109).
OpenedByConsent ==
  [][\A o \in Opens : opens[o] = NoOpen /\ opens'[o] # NoOpen =>
       \/ opens'[o].key = link /\ "link" \in accepted
       \/ opens'[o].key = view.hold /\ "hold" \in accepted]_vars

\* Unless calls overlapped, a revealed letter can be read: its paper, transparent
\* until an animation of a mounted envelope, was made visible.  RevealedIsVisible
\* is what the requirements say of every revealed letter.
ReadableWhenRevealed == ~overlapped /\ scene.state = "revealed" => Mounted /\ view.lit

\* "The letter has dissolved" is only said of a letter this page burned.
VanishedMeansRead == scene.state = "vanished" => burner = "page"

\* A letter stays on the screen until its reader destroys it or leaves, unless
\* calls overlapped (KeptUntilClosed says what happens then).
RevealedUntilClosed ==
  [][scene.state = "revealed" /\ link' = link /\ ~overlapped' => scene'.state \in {"revealed", "closing"}]_vars

\* When the page begins to say that a letter was opened or has expired, the
\* letter is gone for good, also when the page deduced it from a status code
\* alone because the body of the answer was lost, and however long the answer
\* travelled.  Two answers are no such word: the letter was refused because
\* another call had claimed it (which may give it back), or the session of this
\* very call had expired.
GoneScreensTrue ==
  [][scene' # scene /\ scene'.state \in Gone =>
       \/ letter \in Gone
       \/ \E o \in Opens : opens[o].at \in {"taken", "lapsed"} /\ opens'[o] = NoOpen]_vars

\* The scenes that promise to pass do pass.
NothingStalls ==
  \A state \in {"loading", "opening", "closing", "burning"} :
    scene.state = state ~> scene.state # state

\* A sealed envelope that was opened does not stay there without an answer: the
\* guard against a second touch (SecretEnvelopeScene.tsx:66) is never left
\* standing in front of a letter that could be opened.  A touch that carried no
\* fragment opens nothing.
TouchAnswered ==
  (scene.state = "sealed" /\ view.triggered /\ ~hollow) ~> scene.state # "sealed"

\* Once the destroy button is pressed the plaintext leaves the page.
DestroyEnds == view.armed ~> ~scene.text

\* Once the reader neither retries nor changes the link, and the motion
\* preference stays, the screen shows the scene for good: every timer that was
\* cleared for a newer scene (SecretEnvelopeScene.tsx:142-180) was set again.
ScreenFollows ==
  <>[][link' = link /\ reduced' = reduced /\ ~Retry]_vars
    => <>[](view.visible = StatusOf(scene.state))

\* FR-010 of the requirements: a letter is not closed while it is being read.
KeptUntilClosed ==
  [][scene.state = "revealed" /\ link' = link => scene'.state \in {"revealed", "closing"}]_vars

\* "Once the letter is open, its content must be shown clearly" (requirements,
\* the section on reading): the paper of a revealed letter is visible.
RevealedIsVisible == Mounted /\ scene.state = "revealed" => view.lit
=============================================================================
