---------------------------- MODULE ComposeForm ----------------------------
(***************************************************************************)
(* The writer's page: CreateSecretForm.tsx over LetterCodec, with the      *)
(* letter service as a growing sequence of letters.  A submit is one chain *)
(* of asynchronous calls; a link that is shown replaces the draft, and its *)
(* panel copies it, splits it for two channels and draws it as a QR code.  *)
(***************************************************************************)
EXTENDS LetterCodec

CONSTANTS Inputs,       \* what the text area may hold after a change
          MaxBytes,     \* MAX_PLAINTEXT_SIZE
          Ttls,         \* TTL_OPTIONS
          Keys,         \* keys, as byte strings
          Base,         \* the origin of links
          MaxLetters,   \* bound on letters the service stores
          MaxTimers     \* bound on feedback timers of one kind in progress

ASSUME FormAssumption ==
  /\ KeyLength \in Nat \ {0} /\ MaxBytes \in Nat
  /\ Inputs \subseteq Seq(Nat) /\ Keys \subseteq [1..KeyLength -> 0..255]
  /\ Base \in Seq(0..63) /\ MaxLetters \in 0..63 /\ MaxTimers \in Nat \ {0}

VARIABLES form,     \* [text, bytes, ttl, loading, error, exiting]
          call,     \* handleSubmit: the await it is in, and what it has so far
          letters,  \* letters[token]: the letters the service stored
          link,     \* secretLink; NoLink while the form is shown
          leaving,  \* isResultExiting, with its timer
          panel,    \* [copy, feedback, menu, qr, canvas, drawing]
          writing,  \* the clipboard write in progress
          timers    \* timers[k]: timers in progress that clear k

vars == <<form, call, letters, link, leaving, panel, writing, timers>>
panelVars == <<panel, writing, timers>>

NoLink == <<>>
NoLetter == 0
NoCall == [at |-> "idle", text |-> <<>>, ttl |-> 0, key |-> <<>>, letter |-> NoLetter]
NoWrite == [value |-> NoLink, whole |-> FALSE, told |-> FALSE]

Fits(k) == timers[k] < MaxTimers

Idle == ~form.loading /\ ~form.exiting
Composing == link = NoLink /\ Idle

\* exportKeyToBase64Url, of every key, and the link it ends.
Exported == [key \in Keys |-> Encoded(key)]
LinkOf(token, key) == LinkTo(Base, token, Exported[key])

\* A panel that is closed stays on the screen until its exit is over.
Presence == [open : BOOLEAN, shown : BOOLEAN]
Closed == [open |-> FALSE, shown |-> FALSE]
Opened == [open |-> TRUE, shown |-> TRUE]

-----------------------------------------------------------------------------
(* The form *)

\* Mutant: the text can be edited while it is being sealed.
TypeAnytime(text) ==
  /\ link = NoLink
  /\ LET kept == Clamped(text, MaxBytes)
     IN  form' = [form EXCEPT !.text = kept.text, !.bytes = kept.bytes]
  /\ UNCHANGED <<call, letters, link, leaving, panelVars>>

Type(text) ==
  /\ Composing
  /\ LET kept == Clamped(text, MaxBytes)
     IN  form' = [form EXCEPT !.text = kept.text, !.bytes = kept.bytes]
  /\ UNCHANGED <<call, letters, link, leaving, panelVars>>

ChooseTtl(ttl) ==
  /\ Composing
  /\ form' = [form EXCEPT !.ttl = ttl]
  /\ UNCHANGED <<call, letters, link, leaving, panelVars>>

CanSubmit == Composing /\ ~Blank(form.text)

\* The call works with the text and the lifetime of this moment.
Submit ==
  /\ CanSubmit
  /\ panel' = [panel EXCEPT !.copy = "none"]
  /\ IF form.bytes > MaxBytes
     THEN form' = [form EXCEPT !.error = TRUE] /\ UNCHANGED call
     ELSE /\ form' = [form EXCEPT !.error = FALSE, !.loading = TRUE]
          /\ call' = [NoCall EXCEPT !.at = "seal", !.text = form.text, !.ttl = form.ttl]
  /\ UNCHANGED <<letters, link, leaving, writing, timers>>

\* A fresh key is generated and the text encrypted with it.
Sealed ==
  /\ call.at = "seal"
  /\ \E key \in Keys : /\ \A t \in DOMAIN letters : letters[t].key # key
                       /\ call' = [call EXCEPT !.at = "send", !.key = key]
  /\ UNCHANGED <<form, letters, link, leaving, panelVars>>

\* The service stores the letter under a new token.
Stored ==
  /\ call.at = "send" /\ Len(letters) < MaxLetters
  /\ letters' = Append(letters, [text |-> call.text, ttl |-> call.ttl, key |-> call.key])
  /\ call' = [call EXCEPT !.at = "sent", !.letter = Len(letters) + 1]
  /\ UNCHANGED <<form, link, leaving, panelVars>>

\* The answer arrives, the key is exported, and the form begins to leave.
Answered ==
  /\ call.at = "sent"
  /\ call' = [call EXCEPT !.at = "show"]
  /\ form' = [form EXCEPT !.loading = FALSE, !.exiting = TRUE]
  /\ UNCHANGED <<letters, link, leaving, panelVars>>

\* Mutant: the error of a lost answer is swallowed.
CallFailsQuietly ==
  /\ call.at \in {"seal", "send", "sent"}
  /\ call' = NoCall
  /\ form' = [form EXCEPT !.loading = FALSE, !.error = call.at # "sent"]
  /\ UNCHANGED <<letters, link, leaving, panelVars>>

\* Encryption fails, or the service refuses, or cannot be reached, or its
\* answer is lost after it stored the letter ("sent").
CallFails ==
  /\ call.at \in {"seal", "send", "sent"}
  /\ call' = NoCall
  /\ form' = [form EXCEPT !.loading = FALSE, !.error = TRUE]
  /\ UNCHANGED <<letters, link, leaving, panelVars>>

-----------------------------------------------------------------------------
(* The QR code *)

\* Mutant: an import that is under way is not cancelled.
RedrawnUncancelled(p, l) ==
  LET mounted == l # NoLink /\ p.qr.shown
  IN  [p EXCEPT !.canvas = IF mounted THEN @ ELSE NoLink,
                !.drawing = IF @ # NoLink THEN @ ELSE IF mounted /\ p.qr.open THEN l ELSE NoLink]

\* Mutant: the code leaves out the key.
RedrawnAddress(p, l) ==
  LET mounted == l # NoLink /\ p.qr.shown
  IN  [p EXCEPT !.canvas = IF mounted THEN @ ELSE NoLink,
                !.drawing = IF mounted /\ p.qr.open THEN SplitLink(l).publicUrl ELSE NoLink]

\* The panel p under the link l, after the effect that draws the code: it runs
\* again when the link or the presence of the code changes, and cancels the
\* import of the QR module that is under way.
Redrawn(p, l) ==
  LET mounted == l # NoLink /\ p.qr.shown
  IN  [p EXCEPT !.canvas = IF mounted THEN @ ELSE NoLink,
                !.drawing = IF mounted /\ p.qr.open THEN l ELSE NoLink]

QrModuleLoads ==
  /\ panel.drawing # NoLink
  /\ \E drawn \in {panel.drawing, panel.canvas} :   \* drawn, or failed to load
       panel' = [panel EXCEPT !.canvas = drawn, !.drawing = NoLink]
  /\ UNCHANGED <<form, call, letters, link, leaving, writing, timers>>

OpenQr ==
  /\ link # NoLink /\ ~panel.qr.open
  /\ panel' = Redrawn([panel EXCEPT !.qr = Opened], link)
  /\ UNCHANGED <<form, call, letters, link, leaving, writing, timers>>

CloseQr ==
  /\ link # NoLink /\ panel.qr.open
  /\ panel' = Redrawn([panel EXCEPT !.qr.open = FALSE], link)
  /\ UNCHANGED <<form, call, letters, link, leaving, writing, timers>>

QrExits ==
  /\ panel.qr.shown /\ ~panel.qr.open
  /\ panel' = Redrawn([panel EXCEPT !.qr = Closed], link)
  /\ UNCHANGED <<form, call, letters, link, leaving, writing, timers>>

-----------------------------------------------------------------------------
(* The link replaces the draft, and a new draft the link *)

LinkShown ==
  /\ call.at = "show"
  /\ call' = NoCall
  /\ form' = [form EXCEPT !.text = <<>>, !.bytes = 0, !.exiting = FALSE]
  /\ link' = LinkOf(call.letter, call.key)
  /\ panel' = Redrawn(panel, link')
  /\ UNCHANGED <<letters, leaving, writing, timers>>

ResetToCompose ==
  /\ link # NoLink /\ ~leaving
  /\ leaving' = TRUE
  /\ UNCHANGED <<form, call, letters, link, panelVars>>

\* Mutant: nothing brings the form back.
ResultStays ==
  /\ leaving /\ leaving' = FALSE
  /\ UNCHANGED <<form, call, letters, link, panelVars>>

ResultLeaves ==
  /\ leaving /\ leaving' = FALSE
  /\ link' = NoLink
  /\ form' = [form EXCEPT !.text = <<>>, !.bytes = 0]
  /\ panel' = Redrawn([panel EXCEPT !.copy = "none", !.feedback = FALSE,
                                    !.qr.open = FALSE, !.menu.open = FALSE], NoLink)
  /\ UNCHANGED <<call, letters, writing, timers>>

-----------------------------------------------------------------------------
(* Copying and sharing *)

\* setTransientShareFeedback; its timer is never cancelled.
Told(p) == [p EXCEPT !.feedback = TRUE]

Write(value, whole, told) ==
  /\ link # NoLink /\ writing = NoWrite
  /\ writing' = [value |-> value, whole |-> whole, told |-> told]
  /\ UNCHANGED <<form, call, letters, link, leaving, panel, timers>>

CopyLink == Write(link, TRUE, FALSE)
CopyShared == panel.menu.shown /\ Write(link, TRUE, TRUE)

\* The address for one channel or the key for another; an empty part would
\* only be reported.
CopySharePart ==
  /\ panel.menu.shown /\ link # NoLink
  /\ \E part \in {"publicUrl", "fragmentKey"} :
       LET value == SplitLink(link)[part]
       IN  IF value # NoLink THEN Write(value, FALSE, TRUE)
           ELSE /\ Fits("feedback")
                /\ panel' = Told(panel)
                /\ timers' = [timers EXCEPT !["feedback"] = @ + 1]
                /\ UNCHANGED <<form, call, letters, link, leaving, writing>>

\* The write succeeds or is refused, perhaps when another view is shown.
WriteEnds ==
  /\ writing # NoWrite
  /\ Fits("copy") /\ Fits("feedback")
  /\ \E status \in {"copied", "error"} :
       LET marked == IF writing.whole THEN [panel EXCEPT !.copy = status] ELSE panel
       IN  panel' = IF writing.told THEN Told(marked) ELSE marked
  /\ timers' = [timers EXCEPT !["copy"] = @ + (IF writing.whole THEN 1 ELSE 0),
                              !["feedback"] = @ + (IF writing.told THEN 1 ELSE 0)]
  /\ writing' = NoWrite
  /\ UNCHANGED <<form, call, letters, link, leaving>>

CopyTimerFires ==
  /\ timers["copy"] > 0
  /\ timers' = [timers EXCEPT !["copy"] = @ - 1]
  /\ panel' = [panel EXCEPT !.copy = "none"]
  /\ UNCHANGED <<form, call, letters, link, leaving, writing>>

FeedbackTimerFires ==
  /\ timers["feedback"] > 0
  /\ timers' = [timers EXCEPT !["feedback"] = @ - 1]
  /\ panel' = [panel EXCEPT !.feedback = FALSE]
  /\ UNCHANGED <<form, call, letters, link, leaving, writing>>

OpenShareMenu ==
  /\ link # NoLink /\ ~panel.menu.open
  /\ panel' = [panel EXCEPT !.menu = Opened, !.feedback = FALSE]
  /\ UNCHANGED <<form, call, letters, link, leaving, writing, timers>>

CloseShareMenu ==
  /\ link # NoLink /\ panel.menu.open
  /\ panel' = [panel EXCEPT !.menu.open = FALSE, !.feedback = FALSE]
  /\ UNCHANGED <<form, call, letters, link, leaving, writing, timers>>

MenuExits ==
  /\ panel.menu.shown /\ ~panel.menu.open
  /\ panel' = [panel EXCEPT !.menu = Closed]
  /\ UNCHANGED <<form, call, letters, link, leaving, writing, timers>>

-----------------------------------------------------------------------------
Init ==
  /\ \E ttl \in Ttls :
       form = [text |-> <<>>, bytes |-> 0, ttl |-> ttl,
               loading |-> FALSE, error |-> FALSE, exiting |-> FALSE]
  /\ call = NoCall /\ letters = <<>> /\ link = NoLink /\ leaving = FALSE
  /\ panel = [copy |-> "none", feedback |-> FALSE, menu |-> Closed, qr |-> Closed,
              canvas |-> NoLink, drawing |-> NoLink]
  /\ writing = NoWrite
  /\ timers = [k \in {"copy", "feedback"} |-> 0]

CallStep == Sealed \/ Stored \/ Answered \/ CallFails \/ LinkShown

PanelStep ==
  \/ CopyLink \/ CopyShared \/ CopySharePart \/ WriteEnds
  \/ CopyTimerFires \/ FeedbackTimerFires
  \/ OpenShareMenu \/ CloseShareMenu \/ MenuExits
  \/ OpenQr \/ CloseQr \/ QrExits \/ QrModuleLoads

Next ==
  \/ \E text \in Inputs : Type(text)
  \/ \E ttl \in Ttls : ChooseTtl(ttl)
  \/ Submit
  \/ CallStep
  \/ ResetToCompose \/ ResultLeaves
  \/ PanelStep

Spec == Init /\ [][Next]_vars

\* A submit goes on or fails (safeFetch gives up after ten seconds), and timers
\* fire.  Clipboard writes and the QR module may never come.
FairSpec ==
  /\ Spec
  /\ WF_vars(CallStep) /\ WF_vars(ResultLeaves)
  /\ WF_vars(CopyTimerFires) /\ WF_vars(FeedbackTimerFires)
  /\ WF_vars(MenuExits) /\ WF_vars(QrExits)

-----------------------------------------------------------------------------
(* Properties *)

Parts == SplitLink(link)
LinkedLetter(l) == letters[SplitLink(l).publicUrl[Len(Base) + 1]]
LongestPrefix(text, max) ==
  LET n == CHOOSE k \in 0..Len(text) :
             /\ ByteLength(SubSeq(text, 1, k)) <= max
             /\ k < Len(text) => ByteLength(SubSeq(text, 1, k + 1)) > max
  IN  SubSeq(text, 1, n)
Links == {LinkOf(t, key) : t \in 1..MaxLetters, key \in Keys} \cup {NoLink}

TypeOK ==
  /\ form.text \in Seq(Nat) /\ form.bytes \in Nat /\ form.ttl \in Ttls
  /\ {form.loading, form.error, form.exiting, leaving} \subseteq BOOLEAN
  /\ call.at \in {"idle", "seal", "send", "sent", "show"}
  /\ call.letter \in 0..Len(letters) /\ call.key \in Keys \cup {<<>>}
  /\ \A t \in DOMAIN letters : letters[t].key \in Keys /\ letters[t].ttl \in Ttls
  /\ link \in Links /\ panel.canvas \in Links /\ panel.drawing \in Links
  /\ panel.copy \in {"none", "copied", "error"} /\ panel.feedback \in BOOLEAN
  /\ panel.menu \in Presence /\ panel.qr \in Presence
  /\ \A k \in DOMAIN timers : timers[k] \in 0..MaxTimers

\* The byte counter is exact and within the limit, and the draft is the longest
\* beginning of what was typed that fits: no character is cut in two and none
\* that fits is dropped.
ClampKeepsLongestPrefix ==
  /\ form.bytes = ByteLength(form.text) /\ form.bytes <= MaxBytes
  /\ \A text \in Inputs : Clamped(text, MaxBytes).text = LongestPrefix(text, MaxBytes)

\* The parts that are sent through two channels: the address does not hold the
\* key, the fragment is one that the reveal page accepts, and it is the key of
\* the letter that the address names.
PartsOpenLetter ==
  link # NoLink =>
    /\ \A i \in DOMAIN Parts.publicUrl : Parts.publicUrl[i] # Hash
    /\ IsKey(Parts.fragmentKey)
    /\ Decoded(Parts.fragmentKey) = LinkedLetter(link).key

\* A QR code that is on the screen is the code of the link that is shown.
QrIsThisLink == panel.canvas # NoLink => panel.canvas = link

\* A draft that was submitted disappears only when the link of a letter that
\* holds exactly this text, for the lifetime on the screen, takes its place.
LinkReplacesDraft ==
  [][form'.text # form.text /\ ~Idle
       => /\ link = NoLink /\ link' # NoLink
          /\ LinkedLetter(link').text = form.text /\ LinkedLetter(link').ttl = form.ttl]_vars

\* A letter that the service stored ends up in a link, or its writer sees an
\* error: the answer of a create can be lost, but not silently.
NoSilentOrphan ==
  [][call.letter # NoLetter /\ call'.letter # call.letter
       => form'.error \/ link' = LinkOf(call.letter, letters[call.letter].key)]_vars

\* A submit ends in a link or an error, and a result that leaves makes room for
\* a new draft.
PageSettles ==
  /\ form.loading ~> link # NoLink \/ form.error
  /\ leaving ~> Composing
=============================================================================
