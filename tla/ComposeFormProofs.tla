------------------------- MODULE ComposeFormProofs -------------------------
(***************************************************************************)
(* The writer's page keeps draft, letter, link and QR code together, for   *)
(* any texts, keys and lifetimes.                                          *)
(***************************************************************************)
EXTENDS ComposeForm, LetterCodecProofs

-----------------------------------------------------------------------------
(* The inductive invariant *)

Drafts == {Clamped(text, MaxBytes).text : text \in Inputs} \cup {<<>>}
Sizes == {Clamped(text, MaxBytes).bytes : text \in Inputs} \cup {0}
Lifetimes == Ttls \cup {0}
Secrets == Keys \cup {<<>>}
Letter == [text : Drafts, ttl : Ttls, key : Keys]

Forms == [text : Drafts, bytes : Sizes, ttl : Ttls,
          loading : BOOLEAN, error : BOOLEAN, exiting : BOOLEAN]
Calls == [at : {"idle", "seal", "send", "sent", "show"}, text : Drafts, ttl : Lifetimes,
          key : Secrets, letter : Nat]
LinksTo == {LinkOf(t, key) : t \in Nat, key \in Secrets} \cup {NoLink}
Panels == [copy : {"none", "copied", "error"}, feedback : BOOLEAN, menu : Presence, qr : Presence,
           canvas : LinksTo, drawing : LinksTo]

Types ==
  /\ form \in Forms /\ call \in Calls /\ panel \in Panels
  /\ letters \in Seq(Letter) /\ Len(letters) <= MaxLetters
  /\ link \in LinksTo /\ leaving \in BOOLEAN

\* The form is busy exactly while a submit is in flight, and no link is shown
\* meanwhile: nobody can touch the draft the submit took.
BusyWithCall ==
  /\ form.loading <=> call.at \in {"seal", "send", "sent"}
  /\ form.exiting <=> call.at = "show"
  /\ call.at # "idle" => link = NoLink /\ call.text = form.text /\ call.ttl = form.ttl
  /\ call.at \in {"send", "sent", "show"} => call.key \in Keys

\* What the service stored for the submit is what the submit took.
StoredAsTaken ==
  /\ call.letter # NoLetter <=> call.at \in {"sent", "show"}
  /\ call.letter # NoLetter =>
       /\ call.letter \in 1..Len(letters)
       /\ letters[call.letter] = [text |-> call.text, ttl |-> call.ttl, key |-> call.key]

\* A code that is drawn or about to be is the code of the link that is shown.
DrawsThisLink ==
  /\ panel.canvas # NoLink => panel.canvas = link
  /\ panel.drawing # NoLink => panel.drawing = link

\* The link that is shown is the link of a letter the service stored.
LinksLetter ==
  link # NoLink => \E t \in 1..Len(letters) : link = LinkOf(t, letters[t].key)

FormInv ==
  /\ Types /\ BusyWithCall /\ StoredAsTaken /\ DrawsThisLink /\ LinksLetter
  /\ leaving => link # NoLink

-----------------------------------------------------------------------------
(* Links *)

\* A sequence over some set is one over a larger set.
LEMMA SeqWider ==
  ASSUME NEW S, NEW T, S \subseteq T, NEW s \in Seq(S)
  PROVE  s \in Seq(T)
<1>1. Len(s) \in Nat /\ s \in [1..Len(s) -> S]
  BY SeqFunction
<1>2. s \in [1..Len(s) -> T]
  BY <1>1
<1>3. QED BY <1>1, <1>2

\* The origin holds no "#".
LEMMA BaseChars ==
  Base \in Seq(0..63) /\ Len(Base) \in Nat /\ \A i \in 1..Len(Base) : Base[i] \in 0..63
<1>1. Base \in Seq(0..63)
  BY FormAssumption
<1>2. Len(Base) \in Nat /\ Base \in [1..Len(Base) -> 0..63]
  BY <1>1, SeqFunction, Zenon
<1>3. QED BY <1>1, <1>2

\* A link is split where it was put together, whatever the key is: its address
\* ends in the token, holds no "#", and the rest is the digits of the key.
LEMMA LinkParts ==
  ASSUME NEW token \in 0..63, NEW key \in Keys
  PROVE  /\ LinkOf(token, key) # NoLink
         /\ SplitLink(LinkOf(token, key)).publicUrl[Len(Base) + 1] = token
         /\ \A i \in DOMAIN SplitLink(LinkOf(token, key)).publicUrl :
              SplitLink(LinkOf(token, key)).publicUrl[i] # Hash
         /\ SplitLink(LinkOf(token, key)).fragmentKey = Encoded(key)
<1> DEFINE n == (8 * Len(key) + 5) \div 6
           digits == Encoded(key)
           l == LinkOf(token, key)
           at == Len(Base) + 2
<1>1. Base \in Seq(0..63) /\ Len(Base) \in Nat /\ \A i \in 1..Len(Base) : Base[i] \in 0..63
  BY BaseChars
<1>2. KeyLength \in Nat /\ key \in [1..KeyLength -> 0..255] /\ Len(key) = KeyLength
  BY FormAssumption
<1>3. digits \in [1..n -> 0..63] /\ n \in Nat
  <2>1. digits = ToDigits(key)
    BY <1>2, EncodedDigits
  <2>2. ToDigits(key) \in [1..((8 * KeyLength + 5) \div 6) -> 0..63]
    BY <1>2, BytesMakeDigits, Zenon
  <2>3. n = (8 * KeyLength + 5) \div 6 /\ n \in Nat
    BY <1>2
  <2>4. QED BY <2>1, <2>2, <2>3
<1>4. digits = [i \in 1..n |-> digits[i]]
  BY <1>3
<1> DEFINE D == {digits[i] : i \in 1..n}
<1>5. digits \in Seq(D)
  <2> HIDE DEF n, digits
  <2>1. \A i \in 1..n : digits[i] \in D
    OBVIOUS
  <2> HIDE DEF D
  <2>2. [i \in 1..n |-> digits[i]] \in Seq(D)
    BY <1>3, <2>1
  <2>3. QED BY <1>4, <2>2
<1> DEFINE Chars == (0..64) \cup D
<1>6. /\ Base \in Seq(Chars) /\ <<token, Hash>> \in Seq(Chars) /\ digits \in Seq(Chars)
  <2> HIDE DEF digits, D
  <2>1. (0..63) \subseteq Chars /\ D \subseteq Chars /\ token \in Chars /\ Hash \in Chars
    BY DEF Hash
  <2> HIDE DEF Chars
  <2>2. Base \in Seq(Chars) /\ digits \in Seq(Chars)
    BY <1>1, <1>5, <2>1, SeqWider
  <2>3. QED BY <2>1, <2>2
<1>7. /\ l \in Seq(Chars) /\ Len(l) = Len(Base) + 2 + Len(digits) /\ Len(digits) \in Nat
      /\ l[Len(Base) + 1] = token /\ l[at] = Hash
      /\ \A i \in 1..Len(Base) : l[i] = Base[i]
      /\ \A i \in 1..Len(digits) : l[at + i] = digits[i]
  <2> HIDE DEF digits, Chars
  <2>1. l = (Base \o <<token, Hash>>) \o digits
    BY DEF LinkOf, LinkTo, Exported, digits
  <2> HIDE DEF l
  <2> DEFINE front == Base \o <<token, Hash>>
  <2>2. /\ front \in Seq(Chars) /\ Len(front) = Len(Base) + 2
        /\ front[Len(Base) + 1] = token /\ front[at] = Hash
        /\ \A i \in 1..Len(Base) : front[i] = Base[i]
    BY <1>1, <1>6
  <2> HIDE DEF front
  <2>3. /\ l \in Seq(Chars) /\ Len(l) = Len(front) + Len(digits) /\ Len(digits) \in Nat
        /\ \A i \in 1..Len(front) : l[i] = front[i]
        /\ \A i \in 1..Len(digits) : l[Len(front) + i] = digits[i]
    BY <1>6, <2>1, <2>2 DEF front
  <2>4. QED BY <1>1, <2>2, <2>3
<1> HIDE DEF l, digits, Chars, D, n
<1>8. DOMAIN l = 1..Len(l) /\ at \in DOMAIN l
  BY <1>1, <1>7
<1>9. \A i \in 1..(at - 1) : l[i] # Hash
  <2>1. \A i \in 1..Len(Base) : l[i] \in 0..63
    BY <1>1, <1>7
  <2>2. ASSUME NEW i \in 1..(at - 1) PROVE l[i] # Hash
    <3>1. i \in 1..Len(Base) \/ i = Len(Base) + 1
      BY <1>1
    <3>2. l[i] \in 0..63
      BY <1>7, <2>1, <3>1
    <3>3. \A c \in 0..63 : c # Hash
      BY DEF Hash
    <3>4. QED BY <3>2, <3>3, Zenon
  <2>3. QED BY <2>2
<1> DEFINE First(i) == l[i] = Hash /\ \A j \in 1..(i - 1) : l[j] # Hash
<1>10. \A i \in DOMAIN l : First(i) => i = at
  <2>1. SUFFICES ASSUME NEW i \in DOMAIN l, First(i), i # at PROVE FALSE
    OBVIOUS
  <2>2. i \in 1..(at - 1) \/ at \in 1..(i - 1)
    BY <1>1, <1>7, <1>8, <2>1
  <2>3. QED BY <1>7, <1>9, <2>1, <2>2
<1>11. (CHOOSE i \in DOMAIN l : First(i)) = at
  <2>1. First(at) /\ at \in DOMAIN l
    BY <1>7, <1>8, <1>9
  <2> HIDE DEF First
  <2>2. QED BY <1>10, <2>1
<1>12. /\ SplitLink(l).publicUrl = SubSeq(l, 1, at - 1)
       /\ SplitLink(l).fragmentKey = SubSeq(l, at + 1, Len(l))
  BY <1>7, <1>8, <1>11 DEF SplitLink
<1>13. /\ SubSeq(l, 1, at - 1)[Len(Base) + 1] = l[Len(Base) + 1]
       /\ \A i \in DOMAIN SubSeq(l, 1, at - 1) : SubSeq(l, 1, at - 1)[i] # Hash
  BY <1>1, <1>7, <1>9
<1>14. SubSeq(l, at + 1, Len(l)) = digits
  <2> DEFINE rest == SubSeq(l, at + 1, Len(l))
  <2>1. /\ rest \in Seq(Chars) /\ Len(rest) = Len(digits)
        /\ \A i \in 1..Len(digits) : rest[i] = l[at + i]
    BY <1>1, <1>7
  <2> HIDE DEF rest
  <2>2. rest = digits
    <3>1. digits \in Seq(Chars) /\ Len(digits) \in Nat /\ \A i \in 1..Len(digits) : rest[i] = digits[i]
      BY <1>6, <1>7, <2>1
    <3> HIDE DEF Chars
    <3>2. QED BY <2>1, <3>1
  <2>3. QED BY <2>2 DEF rest
<1>15. l # NoLink
  BY <1>1, <1>7 DEF NoLink
<1>16. QED BY <1>7, <1>12, <1>13, <1>14, <1>15 DEF l, digits

-----------------------------------------------------------------------------
(* The form *)

\* The draft is typed or its lifetime chosen: no submit is in flight.
LEMMA DraftSteps ==
  ASSUME FormInv, (\E text \in Inputs : Type(text)) \/ (\E ttl \in Ttls : ChooseTtl(ttl))
  PROVE  FormInv'
<1>1. form \in Forms /\ call.at = "idle" /\ UNCHANGED <<call, letters, link, leaving, panel>>
  BY DEF FormInv, Types, BusyWithCall, Type, ChooseTtl, Composing, Idle, Calls, panelVars
<1>2. form' \in Forms /\ form'.loading = form.loading /\ form'.exiting = form.exiting
  <2>1. CASE \E text \in Inputs : Type(text)
    <3>1. PICK text \in Inputs : Type(text)
      BY <2>1
    <3> DEFINE draft == Clamped(text, MaxBytes).text
               size == Clamped(text, MaxBytes).bytes
    <3>2. draft \in Drafts /\ size \in Sizes
      BY DEF Drafts, Sizes
    <3>3. form' = [form EXCEPT !.text = draft, !.bytes = size]
      BY <3>1 DEF Type
    <3> HIDE DEF draft, size
    <3>4. QED BY <1>1, <3>2, <3>3 DEF Forms
  <2>2. CASE \E ttl \in Ttls : ChooseTtl(ttl)
    BY <1>1, <2>2 DEF ChooseTtl, Forms
  <2>3. QED BY <2>1, <2>2
<1>3. Types'
  BY <1>1, <1>2 DEF FormInv, Types
<1>4. BusyWithCall'
  BY <1>1, <1>2 DEF FormInv, BusyWithCall
<1>5. StoredAsTaken' /\ DrawsThisLink' /\ LinksLetter' /\ (leaving' => link' # NoLink)
  BY <1>1 DEF FormInv, StoredAsTaken, DrawsThisLink, LinksLetter
<1>6. QED BY <1>3, <1>4, <1>5 DEF FormInv

\* A submit takes the draft as it is, or is refused.
LEMMA SubmitStep ==
  ASSUME FormInv, Submit
  PROVE  FormInv'
<1>1. /\ form \in Forms /\ panel \in Panels /\ call \in Calls
      /\ call.at = "idle" /\ link = NoLink /\ ~form.loading /\ ~form.exiting
      /\ UNCHANGED <<letters, link, leaving>> /\ panel' = [panel EXCEPT !.copy = "none"]
  BY DEF FormInv, Types, BusyWithCall, Submit, CanSubmit, Composing, Idle, Calls
<1>2. /\ panel' \in Panels /\ panel'.canvas = panel.canvas /\ panel'.drawing = panel.drawing
  BY <1>1 DEF Panels
<1>3. DrawsThisLink' /\ LinksLetter' /\ (leaving' => link' # NoLink)
  BY <1>1, <1>2 DEF FormInv, DrawsThisLink, LinksLetter
<1>4. CASE form' = [form EXCEPT !.error = TRUE] /\ UNCHANGED call
  <2>1. /\ form' \in Forms /\ form'.text = form.text /\ form'.ttl = form.ttl
        /\ form'.loading = form.loading /\ form'.exiting = form.exiting
    BY <1>1, <1>4 DEF Forms
  <2>2. QED BY <1>1, <1>2, <1>3, <1>4, <2>1 DEF FormInv, Types, BusyWithCall, StoredAsTaken
<1>5. CASE /\ form' = [form EXCEPT !.error = FALSE, !.loading = TRUE]
           /\ call' = [NoCall EXCEPT !.at = "seal", !.text = form.text, !.ttl = form.ttl]
  <2>1. /\ form' \in Forms /\ form'.text = form.text /\ form'.ttl = form.ttl
        /\ form'.loading = TRUE /\ form'.exiting = FALSE
    BY <1>1, <1>5 DEF Forms
  <2>2. form.text \in Drafts /\ form.ttl \in Lifetimes /\ <<>> \in Secrets
    BY <1>1 DEF Forms, Lifetimes, Secrets
  <2>3. /\ call' \in Calls /\ call'.at = "seal" /\ call'.text = form.text /\ call'.ttl = form.ttl
        /\ call'.letter = NoLetter
    BY <1>5, <2>2 DEF NoCall, NoLetter, Calls
  <2>4. QED BY <1>1, <1>2, <1>3, <2>1, <2>3 DEF FormInv, Types, BusyWithCall, StoredAsTaken
<1>6. QED BY <1>4, <1>5 DEF Submit

\* A submit goes on, and the service stores what it took.
LEMMA CallGoesOn ==
  ASSUME FormInv, Sealed \/ Stored \/ Answered
  PROVE  FormInv'
<1>1. form \in Forms /\ call \in Calls /\ letters \in Seq(Letter) /\ UNCHANGED <<link, leaving, panel>>
  BY DEF FormInv, Types, Sealed, Stored, Answered, panelVars
<1>2. DrawsThisLink' /\ LinksLetter' /\ (leaving' => link' # NoLink)
  <2>1. call.at # "idle"
    BY DEF Sealed, Stored, Answered
  <2>2. link' = NoLink
    BY <1>1, <2>1 DEF FormInv, BusyWithCall
  <2>3. QED BY <1>1, <2>2 DEF FormInv, DrawsThisLink, LinksLetter
<1>3. CASE Sealed
  <2>1. PICK key \in Keys : call.at = "seal" /\ call' = [call EXCEPT !.at = "send", !.key = key]
    BY <1>3 DEF Sealed
  <2>2. form' = form /\ letters' = letters
    BY <1>3 DEF Sealed
  <2>3. key \in Secrets
    BY DEF Secrets
  <2>4. /\ call' \in Calls /\ call'.at = "send" /\ call'.text = call.text /\ call'.ttl = call.ttl
        /\ call'.letter = call.letter /\ call'.key \in Keys
    BY <1>1, <2>1, <2>3 DEF Calls
  <2>5. QED BY <1>1, <1>2, <2>1, <2>2, <2>4 DEF FormInv, Types, BusyWithCall, StoredAsTaken
<1>4. CASE Stored
  <2> DEFINE stored == [text |-> call.text, ttl |-> call.ttl, key |-> call.key]
  <2>1. /\ call.at = "send" /\ Len(letters) < MaxLetters /\ form' = form
        /\ letters' = Append(letters, stored)
        /\ call' = [call EXCEPT !.at = "sent", !.letter = Len(letters) + 1]
    BY <1>4 DEF Stored
  <2>2. stored \in Letter
    <3>1. call.key \in Keys /\ call.ttl \in Ttls
      BY <1>1, <2>1 DEF FormInv, BusyWithCall, Forms
    <3>2. QED BY <1>1, <3>1 DEF Letter, Calls
  <2>3. Len(letters) \in Nat
    BY <1>1, SeqFunction
  <2>4. /\ call' \in Calls /\ call'.at = "sent" /\ call'.text = call.text /\ call'.ttl = call.ttl
        /\ call'.key = call.key /\ call'.letter = Len(letters) + 1
    <3> DEFINE n == Len(letters) + 1
    <3>1. n \in Nat /\ call' = [call EXCEPT !.at = "sent", !.letter = n]
      BY <2>1, <2>3
    <3> HIDE DEF n
    <3>2. /\ call' \in Calls /\ call'.at = "sent" /\ call'.text = call.text /\ call'.ttl = call.ttl
          /\ call'.key = call.key /\ call'.letter = n
      BY <1>1, <3>1 DEF Calls
    <3>3. QED BY <3>2 DEF n
  <2>5. stored = [text |-> call'.text, ttl |-> call'.ttl, key |-> call'.key]
    BY <2>4
  <2> HIDE DEF stored
  <2>6. /\ letters' \in Seq(Letter) /\ Len(letters') = Len(letters) + 1
        /\ letters'[Len(letters) + 1] = stored
    BY <1>1, <2>1, <2>2
  <2>7. Types'
    <3>1. MaxLetters \in Nat
      BY FormAssumption
    <3>2. Len(letters') <= MaxLetters
      BY <2>1, <2>3, <2>6, <3>1
    <3>3. QED BY <1>1, <2>1, <2>4, <2>6, <3>2 DEF FormInv, Types
  <2>8. BusyWithCall'
    BY <1>1, <2>1, <2>4 DEF FormInv, BusyWithCall
  <2>9. StoredAsTaken'
    BY <2>3, <2>4, <2>5, <2>6 DEF StoredAsTaken, NoLetter
  <2>10. QED BY <1>2, <2>7, <2>8, <2>9 DEF FormInv
<1>5. CASE Answered
  <2>1. /\ call.at = "sent" /\ call' = [call EXCEPT !.at = "show"] /\ letters' = letters
        /\ form' = [form EXCEPT !.loading = FALSE, !.exiting = TRUE]
    BY <1>5 DEF Answered
  <2>2. /\ call' \in Calls /\ call'.at = "show" /\ call'.text = call.text /\ call'.ttl = call.ttl
        /\ call'.key = call.key /\ call'.letter = call.letter
    BY <1>1, <2>1 DEF Calls
  <2>3. /\ form' \in Forms /\ form'.text = form.text /\ form'.ttl = form.ttl
        /\ form'.loading = FALSE /\ form'.exiting = TRUE
    BY <1>1, <2>1 DEF Forms
  <2>4. QED BY <1>1, <1>2, <2>1, <2>2, <2>3 DEF FormInv, Types, BusyWithCall, StoredAsTaken
<1>6. QED BY <1>3, <1>4, <1>5

\* The call that is over.
LEMMA NoCallType == NoCall \in Calls /\ NoCall.at = "idle" /\ NoCall.letter = NoLetter
BY DEF NoCall, Calls, Drafts, Lifetimes, Secrets, NoLetter

\* A submit fails: the draft and its form are back.
LEMMA CallFailsStep ==
  ASSUME FormInv, CallFails
  PROVE  FormInv'
<1>1. /\ form \in Forms /\ call' = NoCall /\ form' = [form EXCEPT !.loading = FALSE, !.error = TRUE]
      /\ UNCHANGED <<letters, link, leaving, panel>> /\ form.exiting = FALSE
  BY DEF FormInv, Types, BusyWithCall, CallFails, panelVars
<1>2. form' \in Forms /\ form'.loading = FALSE /\ form'.exiting = FALSE
  BY <1>1 DEF Forms
<1>3. QED BY <1>1, <1>2, NoCallType
          DEF FormInv, Types, BusyWithCall, StoredAsTaken, DrawsThisLink, LinksLetter

-----------------------------------------------------------------------------
(* The panel *)

\* The effect that draws the code keeps the one that is drawn, if its panel is
\* on the screen, and draws the link it is given or nothing.
LEMMA RedrawnPanel ==
  ASSUME NEW p \in Panels, NEW l \in LinksTo
  PROVE  /\ Redrawn(p, l) \in Panels
         /\ Redrawn(p, l).canvas \in {p.canvas, NoLink} /\ Redrawn(p, l).drawing \in {l, NoLink}
         /\ l = NoLink => Redrawn(p, l).canvas = NoLink
<1> DEFINE mounted == l # NoLink /\ p.qr.shown
           canvas == IF mounted THEN p.canvas ELSE NoLink
           drawing == IF mounted /\ p.qr.open THEN l ELSE NoLink
<1>1. NoLink \in LinksTo /\ p.canvas \in LinksTo
  BY DEF LinksTo, Panels
<1>2. /\ canvas \in LinksTo /\ drawing \in LinksTo /\ canvas \in {p.canvas, NoLink}
      /\ drawing \in {l, NoLink} /\ (l = NoLink => canvas = NoLink)
  BY <1>1
<1>3. Redrawn(p, l) = [p EXCEPT !.canvas = canvas, !.drawing = drawing]
  BY DEF Redrawn
<1> HIDE DEF canvas, drawing
<1>4. QED BY <1>2, <1>3 DEF Panels

\* A step of the panel alone.
LEMMA PanelMoves ==
  ASSUME FormInv, UNCHANGED <<form, call, letters, link, leaving>>, panel' \in Panels,
         panel'.canvas # NoLink => panel'.canvas = link,
         panel'.drawing # NoLink => panel'.drawing = link
  PROVE  FormInv'
BY DEF FormInv, Types, BusyWithCall, StoredAsTaken, DrawsThisLink, LinksLetter

\* Panels come and go, and the code with them.
LEMMA QrSteps ==
  ASSUME FormInv, OpenQr \/ CloseQr \/ QrExits \/ QrModuleLoads
  PROVE  FormInv'
<1>1. /\ panel \in Panels /\ link \in LinksTo /\ UNCHANGED <<form, call, letters, link, leaving>>
      /\ panel.canvas # NoLink => panel.canvas = link
      /\ panel.drawing # NoLink => panel.drawing = link
  BY DEF FormInv, Types, DrawsThisLink, OpenQr, CloseQr, QrExits, QrModuleLoads
<1>2. CASE QrModuleLoads
  <2>1. PICK drawn \in {panel.drawing, panel.canvas} :
          panel' = [panel EXCEPT !.canvas = drawn, !.drawing = NoLink]
    BY <1>2 DEF QrModuleLoads
  <2>2. drawn \in LinksTo /\ NoLink \in LinksTo
    BY <1>1 DEF Panels, LinksTo
  <2>3. panel' \in Panels /\ panel'.canvas = drawn /\ panel'.drawing = NoLink
    BY <1>1, <2>1, <2>2 DEF Panels
  <2>4. QED BY <1>1, <2>3, PanelMoves
<1>3. CASE OpenQr \/ CloseQr \/ QrExits
  <2>1. PICK qr \in Presence : panel' = Redrawn([panel EXCEPT !.qr = qr], link)
    <3>1. panel.qr \in Presence
      BY <1>1 DEF Panels
    <3>2. [panel.qr EXCEPT !.open = FALSE] \in Presence /\ Opened \in Presence /\ Closed \in Presence
      BY <3>1 DEF Presence, Opened, Closed
    <3>3. [panel EXCEPT !.qr.open = FALSE] = [panel EXCEPT !.qr = [panel.qr EXCEPT !.open = FALSE]]
      OBVIOUS
    <3>4. QED BY <1>3, <3>2, <3>3 DEF OpenQr, CloseQr, QrExits
  <2> DEFINE p == [panel EXCEPT !.qr = qr]
  <2>2. p \in Panels /\ p.canvas = panel.canvas
    BY <1>1 DEF Panels
  <2> HIDE DEF p
  <2>3. /\ panel' \in Panels /\ panel'.canvas \in {panel.canvas, NoLink}
        /\ panel'.drawing \in {link, NoLink}
    BY <1>1, <2>1, <2>2, RedrawnPanel DEF p
  <2>4. QED BY <1>1, <2>3, PanelMoves
<1>4. QED BY <1>2, <1>3

\* Copying and sharing leave the code alone.
LEMMA ShareSteps ==
  ASSUME FormInv, \/ CopyLink \/ CopyShared \/ CopySharePart \/ WriteEnds
                  \/ CopyTimerFires \/ FeedbackTimerFires
                  \/ OpenShareMenu \/ CloseShareMenu \/ MenuExits
  PROVE  FormInv'
<1>1. panel \in Panels /\ panel.menu \in Presence
  BY DEF FormInv, Types, Panels
<1>2. UNCHANGED <<form, call, letters, link, leaving>>
  BY DEF CopyLink, CopyShared, CopySharePart, Write, WriteEnds, CopyTimerFires, FeedbackTimerFires,
         OpenShareMenu, CloseShareMenu, MenuExits
<1>3. panel' \in Panels /\ panel'.canvas = panel.canvas /\ panel'.drawing = panel.drawing
  <2>1. CASE CopyLink \/ CopyShared \/ CopySharePart
    BY <1>1, <2>1 DEF CopyLink, CopyShared, CopySharePart, Write, Told, Panels
  <2>2. CASE WriteEnds
    <3>1. PICK status \in {"copied", "error"} :
            panel' = LET marked == IF writing.whole THEN [panel EXCEPT !.copy = status] ELSE panel
                     IN  IF writing.told THEN Told(marked) ELSE marked
      BY <2>2 DEF WriteEnds
    <3> DEFINE marked == IF writing.whole THEN [panel EXCEPT !.copy = status] ELSE panel
    <3>2. marked \in Panels /\ marked.canvas = panel.canvas /\ marked.drawing = panel.drawing
      BY <1>1 DEF Panels
    <3>3. panel' = Told(marked) \/ panel' = marked
      BY <3>1
    <3> HIDE DEF marked
    <3>4. QED BY <3>2, <3>3 DEF Told, Panels
  <2>3. CASE CopyTimerFires \/ FeedbackTimerFires
    BY <1>1, <2>3 DEF CopyTimerFires, FeedbackTimerFires, Panels
  <2>4. CASE OpenShareMenu \/ MenuExits
    <3>1. Opened \in Presence /\ Closed \in Presence
      BY DEF Presence, Opened, Closed
    <3>2. \/ panel' = [panel EXCEPT !.menu = Opened, !.feedback = FALSE]
          \/ panel' = [panel EXCEPT !.menu = Closed]
      BY <2>4 DEF OpenShareMenu, MenuExits
    <3>3. QED BY <1>1, <3>1, <3>2 DEF Panels
  <2>5. CASE CloseShareMenu
    <3> DEFINE menu == [panel.menu EXCEPT !.open = FALSE]
    <3>1. menu \in Presence
      BY <1>1 DEF Presence
    <3>2. panel' = [panel EXCEPT !.menu = menu, !.feedback = FALSE]
      BY <1>1, <2>5 DEF CloseShareMenu, Panels
    <3> HIDE DEF menu
    <3>3. QED BY <1>1, <3>1, <3>2 DEF Panels
  <2>6. QED BY <2>1, <2>2, <2>3, <2>4, <2>5
<1>4. QED BY <1>2, <1>3, PanelMoves DEF FormInv, DrawsThisLink

-----------------------------------------------------------------------------
(* The link *)

\* The link takes the place of the draft.
LEMMA LinkShownStep ==
  ASSUME FormInv, LinkShown
  PROVE  FormInv'
<1>1. /\ form \in Forms /\ call \in Calls /\ panel \in Panels /\ call.at = "show" /\ link = NoLink
      /\ link' = LinkOf(call.letter, call.key) /\ call' = NoCall
      /\ form' = [form EXCEPT !.text = <<>>, !.bytes = 0, !.exiting = FALSE]
      /\ panel' = Redrawn(panel, link') /\ UNCHANGED <<letters, leaving>>
      /\ form.loading = FALSE /\ leaving = FALSE
  BY DEF FormInv, Types, BusyWithCall, LinkShown
<1>2. link' \in LinksTo
  BY <1>1 DEF LinksTo, Calls
<1>3. <<>> \in Drafts /\ 0 \in Sizes
  BY DEF Drafts, Sizes
<1>4. form' \in Forms /\ form'.loading = FALSE /\ form'.exiting = FALSE
  BY <1>1, <1>3 DEF Forms
<1>5. panel' \in Panels /\ panel'.canvas \in {panel.canvas, NoLink} /\ panel'.drawing \in {link', NoLink}
  BY <1>1, <1>2, RedrawnPanel
<1>6. panel.canvas = NoLink
  BY <1>1 DEF FormInv, DrawsThisLink
<1>7. Types' /\ BusyWithCall' /\ StoredAsTaken'
  BY <1>1, <1>2, <1>4, <1>5, NoCallType DEF FormInv, Types, BusyWithCall, StoredAsTaken
<1>8. DrawsThisLink'
  BY <1>5, <1>6 DEF DrawsThisLink
<1>9. LinksLetter'
  <2>1. call.letter \in 1..Len(letters) /\ letters[call.letter].key = call.key
    BY <1>1 DEF FormInv, StoredAsTaken
  <2>2. QED BY <1>1, <2>1 DEF LinksLetter
<1>10. QED BY <1>1, <1>7, <1>8, <1>9 DEF FormInv

\* The link goes away again, and nothing of it stays.
LEMMA ResetSteps ==
  ASSUME FormInv, ResetToCompose \/ ResultLeaves
  PROVE  FormInv'
<1>1. CASE ResetToCompose
  BY <1>1 DEF ResetToCompose, panelVars, FormInv, Types, BusyWithCall, StoredAsTaken, DrawsThisLink,
              LinksLetter
<1>2. CASE ResultLeaves
  <2>1. /\ form \in Forms /\ panel \in Panels /\ panel.qr \in Presence /\ panel.menu \in Presence
        /\ call.at = "idle" /\ link' = NoLink /\ leaving' = FALSE /\ UNCHANGED <<call, letters>>
        /\ form' = [form EXCEPT !.text = <<>>, !.bytes = 0]
        /\ form.loading = FALSE /\ form.exiting = FALSE
    BY <1>2 DEF ResultLeaves, FormInv, Types, BusyWithCall, Panels, Calls, Forms
  <2>2. <<>> \in Drafts /\ 0 \in Sizes /\ NoLink \in LinksTo
    BY DEF Drafts, Sizes, LinksTo
  <2>3. form' \in Forms /\ form'.loading = FALSE /\ form'.exiting = FALSE
    BY <2>1, <2>2 DEF Forms
  <2> DEFINE qr == [panel.qr EXCEPT !.open = FALSE]
             menu == [panel.menu EXCEPT !.open = FALSE]
             p == [panel EXCEPT !.copy = "none", !.feedback = FALSE, !.qr = qr, !.menu = menu]
  <2>4. qr \in Presence /\ menu \in Presence
    BY <2>1 DEF Presence
  <2>5. p \in Panels
    <3> HIDE DEF qr, menu
    <3>1. QED BY <2>1, <2>4 DEF Panels
  <2>6. panel' = Redrawn(p, NoLink)
    <3>1. p = [panel EXCEPT !.copy = "none", !.feedback = FALSE, !.qr.open = FALSE, !.menu.open = FALSE]
      BY <2>1 DEF Panels
    <3>2. QED BY <1>2, <3>1 DEF ResultLeaves
  <2> HIDE DEF p
  <2>7. panel' \in Panels /\ panel'.canvas = NoLink /\ panel'.drawing = NoLink
    BY <2>2, <2>5, <2>6, RedrawnPanel
  <2>8. QED BY <2>1, <2>2, <2>3, <2>7
            DEF FormInv, Types, BusyWithCall, StoredAsTaken, DrawsThisLink, LinksLetter
<1>3. QED BY <1>1, <1>2

-----------------------------------------------------------------------------
(* The invariant *)

\* At first there is an empty draft and nothing else.
LEMMA InvInitially == Init => FormInv
<1> SUFFICES ASSUME Init PROVE FormInv
  OBVIOUS
<1>1. PICK ttl \in Ttls :
        form = [text |-> <<>>, bytes |-> 0, ttl |-> ttl,
                loading |-> FALSE, error |-> FALSE, exiting |-> FALSE]
  BY DEF Init
<1>2. <<>> \in Drafts /\ 0 \in Sizes
  BY DEF Drafts, Sizes
<1>3. form \in Forms /\ form.loading = FALSE /\ form.exiting = FALSE
  BY <1>1, <1>2 DEF Forms
<1>4. /\ call = NoCall /\ letters = <<>> /\ link = NoLink /\ leaving = FALSE
      /\ panel = [copy |-> "none", feedback |-> FALSE, menu |-> Closed, qr |-> Closed,
                  canvas |-> NoLink, drawing |-> NoLink]
  BY DEF Init
<1>5. NoLink \in LinksTo /\ Closed \in Presence
  BY DEF LinksTo, Presence, Closed
<1>6. panel \in Panels /\ panel.canvas = NoLink /\ panel.drawing = NoLink
  BY <1>4, <1>5 DEF Panels
<1>7. letters \in Seq(Letter) /\ Len(letters) <= MaxLetters
  BY <1>4, FormAssumption
<1>8. QED BY <1>3, <1>4, <1>5, <1>6, <1>7, NoCallType
          DEF FormInv, Types, BusyWithCall, StoredAsTaken, DrawsThisLink, LinksLetter

\* Every step keeps it.
LEMMA InvStep == FormInv /\ [Next]_vars => FormInv'
<1> SUFFICES ASSUME FormInv, [Next]_vars PROVE FormInv'
  OBVIOUS
<1>1. CASE (\E text \in Inputs : Type(text)) \/ (\E ttl \in Ttls : ChooseTtl(ttl))
  BY <1>1, DraftSteps
<1>2. CASE Submit
  BY <1>2, SubmitStep
<1>3. CASE CallStep
  BY <1>3, CallGoesOn, CallFailsStep, LinkShownStep DEF CallStep
<1>4. CASE ResetToCompose \/ ResultLeaves
  BY <1>4, ResetSteps
<1>5. CASE PanelStep
  BY <1>5, QrSteps, ShareSteps DEF PanelStep
<1>6. CASE UNCHANGED vars
  BY <1>6 DEF vars, panelVars, FormInv, Types, BusyWithCall, StoredAsTaken, DrawsThisLink, LinksLetter
<1>7. QED BY <1>1, <1>2, <1>3, <1>4, <1>5, <1>6 DEF Next

\* A submit in flight owns the draft, what is stored is what it took, and the
\* code drawn is the link's.
THEOREM FormInvariant == Spec => []FormInv
<1>1. QED BY InvInitially, InvStep, PTL DEF Spec

\* A QR code on the screen is the code of the link that is shown, however late
\* its module comes.
THEOREM QrShowsThisLink == Spec => []QrIsThisLink
<1>1. FormInv => QrIsThisLink
  BY DEF FormInv, DrawsThisLink, QrIsThisLink
<1>2. QED BY <1>1, FormInvariant, PTL

-----------------------------------------------------------------------------
(* Letters and their writer *)

\* The panel concerns neither the draft nor the submit.
LEMMA PanelKeepsForm ==
  ASSUME PanelStep \/ ResetToCompose \/ UNCHANGED vars
  PROVE  UNCHANGED <<form, call, letters, link>>
BY DEF PanelStep, ResetToCompose, vars, panelVars, CopyLink, CopyShared, CopySharePart, Write,
       WriteEnds, CopyTimerFires, FeedbackTimerFires, OpenShareMenu, CloseShareMenu, MenuExits,
       OpenQr, CloseQr, QrExits, QrModuleLoads

\* NoSilentOrphan for one step.
LEMMA OrphanStep ==
  ASSUME FormInv, [Next]_vars, call.letter # NoLetter, call'.letter # call.letter
  PROVE  form'.error \/ link' = LinkOf(call.letter, letters[call.letter].key)
<1>1. /\ form \in Forms /\ call \in Calls /\ call.at \in {"sent", "show"}
      /\ letters[call.letter].key = call.key
  BY DEF FormInv, Types, StoredAsTaken
<1>2. CASE CallFails
  BY <1>1, <1>2 DEF CallFails, Forms
<1>3. CASE LinkShown
  BY <1>1, <1>3 DEF LinkShown
<1>4. CASE Answered
  <2>1. call'.letter = call.letter
    BY <1>1, <1>4 DEF Answered, Calls
  <2>2. QED BY <2>1
<1>5. CASE Submit \/ Sealed \/ Stored
  <2>1. CASE Submit
    BY <1>1, <2>1 DEF Submit, CanSubmit, Composing, Idle, FormInv, BusyWithCall
  <2>2. CASE Sealed \/ Stored
    BY <1>1, <2>2 DEF Sealed, Stored
  <2>3. QED BY <1>5, <2>1, <2>2
<1>6. CASE \/ \E text \in Inputs : Type(text)
           \/ \E ttl \in Ttls : ChooseTtl(ttl)
           \/ ResultLeaves
  BY <1>6 DEF Type, ChooseTtl, ResultLeaves
<1>7. CASE PanelStep \/ ResetToCompose \/ UNCHANGED vars
  BY <1>7, PanelKeepsForm
<1>8. QED BY <1>2, <1>3, <1>4, <1>5, <1>6, <1>7 DEF Next, CallStep

\* A stored letter gets its link or its writer an error.
THEOREM NothingStoredSilently == Spec => NoSilentOrphan
<1> DEFINE Accounted == call.letter # NoLetter /\ call'.letter # call.letter
                      => form'.error \/ link' = LinkOf(call.letter, letters[call.letter].key)
<1>1. FormInv /\ [Next]_vars => [Accounted]_vars
  BY OrphanStep
<1>2. QED BY <1>1, FormInvariant, PTL DEF Spec, NoSilentOrphan

\* LinkReplacesDraft for one step.
LEMMA ReplaceStep ==
  ASSUME FormInv, [Next]_vars, form'.text # form.text, ~Idle
  PROVE  /\ link = NoLink /\ link' # NoLink
         /\ LinkedLetter(link').text = form.text /\ LinkedLetter(link').ttl = form.ttl
<1>1. /\ form \in Forms /\ call \in Calls
  BY DEF FormInv, Types
<1>2. CASE LinkShown
  <2>1. /\ call.at = "show" /\ link = NoLink /\ call.text = form.text /\ call.ttl = form.ttl
        /\ link' = LinkOf(call.letter, call.key)
    BY <1>2 DEF LinkShown, FormInv, BusyWithCall
  <2>2. /\ call.letter \in 1..Len(letters) /\ Len(letters) <= MaxLetters
        /\ letters[call.letter] = [text |-> call.text, ttl |-> call.ttl, key |-> call.key]
        /\ letters \in Seq(Letter)
    BY <2>1 DEF FormInv, Types, StoredAsTaken
  <2>3. call.letter \in 0..63
    <3>1. Len(letters) \in Nat
      BY <2>2, SeqFunction
    <3>2. MaxLetters \in 0..63
      BY FormAssumption
    <3>3. call.letter \in 1..Len(letters) /\ Len(letters) <= MaxLetters
      BY <2>2
    <3>4. \A n, max, t : n \in Nat /\ max \in 0..63 /\ t \in 1..n /\ n <= max => t \in 0..63
      OBVIOUS
    <3>5. QED BY <3>1, <3>2, <3>3, <3>4, Zenon
  <2>4. call.key \in Keys
    BY <2>1 DEF FormInv, BusyWithCall
  <2>5. link' # NoLink /\ SplitLink(link').publicUrl[Len(Base) + 1] = call.letter
    BY <2>1, <2>3, <2>4, LinkParts
  <2>6. LinkedLetter(link') = letters[call.letter]
    BY <2>5 DEF LinkedLetter
  <2>7. QED BY <2>1, <2>2, <2>5, <2>6
<1>3. CASE \/ \E text \in Inputs : Type(text)
           \/ \E ttl \in Ttls : ChooseTtl(ttl)
           \/ Submit
  BY <1>3 DEF Type, ChooseTtl, Submit, CanSubmit, Composing
<1>4. CASE ResultLeaves
  <2>1. link # NoLink /\ call.at = "idle"
    BY <1>1, <1>4 DEF ResultLeaves, FormInv, BusyWithCall, Calls
  <2>2. ~form.loading /\ ~form.exiting
    BY <1>1, <2>1 DEF FormInv, BusyWithCall, Forms
  <2>3. QED BY <2>2 DEF Idle
<1>5. CASE Sealed \/ Stored \/ Answered \/ CallFails
  <2>1. form'.text = form.text
    BY <1>1, <1>5 DEF Sealed, Stored, Answered, CallFails, Forms
  <2>2. QED BY <2>1
<1>6. CASE PanelStep \/ ResetToCompose \/ UNCHANGED vars
  BY <1>6, PanelKeepsForm
<1>7. QED BY <1>2, <1>3, <1>4, <1>5, <1>6 DEF Next, CallStep

\* A submitted draft makes way only for the link of a letter that holds it.
THEOREM LinkReplaces == Spec => LinkReplacesDraft
<1> DEFINE MakesWay ==
      form'.text # form.text /\ ~Idle
        => /\ link = NoLink /\ link' # NoLink
           /\ LinkedLetter(link').text = form.text /\ LinkedLetter(link').ttl = form.ttl
<1>1. FormInv /\ [Next]_vars => [MakesWay]_vars
  BY ReplaceStep
<1>2. QED BY <1>1, FormInvariant, PTL DEF Spec, LinkReplacesDraft

-----------------------------------------------------------------------------
(* The draft and its byte counter *)

\* What the clamp makes of an input is a text, with its number of bytes.
LEMMA DraftTypes ==
  /\ Drafts \subseteq Seq(Nat) /\ Sizes \subseteq Nat
  /\ \A text \in Inputs : /\ Clamped(text, MaxBytes).bytes = ByteLength(Clamped(text, MaxBytes).text)
                          /\ Clamped(text, MaxBytes).bytes <= MaxBytes
<1>1. Inputs \subseteq Seq(Nat) /\ MaxBytes \in Nat
  BY FormAssumption
<1>2. ASSUME NEW text \in Inputs
      PROVE  /\ Clamped(text, MaxBytes).text \in Seq(Nat)
             /\ Clamped(text, MaxBytes).bytes = ByteLength(Clamped(text, MaxBytes).text)
             /\ Clamped(text, MaxBytes).bytes \in 0..MaxBytes
  <2>1. text \in Seq(Nat)
    BY <1>1
  <2>2. QED BY <1>1, <2>1, ClampKeepsLongest
<1>3. \A b \in 0..MaxBytes : b \in Nat /\ b <= MaxBytes
  BY <1>1
<1>4. <<>> \in Seq(Nat) /\ 0 \in Nat
  OBVIOUS
<1>5. QED BY <1>2, <1>3, <1>4 DEF Drafts, Sizes

\* No characters are no bytes.
LEMMA NoBytes == ByteLength(<<>>) = 0
<1>1. <<>> \in Seq(Nat) /\ Len(<<>>) = 0
  OBVIOUS
<1>2. PICK B : CountsBytes(B, <<>>) /\ ByteLength(<<>>) = B[0]
  BY <1>1, CountsExist
<1>3. QED BY <1>2 DEF CountsBytes

\* The byte counter is exact and within the limit.
DraftCounted == form.bytes = ByteLength(form.text) /\ form.bytes <= MaxBytes

LEMMA CountedInitially == Init => DraftCounted
<1>1. MaxBytes \in Nat
  BY FormAssumption
<1>2. QED BY <1>1, NoBytes DEF Init, DraftCounted

LEMMA CountedStep == FormInv /\ DraftCounted /\ [Next]_vars => DraftCounted'
<1> SUFFICES ASSUME FormInv, DraftCounted, [Next]_vars PROVE DraftCounted'
  OBVIOUS
<1>1. form \in Forms /\ MaxBytes \in Nat
  BY FormAssumption DEF FormInv, Types
<1>2. CASE \E text \in Inputs : Type(text)
  <2>1. PICK text \in Inputs : Type(text)
    BY <1>2
  <2> DEFINE draft == Clamped(text, MaxBytes).text
             size == Clamped(text, MaxBytes).bytes
  <2>2. size = ByteLength(draft) /\ size <= MaxBytes
    BY DraftTypes
  <2>3. form' = [form EXCEPT !.text = draft, !.bytes = size]
    BY <2>1 DEF Type
  <2> HIDE DEF draft, size
  <2>4. form'.text = draft /\ form'.bytes = size
    BY <1>1, <2>3 DEF Forms
  <2>5. QED BY <2>2, <2>4 DEF DraftCounted
<1>3. CASE LinkShown \/ ResultLeaves
  <2>1. form'.text = <<>> /\ form'.bytes = 0
    BY <1>1, <1>3 DEF LinkShown, ResultLeaves, Forms
  <2>2. QED BY <1>1, <2>1, NoBytes DEF DraftCounted
<1>4. CASE \/ \E ttl \in Ttls : ChooseTtl(ttl)
           \/ Submit \/ Sealed \/ Stored \/ Answered \/ CallFails
  <2>1. form'.text = form.text /\ form'.bytes = form.bytes
    BY <1>1, <1>4 DEF ChooseTtl, Submit, Sealed, Stored, Answered, CallFails, Forms
  <2>2. QED BY <2>1 DEF DraftCounted
<1>5. CASE PanelStep \/ ResetToCompose \/ UNCHANGED vars
  BY <1>5, PanelKeepsForm DEF DraftCounted
<1>6. QED BY <1>2, <1>3, <1>4, <1>5 DEF Next, CallStep

\* The longest beginning within the limit is what the clamp keeps.
LEMMA ClampIsLongest ==
  ASSUME NEW text \in Inputs
  PROVE  Clamped(text, MaxBytes).text = LongestPrefix(text, MaxBytes)
<1>1. text \in Seq(Nat) /\ MaxBytes \in Nat
  BY FormAssumption
<1>2. PICK k \in 0..Len(text) : /\ Clamped(text, MaxBytes).text = SubSeq(text, 1, k)
                                /\ Longest(text, MaxBytes, k)
  BY <1>1, ClampKeepsLongest
<1> DEFINE n == CHOOSE i \in 0..Len(text) : Longest(text, MaxBytes, i)
<1>3. LongestPrefix(text, MaxBytes) = SubSeq(text, 1, n)
  BY DEF LongestPrefix, Longest
<1>4. n \in 0..Len(text) /\ Longest(text, MaxBytes, n)
  BY <1>2
<1> HIDE DEF n
<1>5. n = k
  BY <1>1, <1>2, <1>4, LongestUnique
<1>6. QED BY <1>2, <1>3, <1>5

\* The counter is exact and within the limit, and the draft is the longest
\* beginning of the input that fits, for any characters and any limit.
THEOREM DraftIsLongestPrefix == Spec => []ClampKeepsLongestPrefix
<1>1. Spec => []DraftCounted
  BY CountedInitially, CountedStep, FormInvariant, PTL DEF Spec
<1>2. DraftCounted => ClampKeepsLongestPrefix
  BY ClampIsLongest DEF DraftCounted, ClampKeepsLongestPrefix
<1>3. QED BY <1>1, <1>2, PTL

-----------------------------------------------------------------------------
(* The parts of a link *)

\* A key of the code's length is read back from the fragment.
LEMMA KeyReturns ==
  ASSUME NEW key \in Keys
  PROVE  IsKey(Encoded(key)) /\ Decoded(Encoded(key)) = key
<1>1. KeyLength \in Nat /\ KeyLength > 0 /\ key \in [1..KeyLength -> 0..255]
  BY FormAssumption
<1>2. Decoded(Encoded(key)) = key /\ WellFormed(Encoded(key))
  BY <1>1, KeysReturn
<1>3. Len(key) = KeyLength
  BY <1>1
<1>4. QED BY <1>2, <1>3 DEF IsKey

\* The number of a stored letter is a character of a link.
LEMMA TokenChar ==
  ASSUME Types, NEW t \in 1..Len(letters)
  PROVE  t \in 0..63 /\ t \in 1..MaxLetters /\ letters[t] \in Letter
<1>1. letters \in Seq(Letter) /\ Len(letters) <= MaxLetters /\ MaxLetters \in 0..63
  BY FormAssumption DEF Types
<1>2. Len(letters) \in Nat /\ letters \in [1..Len(letters) -> Letter]
  BY <1>1, SeqFunction
<1>3. t \in 0..63 /\ t \in 1..MaxLetters
  <2>1. \A n, max, i : n \in Nat /\ max \in 0..63 /\ i \in 1..n /\ n <= max
                         => i \in 0..63 /\ i \in 1..max
    OBVIOUS
  <2>2. QED BY <1>1, <1>2, <2>1, Zenon
<1>4. QED BY <1>2, <1>3

\* The parts of the link that is shown open its letter: the address does not
\* hold the key, the fragment is accepted, and it is the key of the letter that
\* the address names.
THEOREM PartsOpen == Spec => []PartsOpenLetter
<1>1. ASSUME FormInv, link # NoLink PROVE /\ \A i \in DOMAIN Parts.publicUrl : Parts.publicUrl[i] # Hash
                                          /\ IsKey(Parts.fragmentKey)
                                          /\ Decoded(Parts.fragmentKey) = LinkedLetter(link).key
  <2>1. PICK t \in 1..Len(letters) : link = LinkOf(t, letters[t].key)
    BY <1>1 DEF FormInv, LinksLetter
  <2>2. t \in 0..63 /\ letters[t] \in Letter
    BY <1>1, TokenChar DEF FormInv
  <2> DEFINE key == letters[t].key
  <2>3. key \in Keys
    BY <2>2 DEF Letter
  <2> HIDE DEF key
  <2>4. link = LinkOf(t, key)
    BY <2>1 DEF key
  <2>5. /\ \A i \in DOMAIN Parts.publicUrl : Parts.publicUrl[i] # Hash
        /\ SplitLink(link).publicUrl[Len(Base) + 1] = t
        /\ Parts.fragmentKey = Encoded(key)
    BY <2>2, <2>3, <2>4, LinkParts DEF Parts
  <2>6. LinkedLetter(link) = letters[t]
    BY <2>5 DEF LinkedLetter
  <2>7. IsKey(Encoded(key)) /\ Decoded(Encoded(key)) = key
    BY <2>3, KeyReturns
  <2>8. QED BY <2>5, <2>6, <2>7 DEF key
<1>2. FormInv => PartsOpenLetter
  BY <1>1 DEF PartsOpenLetter
<1>3. QED BY <1>2, FormInvariant, PTL

-----------------------------------------------------------------------------
(* Types *)

\* The feedback timers stay within their bound.
TimersInv == timers \in [{"copy", "feedback"} -> 0..MaxTimers]

LEMMA TimersInitially == Init => TimersInv
BY FormAssumption DEF Init, TimersInv

LEMMA TimersStep == TimersInv /\ [Next]_vars => TimersInv'
<1> SUFFICES ASSUME TimersInv, [Next]_vars PROVE TimersInv'
  OBVIOUS
<1>1. MaxTimers \in Nat \ {0}
  BY FormAssumption
<1>2. CASE WriteEnds
  <2> DEFINE copies == timers["copy"] + (IF writing.whole THEN 1 ELSE 0)
             told == timers["feedback"] + (IF writing.told THEN 1 ELSE 0)
  <2>1. timers["copy"] < MaxTimers /\ timers["feedback"] < MaxTimers
    BY <1>2 DEF WriteEnds, Fits
  <2>2. copies \in 0..MaxTimers /\ told \in 0..MaxTimers
    BY <1>1, <2>1 DEF TimersInv
  <2>3. timers' = [timers EXCEPT !["copy"] = copies, !["feedback"] = told]
    BY <1>2 DEF WriteEnds
  <2> HIDE DEF copies, told
  <2>4. QED BY <2>2, <2>3 DEF TimersInv
<1>3. CASE CopySharePart
  BY <1>1, <1>3 DEF CopySharePart, Write, Fits, TimersInv
<1>4. CASE CopyTimerFires \/ FeedbackTimerFires
  BY <1>1, <1>4 DEF CopyTimerFires, FeedbackTimerFires, TimersInv
<1>5. CASE \/ \E text \in Inputs : Type(text)
           \/ \E ttl \in Ttls : ChooseTtl(ttl)
           \/ Submit \/ CallStep \/ ResetToCompose \/ ResultLeaves
           \/ CopyLink \/ CopyShared \/ OpenShareMenu \/ CloseShareMenu \/ MenuExits
           \/ OpenQr \/ CloseQr \/ QrExits \/ QrModuleLoads \/ UNCHANGED vars
  <2>1. timers' = timers
    BY <1>5 DEF Type, ChooseTtl, Submit, CallStep, Sealed, Stored, Answered, CallFails, LinkShown,
                ResetToCompose, ResultLeaves, CopyLink, CopyShared, Write, OpenShareMenu,
                CloseShareMenu, MenuExits, OpenQr, CloseQr, QrExits, QrModuleLoads, vars, panelVars
  <2>2. QED BY <2>1 DEF TimersInv
<1>6. QED BY <1>2, <1>3, <1>4, <1>5 DEF Next, PanelStep

\* Every variable keeps its type: a link is the link of a letter of the
\* service, and so is the link that is drawn.
THEOREM TypeCorrect == Spec => []TypeOK
<1>1. Spec => []TimersInv
  BY TimersInitially, TimersStep, PTL DEF Spec
<1>2. ASSUME FormInv, TimersInv PROVE TypeOK
  <2>1. /\ form \in Forms /\ call \in Calls /\ panel \in Panels /\ letters \in Seq(Letter)
        /\ leaving \in BOOLEAN
    BY <1>2 DEF FormInv, Types
  <2>2. form.text \in Seq(Nat) /\ form.bytes \in Nat /\ form.ttl \in Ttls
    BY <2>1, DraftTypes DEF Forms
  <2>3. Len(letters) \in Nat /\ DOMAIN letters = 1..Len(letters)
    BY <2>1, SeqFunction
  <2>4. call.letter \in 0..Len(letters) /\ call.key \in Keys \cup {<<>>}
    <3>1. call.letter = 0 \/ call.letter \in 1..Len(letters)
      BY <1>2 DEF FormInv, StoredAsTaken, NoLetter
    <3>2. QED BY <2>1, <2>3, <3>1 DEF Calls, Secrets
  <2>5. \A t \in DOMAIN letters : letters[t].key \in Keys /\ letters[t].ttl \in Ttls
    BY <1>2, <2>3, TokenChar DEF FormInv, Letter
  <2>6. link \in Links
    <3>1. CASE link = NoLink
      BY <3>1 DEF Links
    <3>2. CASE link # NoLink
      <4>1. PICK t \in 1..Len(letters) : link = LinkOf(t, letters[t].key)
        BY <1>2, <3>2 DEF FormInv, LinksLetter
      <4>2. t \in 1..MaxLetters /\ letters[t].key \in Keys
        BY <1>2, <2>3, <2>5, TokenChar DEF FormInv
      <4>3. QED BY <4>1, <4>2 DEF Links
    <3>3. QED BY <3>1, <3>2
  <2>7. panel.canvas \in Links /\ panel.drawing \in Links
    BY <1>2, <2>6 DEF FormInv, DrawsThisLink, Links
  <2>8. {form.loading, form.error, form.exiting, leaving} \subseteq BOOLEAN
    BY <2>1 DEF Forms
  <2>9. /\ call.at \in {"idle", "seal", "send", "sent", "show"}
        /\ panel.copy \in {"none", "copied", "error"} /\ panel.feedback \in BOOLEAN
        /\ panel.menu \in Presence /\ panel.qr \in Presence
    BY <2>1 DEF Calls, Panels
  <2>10. \A k \in DOMAIN timers : timers[k] \in 0..MaxTimers
    BY <1>2 DEF TimersInv
  <2>11. QED BY <2>2, <2>4, <2>5, <2>6, <2>7, <2>8, <2>9, <2>10 DEF TypeOK
<1>3. QED BY <1>1, <1>2, FormInvariant, PTL
=============================================================================
