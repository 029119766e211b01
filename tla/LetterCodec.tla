---------------------------- MODULE LetterCodec ----------------------------
(***************************************************************************)
(* The conversions between a draft, its key and a link: lib/utf8.ts, the   *)
(* base64url half of lib/crypto.ts and lib/secretLink.ts.  A text is a     *)
(* sequence of code points.  A link is a sequence of characters, which are *)
(* numbers: 0..63 are the digits of base64url, of which 62 and 63 are "-"  *)
(* and "_", and the others have names.                                     *)
(***************************************************************************)
EXTENDS Integers, Sequences

CONSTANT KeyLength   \* bytes of a key: 32 in the code

Minus == 62
Underscore == 63
Hash == 64
Plus == 65    \* 62 and 63 in base64
Slash == 66
Pad == 67     \* "="

Space == 32

-----------------------------------------------------------------------------
(* UTF-8 *)

Utf8Width(c) ==
  CASE c \in 0..127 -> 1 [] c \in 128..2047 -> 2 [] c \in 2048..65535 -> 3 [] OTHER -> 4

ByteLength(text) ==
  LET Bytes[i \in 0..Len(text)] == IF i = 0 THEN 0 ELSE Bytes[i - 1] + Utf8Width(text[i])
  IN  Bytes[Len(text)]

Nothing == [text |-> <<>>, bytes |-> 0, full |-> FALSE]

\* Mutant: the character that crosses the limit is kept.
TakenLate(done, c, max) ==
  IF done.full THEN done
  ELSE [text |-> Append(done.text, c), bytes |-> done.bytes + Utf8Width(c),
        full |-> done.bytes + Utf8Width(c) > max]

\* The character c after what was taken; the first that does not fit is the end.
Taken(done, c, max) ==
  IF done.full \/ done.bytes + Utf8Width(c) > max
  THEN [done EXCEPT !.full = TRUE]
  ELSE [done EXCEPT !.text = Append(@, c), !.bytes = @ + Utf8Width(c)]

Clamped(text, max) ==
  LET Done[i \in 0..Len(text)] ==
        IF i = 0 THEN Nothing ELSE Taken(Done[i - 1], text[i], max)
  IN  Done[Len(text)]

Blank(text) == \A i \in DOMAIN text : text[i] = Space

-----------------------------------------------------------------------------
(* base64: what btoa and atob of the platform do *)

\* The bits of the numbers in seq, each `from' bits wide, read as n numbers of
\* `to' bits, each from two neighbours; missing bits are 0, bits left over are
\* dropped.
Regrouped(seq, from, to, n) ==
  LET At(k) == IF k <= Len(seq) THEN seq[k] ELSE 0
      Number(bit) == LET k == bit \div from + 1
                     IN  ((At(k) * 2^from + At(k + 1)) \div 2^(2 * from - to - (bit % from))) % 2^to
  IN  [i \in 1..n |-> Number((i - 1) * to)]

ToDigits(bytes) == Regrouped(bytes, 8, 6, (8 * Len(bytes) + 5) \div 6)
ToBytes(digits) == Regrouped(digits, 6, 8, (6 * Len(digits)) \div 8)

Replaced(s, a, b) == [i \in DOMAIN s |-> IF s[i] = a THEN b ELSE s[i]]

Without(s, c) ==
  LET Rest[i \in 0..Len(s)] ==
        IF i = 0 THEN <<>> ELSE IF s[i] = c THEN Rest[i - 1] ELSE Append(Rest[i - 1], s[i])
  IN  Rest[Len(s)]

Padded(s) == s \o [i \in 1..((-Len(s)) % 4) |-> Pad]

Btoa(bytes) == Padded(Replaced(Replaced(ToDigits(bytes), Minus, Plus), Underscore, Slash))

\* A character of another alphabet is an error: <<>>.
Atob(chars) ==
  LET read == Without(chars, Pad)
  IN  IF \A i \in DOMAIN read : read[i] \in (0..61) \cup {Plus, Slash}
      THEN ToBytes(Replaced(Replaced(read, Plus, Minus), Slash, Underscore))
      ELSE <<>>

-----------------------------------------------------------------------------
(* base64url *)

Encoded(bytes) == Without(Replaced(Replaced(Btoa(bytes), Plus, Minus), Slash, Underscore), Pad)

WellFormed(chars) ==
  chars # <<>> /\ Len(chars) % 4 # 1 /\ \A i \in DOMAIN chars : chars[i] \in 0..63

\* Mutant: one of the two replacements is forgotten.
DecodedHalfway(chars) == Atob(Padded(Replaced(chars, Minus, Plus)))

\* Of well-formed characters.
Decoded(chars) == Atob(Padded(Replaced(Replaced(chars, Minus, Plus), Underscore, Slash)))

\* importKeyFromBase64Url accepts it.
IsKey(chars) == WellFormed(chars) /\ Len(Decoded(chars)) = KeyLength

-----------------------------------------------------------------------------
(* Links *)

LinkTo(base, token, fragment) == base \o <<token, Hash>> \o fragment

SplitLink(link) ==
  IF \E i \in DOMAIN link : link[i] = Hash
  THEN LET hash == CHOOSE i \in DOMAIN link :
                     link[i] = Hash /\ \A j \in 1..(i - 1) : link[j] # Hash
       IN  [publicUrl |-> SubSeq(link, 1, hash - 1),
            fragmentKey |-> SubSeq(link, hash + 1, Len(link))]
  ELSE [publicUrl |-> link, fragmentKey |-> <<>>]
=============================================================================
