------------------------- MODULE LetterCodecProofs -------------------------
(***************************************************************************)
(* Facts about the conversions of LetterCodec, for texts, limits and keys  *)
(* of any length: the byte count of a beginning grows with it, the clamp   *)
(* keeps the longest beginning that fits, and a key is read back from its  *)
(* digits.                                                                 *)
(*                                                                         *)
(* The counts and the clamp are functions defined by recursion on the      *)
(* positions of a text.  That they exist and are unique is induction,      *)
(* which is stated here about sets of numbers, so that no theorem takes an *)
(* operator: a set that contains 0 and the successor of each of its        *)
(* elements is Nat, since its complement has no least element.             *)
(***************************************************************************)
EXTENDS LetterCodec, WellFoundedInduction, TLAPS

-----------------------------------------------------------------------------
(* Induction and recursion *)

\* Some number is the least of a set of numbers that is not empty.
LEMMA LeastNumber ==
  ASSUME NEW T \in SUBSET Nat, T # {}
  PROVE  \E m \in T : \A n \in T : m <= n
<1> DEFINE R == OpToRel(<, Nat)
<1>1. IsWellFoundedOn(R, Nat)
  BY NatLessThanWellFounded
<1>2. \A x, y \in Nat : x < y => <<x, y>> \in R
  BY DEF OpToRel
<1> HIDE DEF R
<1>3. \E x \in T : \A y \in T : ~(<<y, x>> \in R)
  BY <1>1, WFMin
<1>4. PICK x \in T : \A y \in T : ~(<<y, x>> \in R)
  BY <1>3
<1>5. \A y \in T : ~(y < x)
  BY <1>2, <1>4
<1>6. QED BY <1>5

\* A set that contains 0 and, up to m, the successor of each of its elements
\* contains 0..m.
LEMMA InductionUpTo ==
  ASSUME NEW m \in Nat, NEW S, 0 \in S, \A i \in 1..m : i - 1 \in S => i \in S
  PROVE  \A i \in 0..m : i \in S
<1> DEFINE T == (0..m) \ S
<1>1. SUFFICES ASSUME T # {} PROVE FALSE
  OBVIOUS
<1>2. T \in SUBSET Nat
  OBVIOUS
<1>3. PICK least \in T : \A n \in T : least <= n
  BY <1>1, <1>2, LeastNumber
<1>4. least \in 1..m /\ least - 1 \in 0..m /\ least - 1 \notin T
  BY <1>3
<1>5. QED BY <1>3, <1>4

\* f starts with `first', and next[i] takes each of its values up to n to the next.
Follows(f, n, first, next) == f[0] = first /\ \A i \in 1..n : f[i] = next[i][f[i - 1]]

\* There is such a function.
LEMMA Recursion ==
  ASSUME NEW S, NEW first \in S, NEW n \in Nat, NEW next \in [1..n -> [S -> S]]
  PROVE  \E f \in [0..n -> S] : Follows(f, n, first, next)
<1> DEFINE Along(m, f) == f[0] = first /\ \A i \in 1..m : f[i] = next[i][f[i - 1]]
           M == {m \in 0..n : \E f \in [0..m -> S] : Along(m, f)}
<1>1. 0 \in M
  <2> DEFINE f == [i \in 0..0 |-> first]
  <2>1. f \in [0..0 -> S] /\ Along(0, f)
    OBVIOUS
  <2> HIDE DEF f, Along
  <2>2. QED BY <2>1
<1>2. ASSUME NEW m \in 1..n, m - 1 \in M PROVE m \in M
  <2>1. PICK f \in [0..(m - 1) -> S] : Along(m - 1, f)
    BY <1>2
  <2> DEFINE g == [i \in 0..m |-> IF i = m THEN next[m][f[m - 1]] ELSE f[i]]
  <2>2. next[m][f[m - 1]] \in S
    <3>1. f[m - 1] \in S
      BY <2>1
    <3>2. QED BY <3>1
  <2>3. g \in [0..m -> S]
    BY <2>1, <2>2
  <2>4. Along(m, g)
    <3>1. g[0] = first
      BY <2>1
    <3>2. ASSUME NEW i \in 1..m PROVE g[i] = next[i][g[i - 1]]
      <4>1. g[i - 1] = f[i - 1]
        OBVIOUS
      <4>2. CASE i = m
        <5>1. g[m] = next[m][f[m - 1]]
          OBVIOUS
        <5> HIDE DEF g
        <5>2. QED BY <4>1, <4>2, <5>1
      <4>3. CASE i # m
        <5>1. i \in 1..(m - 1) /\ g[i] = f[i]
          BY <4>3
        <5>2. QED BY <2>1, <4>1, <5>1
      <4>4. QED BY <4>2, <4>3
    <3>3. QED BY <3>1, <3>2
  <2> HIDE DEF g, Along
  <2>5. QED BY <2>3, <2>4
<1> HIDE DEF M
<1>3. n \in M
  <2>1. \A m \in 0..n : m \in M
    BY <1>1, <1>2, InductionUpTo, Zenon
  <2>2. QED BY <2>1
<1>4. QED BY <1>3 DEF M, Follows

\* Two functions that start alike and go on alike are alike.
GoAlike(f, g, n) == f[0] = g[0] /\ \A i \in 1..n : f[i - 1] = g[i - 1] => f[i] = g[i]
Alike(f, g, n) == \A i \in 0..n : f[i] = g[i]

LEMMA SameAlong ==
  ASSUME NEW n \in Nat, NEW f, NEW g, GoAlike(f, g, n)
  PROVE  Alike(f, g, n)
<1> DEFINE M == {i \in 0..n : f[i] = g[i]}
<1>1. 0 \in M /\ \A i \in 1..n : i - 1 \in M => i \in M
  BY DEF GoAlike
<1> HIDE DEF M
<1>2. \A i \in 0..n : i \in M
  BY <1>1, InductionUpTo
<1>3. QED BY <1>2 DEF M, Alike

-----------------------------------------------------------------------------
(* Byte counts *)

\* A sequence is a function on its positions, and so are its beginnings.
LEMMA SeqFunction ==
  ASSUME NEW S, NEW s \in Seq(S)
  PROVE  Len(s) \in Nat /\ s \in [1..Len(s) -> S]
BY SMT

LEMMA Beginning ==
  ASSUME NEW S, NEW s \in Seq(S), NEW k \in 0..Len(s)
  PROVE  /\ SubSeq(s, 1, k) \in Seq(S) /\ Len(SubSeq(s, 1, k)) = k
         /\ \A i \in 1..k : SubSeq(s, 1, k)[i] = s[i]
BY SMT

LEMMA WidthType == ASSUME NEW c \in Nat PROVE Utf8Width(c) \in 1..4
BY DEF Utf8Width

\* B[i] is the number of bytes of the first i characters of text.
CountsBytes(B, text) ==
  /\ B \in [0..Len(text) -> Nat] /\ B[0] = 0
  /\ \A i \in 1..Len(text) : B[i] = B[i - 1] + Utf8Width(text[i])

\* The loop of getUtf8ByteLength ends, with the last of these numbers.
LEMMA CountsExist ==
  ASSUME NEW text \in Seq(Nat)
  PROVE  \E B : CountsBytes(B, text) /\ ByteLength(text) = B[Len(text)]
<1> DEFINE n == Len(text)
           next == [i \in 1..n |-> [b \in Nat |-> b + Utf8Width(text[i])]]
           Rec(f) == f = [i \in 0..n |-> IF i = 0 THEN 0 ELSE f[i - 1] + Utf8Width(text[i])]
           B == CHOOSE f : Rec(f)
<1>1. n \in Nat /\ \A i \in 1..n : text[i] \in Nat /\ Utf8Width(text[i]) \in Nat
  <2>1. n \in Nat /\ text \in [1..n -> Nat]
    BY SeqFunction
  <2>2. ASSUME NEW i \in 1..n PROVE text[i] \in Nat /\ Utf8Width(text[i]) \in Nat
    <3>1. text[i] \in Nat
      BY <2>1
    <3>2. Utf8Width(text[i]) \in 1..4
      BY <3>1, WidthType
    <3>3. QED BY <3>1, <3>2
  <2>3. QED BY <2>1, <2>2
<1>2. ByteLength(text) = B[n]
  BY DEF ByteLength
<1> HIDE DEF n
<1>3. next \in [1..n -> [Nat -> Nat]] /\ \A i \in 1..n, b \in Nat : next[i][b] = b + Utf8Width(text[i])
  BY <1>1
<1> HIDE DEF next
<1>4. PICK f \in [0..n -> Nat] : Follows(f, n, 0, next)
  <2>1. n \in Nat /\ 0 \in Nat /\ next \in [1..n -> [Nat -> Nat]]
    BY <1>1, <1>3
  <2>2. QED BY <2>1, Recursion
<1>5. ASSUME NEW i \in 1..n PROVE f[i - 1] \in Nat /\ f[i] = f[i - 1] + Utf8Width(text[i])
  <2>1. f[i - 1] \in Nat
    BY <1>1, <1>4
  <2>2. QED BY <1>3, <1>4, <2>1 DEF Follows
<1>6. Rec(f)
  <2>1. \A i \in 0..n : f[i] = IF i = 0 THEN 0 ELSE f[i - 1] + Utf8Width(text[i])
    BY <1>1, <1>4, <1>5 DEF Follows
  <2>2. QED BY <1>4, <2>1
<1>7. Rec(B)
  <2> HIDE DEF Rec
  <2>1. QED BY <1>6
<1>8. B[0] = 0 /\ \A i \in 1..n : B[i] = B[i - 1] + Utf8Width(text[i])
  <2> HIDE DEF B
  <2>1. QED BY <1>1, <1>7
<1>9. B = [i \in 0..n |-> B[i]]
  <2> HIDE DEF B
  <2>1. QED BY <1>7
<1> HIDE DEF B, Rec
<1>10. \A i \in 0..n : B[i] = f[i]
  <2>1. GoAlike(B, f, n)
    BY <1>4, <1>5, <1>8 DEF Follows, GoAlike
  <2>2. QED BY <1>1, <2>1, SameAlong DEF Alike
<1>11. B \in [0..n -> Nat]
  BY <1>4, <1>9, <1>10
<1>12. QED BY <1>2, <1>8, <1>11 DEF CountsBytes, n

\* They also count the bytes of each beginning of the text.
LEMMA CountsBeginnings ==
  ASSUME NEW text \in Seq(Nat), NEW B, CountsBytes(B, text), NEW k \in 0..Len(text)
  PROVE  ByteLength(SubSeq(text, 1, k)) = B[k]
<1> DEFINE part == SubSeq(text, 1, k)
<1>1. part \in Seq(Nat) /\ Len(part) = k /\ \A i \in 1..k : part[i] = text[i]
  BY Beginning
<1>2. k \in Nat /\ k <= Len(text) /\ Len(text) \in Nat
  BY SeqFunction
<1> HIDE DEF part
<1>3. PICK A : CountsBytes(A, part) /\ ByteLength(part) = A[k]
  BY <1>1, CountsExist
<1>4. GoAlike(A, B, k)
  <2>1. A[0] = 0 /\ \A i \in 1..k : A[i] = A[i - 1] + Utf8Width(part[i])
    BY <1>1, <1>3 DEF CountsBytes
  <2>2. B[0] = 0 /\ \A i \in 1..k : B[i] = B[i - 1] + Utf8Width(text[i])
    BY <1>2 DEF CountsBytes
  <2>3. QED BY <1>1, <2>1, <2>2 DEF GoAlike
<1>5. \A i \in 0..k : A[i] = B[i]
  BY <1>2, <1>4, SameAlong DEF Alike
<1>6. QED BY <1>2, <1>3, <1>5 DEF part

\* More characters are more bytes.
LEMMA CountsGrow ==
  ASSUME NEW text \in Seq(Nat), NEW B, CountsBytes(B, text), NEW i \in 0..Len(text),
         NEW j \in 0..Len(text), i < j
  PROVE  B[i] < B[j]
<1> DEFINE n == Len(text)
           M == {d \in Nat : i + 1 + d <= n => B[i] < B[i + 1 + d]}
<1>1. n \in Nat /\ B \in [0..n -> Nat]
  BY SeqFunction DEF CountsBytes
<1>2. \A k \in 1..n : B[k - 1] \in Nat /\ B[k] \in Nat /\ B[k - 1] < B[k]
  <2>1. SUFFICES ASSUME NEW k \in 1..n PROVE B[k - 1] \in Nat /\ B[k] \in Nat /\ B[k - 1] < B[k]
    OBVIOUS
  <2>2. text[k] \in Nat
    BY SeqFunction
  <2>3. Utf8Width(text[k]) \in 1..4
    BY <2>2, WidthType
  <2>4. B[k] = B[k - 1] + Utf8Width(text[k])
    BY DEF CountsBytes
  <2>5. B[k - 1] \in Nat /\ B[k] \in Nat
    <3>1. k \in 0..n /\ k - 1 \in 0..n
      BY <1>1
    <3> HIDE DEF n
    <3>2. QED BY <1>1, <3>1
  <2>6. QED BY <2>3, <2>4, <2>5
<1> HIDE DEF n
<1>3. i \in 0..n /\ j \in 0..n
  BY DEF n
<1>4. 0 \in M
  <2>1. i + 1 <= n => B[i] < B[i + 1]
    BY <1>1, <1>2, <1>3
  <2>2. QED BY <1>3, <2>1
<1>5. ASSUME NEW d \in 1..n, d - 1 \in M PROVE d \in M
  <2>1. CASE i + 1 + d <= n
    <3>1. i + d \in 1..n /\ i + 1 + d \in 1..n /\ i + 1 + (d - 1) = i + d /\ (i + 1 + d) - 1 = i + d
      BY <1>1, <1>3, <2>1
    <3>2. B[i] < B[i + d] /\ B[i + d] < B[i + 1 + d]
      BY <1>2, <1>5, <2>1, <3>1
    <3>3. B[i] \in Nat /\ B[i + d] \in Nat /\ B[i + 1 + d] \in Nat
      BY <1>1, <1>3, <3>1
    <3>4. QED BY <3>2, <3>3
  <2>2. QED BY <2>1
<1> HIDE DEF M
<1>6. j - i - 1 \in M
  <2>1. \A d \in 0..n : d \in M
    BY <1>1, <1>4, <1>5, InductionUpTo, Zenon
  <2>2. j - i - 1 \in 0..n
    BY <1>1, <1>3
  <2>3. QED BY <2>1, <2>2
<1>7. i + 1 + (j - i - 1) = j
  BY <1>3
<1>8. QED BY <1>3, <1>6, <1>7 DEF M

-----------------------------------------------------------------------------
(* The clamp *)

Progress == [text : Seq(Nat), bytes : Nat, full : BOOLEAN]

LEMMA TakenType ==
  ASSUME NEW done \in Progress, NEW c \in Nat, NEW max \in Nat
  PROVE  Taken(done, c, max) \in Progress
<1>1. Utf8Width(c) \in Nat
  BY WidthType
<1> DEFINE text == Append(done.text, c)
           bytes == done.bytes + Utf8Width(c)
<1>2. text \in Seq(Nat) /\ bytes \in Nat
  BY <1>1 DEF Progress
<1>3. \/ Taken(done, c, max) = [done EXCEPT !.full = TRUE]
      \/ Taken(done, c, max) = [done EXCEPT !.text = text, !.bytes = bytes]
  BY DEF Taken
<1> HIDE DEF text, bytes
<1>4. QED BY <1>2, <1>3 DEF Progress

\* D[i] is what the loop of clampUtf8Text has after i characters of text.
Clamps(D, text, max) ==
  /\ D \in [0..Len(text) -> Progress] /\ D[0] = Nothing
  /\ \A i \in 1..Len(text) : D[i] = Taken(D[i - 1], text[i], max)

\* The loop ends, with the last of these.
LEMMA ClampsExist ==
  ASSUME NEW text \in Seq(Nat), NEW max \in Nat
  PROVE  \E D : Clamps(D, text, max) /\ Clamped(text, max) = D[Len(text)]
<1> DEFINE n == Len(text)
           next == [i \in 1..n |-> [d \in Progress |-> Taken(d, text[i], max)]]
           Rec(f) == f = [i \in 0..n |-> IF i = 0 THEN Nothing ELSE Taken(f[i - 1], text[i], max)]
           D == CHOOSE f : Rec(f)
<1>1. n \in Nat /\ \A i \in 1..n : text[i] \in Nat
  <2>1. n \in Nat /\ text \in [1..n -> Nat]
    BY SeqFunction
  <2> HIDE DEF n
  <2>2. QED BY <2>1
<1>2. Clamped(text, max) = D[n]
  BY DEF Clamped
<1> HIDE DEF n
<1>3. /\ next \in [1..n -> [Progress -> Progress]]
      /\ \A i \in 1..n, d \in Progress : next[i][d] = Taken(d, text[i], max)
  <2>1. \A i \in 1..n, d \in Progress : Taken(d, text[i], max) \in Progress
    BY <1>1, TakenType
  <2>2. QED BY <2>1
<1> HIDE DEF next
<1>4. PICK f \in [0..n -> Progress] : Follows(f, n, Nothing, next)
  <2>1. Nothing \in Progress
    BY DEF Nothing, Progress
  <2>2. QED BY <1>1, <1>3, <2>1, Recursion
<1>5. ASSUME NEW i \in 1..n PROVE f[i] = Taken(f[i - 1], text[i], max)
  <2>1. f[i - 1] \in Progress
    BY <1>1, <1>4
  <2>2. QED BY <1>3, <1>4, <2>1 DEF Follows
<1>6. Rec(f)
  <2>1. \A i \in 0..n : f[i] = IF i = 0 THEN Nothing ELSE Taken(f[i - 1], text[i], max)
    BY <1>1, <1>4, <1>5 DEF Follows
  <2>2. QED BY <1>4, <2>1
<1>7. Rec(D)
  <2> HIDE DEF Rec
  <2>1. QED BY <1>6
<1>8. D[0] = Nothing /\ \A i \in 1..n : D[i] = Taken(D[i - 1], text[i], max)
  <2> HIDE DEF D
  <2>1. QED BY <1>1, <1>7
<1>9. D = [i \in 0..n |-> D[i]]
  <2> HIDE DEF D
  <2>1. QED BY <1>7
<1> HIDE DEF D, Rec
<1>10. \A i \in 0..n : D[i] = f[i]
  <2>1. GoAlike(D, f, n)
    BY <1>4, <1>5, <1>8 DEF Follows, GoAlike
  <2>2. QED BY <1>1, <2>1, SameAlong DEF Alike
<1>11. D \in [0..n -> Progress]
  BY <1>4, <1>9, <1>10
<1>12. QED BY <1>2, <1>8, <1>11 DEF Clamps, n

\* One more character: the beginning that was kept grows by it, if it fits.
LEMMA BeginningGrows ==
  ASSUME NEW text \in Seq(Nat), NEW i \in 1..Len(text)
  PROVE  Append(SubSeq(text, 1, i - 1), text[i]) = SubSeq(text, 1, i)
<1>1. Len(text) \in Nat /\ i - 1 \in 0..Len(text) /\ i \in 0..Len(text)
  BY SeqFunction
<1>2. /\ SubSeq(text, 1, i - 1) \in Seq(Nat) /\ Len(SubSeq(text, 1, i - 1)) = i - 1
      /\ \A j \in 1..(i - 1) : SubSeq(text, 1, i - 1)[j] = text[j]
  BY <1>1, Beginning
<1>3. /\ SubSeq(text, 1, i) \in Seq(Nat) /\ Len(SubSeq(text, 1, i)) = i
      /\ \A j \in 1..i : SubSeq(text, 1, i)[j] = text[j]
  BY <1>1, Beginning
<1> DEFINE a == SubSeq(text, 1, i - 1)
           b == SubSeq(text, 1, i)
<1> HIDE DEF a, b
<1>4. text[i] \in Nat
  BY SeqFunction
<1>5. Append(a, text[i]) = b
  BY <1>1, <1>2, <1>3, <1>4 DEF a, b
<1>6. QED BY <1>5 DEF a, b

\* After i characters the clamp has kept the first k, within the limit: all of
\* them, or as many as fit.
Kept(D, B, text, max, i, k) ==
  /\ D[i].text = SubSeq(text, 1, k) /\ D[i].bytes = B[k] /\ B[k] <= max
  /\ D[i].full <=> k < i
  /\ k < i => B[k + 1] > max

LEMMA ClampsAlong ==
  ASSUME NEW text \in Seq(Nat), NEW max \in Nat, NEW B, CountsBytes(B, text),
         NEW D, Clamps(D, text, max), NEW i \in 0..Len(text)
  PROVE  \E k \in 0..i : Kept(D, B, text, max, i, k)
<1> DEFINE n == Len(text)
           Held(j, k) == Kept(D, B, text, max, j, k)
           M == {j \in 0..n : \E k \in 0..j : Held(j, k)}
<1>1. n \in Nat
  BY SeqFunction
<1>2. 0 \in M
  <2>1. SubSeq(text, 1, 0) = <<>>
    OBVIOUS
  <2>2. Held(0, 0)
    BY <2>1 DEF Kept, Clamps, CountsBytes, Nothing
  <2> HIDE DEF Held
  <2>3. QED BY <1>1, <2>2
<1>3. ASSUME NEW j \in 1..n, j - 1 \in M PROVE j \in M
  <2>1. PICK k \in 0..(j - 1) : Held(j - 1, k)
    BY <1>3
  <2>2. /\ D[j] = Taken(D[j - 1], text[j], max) /\ D[j - 1] \in Progress
        /\ B[j] = B[j - 1] + Utf8Width(text[j])
    <3>1. j - 1 \in 0..n
      OBVIOUS
    <3>2. QED BY <3>1 DEF Clamps, CountsBytes
  <2>3. CASE D[j - 1].full
    <3>1. k < j - 1
      BY <2>1, <2>3 DEF Kept
    <3>2. D[j] = [D[j - 1] EXCEPT !.full = TRUE]
      BY <2>2, <2>3 DEF Taken
    <3>3. D[j].text = D[j - 1].text /\ D[j].bytes = D[j - 1].bytes /\ D[j].full
      BY <2>2, <3>2 DEF Progress
    <3>4. Held(j, k) /\ k \in 0..j
      BY <2>1, <3>1, <3>3 DEF Kept
    <3> HIDE DEF Held
    <3>5. QED BY <3>4
  <2>4. CASE ~D[j - 1].full /\ B[j] > max
    <3>1. k = j - 1
      BY <2>1, <2>4 DEF Kept
    <3>2. D[j] = [D[j - 1] EXCEPT !.full = TRUE]
      BY <2>1, <2>2, <2>4, <3>1 DEF Kept, Taken
    <3>3. D[j].text = D[j - 1].text /\ D[j].bytes = D[j - 1].bytes /\ D[j].full
      BY <2>2, <3>2 DEF Progress
    <3>4. Held(j, k) /\ k \in 0..j
      BY <2>1, <2>4, <3>1, <3>3 DEF Kept
    <3> HIDE DEF Held
    <3>5. QED BY <3>4
  <2>5. CASE ~D[j - 1].full /\ ~(B[j] > max)
    <3>1. k = j - 1
      BY <2>1, <2>5 DEF Kept
    <3> DEFINE longer == Append(D[j - 1].text, text[j])
    <3>2. D[j] = [D[j - 1] EXCEPT !.text = longer, !.bytes = B[j]]
      BY <2>1, <2>2, <2>5, <3>1 DEF Kept, Taken
    <3>3. longer = SubSeq(text, 1, j)
      BY <2>1, <3>1, BeginningGrows DEF Kept
    <3> HIDE DEF longer
    <3>4. D[j].text = longer /\ D[j].bytes = B[j] /\ ~D[j].full
      BY <2>2, <2>5, <3>2 DEF Progress
    <3>5. B[j] <= max
      <4>1. B[j] \in Nat
        BY DEF CountsBytes
      <4>2. QED BY <2>5, <4>1
    <3>6. Held(j, j) /\ j \in 0..j
      BY <3>3, <3>4, <3>5 DEF Kept
    <3> HIDE DEF Held
    <3>7. QED BY <3>6
  <2>6. QED BY <2>3, <2>4, <2>5
<1> HIDE DEF M
<1>4. i \in M
  <2>1. \A j \in 0..n : j \in M
    BY <1>1, <1>2, <1>3, InductionUpTo, Zenon
  <2>2. QED BY <2>1
<1>5. QED BY <1>4 DEF M

\* The first k characters are the longest beginning of text within max bytes.
Longest(text, max, k) ==
  /\ ByteLength(SubSeq(text, 1, k)) <= max
  /\ k < Len(text) => ByteLength(SubSeq(text, 1, k + 1)) > max

\* There is one such beginning only.
LEMMA LongestUnique ==
  ASSUME NEW text \in Seq(Nat), NEW max \in Nat, NEW j \in 0..Len(text), NEW k \in 0..Len(text),
         Longest(text, max, j), Longest(text, max, k)
  PROVE  j = k
<1>1. PICK B : CountsBytes(B, text)
  BY CountsExist
<1>2. ASSUME NEW a \in 0..Len(text), NEW b \in 0..Len(text), a < b,
             Longest(text, max, a), Longest(text, max, b)
      PROVE  FALSE
  <2>1. Len(text) \in Nat
    BY SeqFunction
  <2>2. a + 1 \in 0..Len(text) /\ a < Len(text)
    BY <1>2, <2>1
  <2>3. B[a + 1] > max /\ B[b] <= max
    BY <1>1, <1>2, <2>2, CountsBeginnings DEF Longest
  <2>4. a + 1 = b \/ B[a + 1] < B[b]
    BY <1>1, <1>2, <2>1, <2>2, CountsGrow
  <2>5. B[a + 1] \in Nat /\ B[b] \in Nat
    BY <1>1, <2>2 DEF CountsBytes
  <2>6. QED BY <2>3, <2>4, <2>5
<1>3. Len(text) \in Nat /\ j \in Nat /\ k \in Nat
  BY SeqFunction
<1>4. j < k \/ k < j \/ j = k
  BY <1>3
<1>5. QED BY <1>2, <1>4

\* The clamp keeps the longest beginning of a text that fits, and counts it.
THEOREM ClampKeepsLongest ==
  ASSUME NEW text \in Seq(Nat), NEW max \in Nat
  PROVE  /\ Clamped(text, max).text \in Seq(Nat)
         /\ Clamped(text, max).bytes = ByteLength(Clamped(text, max).text)
         /\ Clamped(text, max).bytes \in 0..max
         /\ \E k \in 0..Len(text) : /\ Clamped(text, max).text = SubSeq(text, 1, k)
                                    /\ Longest(text, max, k)
<1> DEFINE n == Len(text)
<1>1. n \in Nat
  BY SeqFunction
<1>2. PICK B : CountsBytes(B, text)
  BY CountsExist
<1>3. PICK D : Clamps(D, text, max) /\ Clamped(text, max) = D[n]
  BY ClampsExist
<1>4. PICK k \in 0..n : Kept(D, B, text, max, n, k)
  <2>1. n \in 0..Len(text)
    BY <1>1
  <2>2. QED BY <1>2, <1>3, <2>1, ClampsAlong
<1>5. ByteLength(SubSeq(text, 1, k)) = B[k]
  BY <1>2, CountsBeginnings
<1>6. Longest(text, max, k)
  <2>1. CASE k < n
    <3>1. k + 1 \in 0..n
      BY <1>1, <2>1
    <3>2. ByteLength(SubSeq(text, 1, k + 1)) = B[k + 1]
      BY <1>2, <3>1, CountsBeginnings
    <3>3. QED BY <1>4, <1>5, <2>1, <3>2 DEF Longest, Kept
  <2>2. CASE ~(k < n)
    BY <1>4, <1>5, <2>2 DEF Longest, Kept
  <2>3. QED BY <2>1, <2>2
<1>7. B[k] \in Nat
  BY <1>2 DEF CountsBytes
<1>8. SubSeq(text, 1, k) \in Seq(Nat)
  BY Beginning
<1>9. Clamped(text, max).text = SubSeq(text, 1, k) /\ Clamped(text, max).bytes = B[k]
  BY <1>3, <1>4 DEF Kept
<1>10. B[k] \in 0..max
  BY <1>4, <1>7 DEF Kept
<1>11. QED BY <1>5, <1>6, <1>8, <1>9, <1>10

-----------------------------------------------------------------------------
(* base64url *)

\* The number at position k; beyond the end there are only 0 bits.
Digit(seq, k) == IF k <= Len(seq) THEN seq[k] ELSE 0

\* The bits of one or two bytes that make a digit.
LEMMA DigitOfBytes ==
  ASSUME NEW x \in 0..255, NEW y \in 0..255
  PROVE  /\ ((x * 256 + y) \div 1024) % 64 = x \div 4
         /\ ((x * 256 + y) \div 16) % 64 = (x % 4) * 16 + y \div 16
         /\ ((x * 256 + y) \div 64) % 64 = (x % 16) * 4 + y \div 64
         /\ ((x * 256 + y) \div 256) % 64 = x % 64
<1>1. (x * 256 + y) \div 1024 = x \div 4
  OBVIOUS
<1>2. (x * 256 + y) \div 16 = x * 16 + y \div 16
  OBVIOUS
<1>3. (x * 256 + y) \div 64 = x * 4 + y \div 64
  OBVIOUS
<1>4. (x * 256 + y) \div 256 = x
  OBVIOUS
<1>5. (x \div 4) % 64 = x \div 4
  OBVIOUS
<1>6. (x * 16 + y \div 16) % 64 = (x % 4) * 16 + y \div 16
  <2>1. y \div 16 \in 0..15
    OBVIOUS
  <2>2. \A d \in 0..15 : (x * 16 + d) % 64 = (x % 4) * 16 + d
    OBVIOUS
  <2>3. QED BY <2>1, <2>2
<1>7. (x * 4 + y \div 64) % 64 = (x % 16) * 4 + y \div 64
  <2>1. y \div 64 \in 0..3
    OBVIOUS
  <2>2. \A d \in 0..3 : (x * 4 + d) % 64 = (x % 16) * 4 + d
    OBVIOUS
  <2>3. QED BY <2>1, <2>2
<1>8. QED BY <1>1, <1>2, <1>3, <1>4, <1>5, <1>6, <1>7

\* The bits of two digits that make a byte.
LEMMA ByteOfDigits ==
  ASSUME NEW d \in 0..63, NEW e \in 0..63
  PROVE  /\ ((d * 64 + e) \div 16) % 256 = d * 4 + e \div 16
         /\ ((d * 64 + e) \div 4) % 256 = (d % 16) * 16 + e \div 4
         /\ ((d * 64 + e) \div 1) % 256 = (d % 4) * 64 + e
<1>1. (d * 64 + e) \div 16 = d * 4 + e \div 16
  OBVIOUS
<1>2. (d * 64 + e) \div 4 = d * 16 + e \div 4
  OBVIOUS
<1>3. (d * 64 + e) \div 1 = d * 64 + e
  OBVIOUS
<1>4. (d * 4 + e \div 16) % 256 = d * 4 + e \div 16
  OBVIOUS
<1>5. (d * 16 + e \div 4) % 256 = (d % 16) * 16 + e \div 4
  <2>1. e \div 4 \in 0..15
    OBVIOUS
  <2>2. \A c \in 0..15 : (d * 16 + c) % 256 = (d % 16) * 16 + c
    OBVIOUS
  <2>3. QED BY <2>1, <2>2
<1>6. (d * 64 + e) % 256 = (d % 4) * 64 + e
  OBVIOUS
<1>7. QED BY <1>1, <1>2, <1>3, <1>4, <1>5, <1>6

\* The powers of two that Regrouped needs.
LEMMA Powers ==
  /\ 2^0 = 1 /\ 2^4 = 16 /\ 2^6 = 64 /\ 2^8 = 256 /\ 2^10 = 1024
  /\ 2^2 = 4
BY SMT

\* The digits of a key, in groups of four for three bytes.
LEMMA DigitsInGroups ==
  ASSUME NEW n \in Nat, NEW bytes \in [1..n -> 0..255], NEW q \in Nat
  PROVE  LET x == Digit(bytes, 3 * q + 1)
             y == Digit(bytes, 3 * q + 2)
             z == Digit(bytes, 3 * q + 3)
             d == ToDigits(bytes)
             m == (8 * n + 5) \div 6
         IN  /\ 4 * q + 1 <= m => d[4 * q + 1] = x \div 4
             /\ 4 * q + 2 <= m => d[4 * q + 2] = (x % 4) * 16 + y \div 16
             /\ 4 * q + 3 <= m => d[4 * q + 3] = (y % 16) * 4 + z \div 64
             /\ 4 * q + 4 <= m => d[4 * q + 4] = z % 64
<1> DEFINE m == (8 * n + 5) \div 6
           Pair(k, e) == (Digit(bytes, k) * 256 + Digit(bytes, k + 1)) \div e
<1>1. Len(bytes) = n
  OBVIOUS
<1>2. \A k \in Nat \ {0} : Digit(bytes, k) \in 0..255
  BY <1>1 DEF Digit
<1>3. ASSUME NEW i \in 1..m, NEW k \in Nat \ {0}, NEW off \in {0, 2, 4, 6},
             (i - 1) * 6 = (k - 1) * 8 + off
      PROVE  ToDigits(bytes)[i] = Pair(k, 2^(10 - off)) % 64
  <2>1. ((i - 1) * 6) \div 8 + 1 = k /\ ((i - 1) * 6) % 8 = off
    BY <1>3
  <2>2. 2^6 = 64 /\ 2^8 = 256 /\ 2 * 8 - 6 - off = 10 - off
    BY Powers
  <2>3. ToDigits(bytes) = Regrouped(bytes, 8, 6, m)
    BY <1>1 DEF ToDigits
  <2>4. ToDigits(bytes)[i] = ((Digit(bytes, k) * 2^8 + Digit(bytes, k + 1)) \div 2^(2 * 8 - 6 - off)) % 2^6
    BY <2>1, <2>3 DEF Regrouped, Digit
  <2>5. QED BY <2>2, <2>4
<1> HIDE DEF m
<1>4. m \in Nat
  BY DEF m
<1>5. /\ 2^(10 - 0) = 1024 /\ 2^(10 - 6) = 16 /\ 2^(10 - 4) = 64 /\ 2^(10 - 2) = 256
  BY Powers
<1>6. /\ 4 * q + 1 <= m => ToDigits(bytes)[4 * q + 1] = Pair(3 * q + 1, 2^(10 - 0)) % 64
      /\ 4 * q + 2 <= m => ToDigits(bytes)[4 * q + 2] = Pair(3 * q + 1, 2^(10 - 6)) % 64
      /\ 4 * q + 3 <= m => ToDigits(bytes)[4 * q + 3] = Pair(3 * q + 2, 2^(10 - 4)) % 64
      /\ 4 * q + 4 <= m => ToDigits(bytes)[4 * q + 4] = Pair(3 * q + 3, 2^(10 - 2)) % 64
  <2> HIDE DEF Pair
  <2>1. \A c \in {1, 2, 3, 4} : 4 * q + c <= m => 4 * q + c \in 1..m
    BY <1>4
  <2>2. /\ (4 * q + 1 - 1) * 6 = (3 * q + 1 - 1) * 8 + 0
        /\ (4 * q + 2 - 1) * 6 = (3 * q + 1 - 1) * 8 + 6
        /\ (4 * q + 3 - 1) * 6 = (3 * q + 2 - 1) * 8 + 4
        /\ (4 * q + 4 - 1) * 6 = (3 * q + 3 - 1) * 8 + 2
    OBVIOUS
  <2>3. 3 * q + 1 \in Nat \ {0} /\ 3 * q + 2 \in Nat \ {0} /\ 3 * q + 3 \in Nat \ {0}
    OBVIOUS
  <2>4. QED BY <1>3, <2>1, <2>2, <2>3
<1> DEFINE x == Digit(bytes, 3 * q + 1)
           y == Digit(bytes, 3 * q + 2)
           z == Digit(bytes, 3 * q + 3)
           w == Digit(bytes, 3 * q + 4)
<1>7. x \in 0..255 /\ y \in 0..255 /\ z \in 0..255 /\ w \in 0..255
  <2>1. /\ 3 * q + 1 \in Nat \ {0} /\ 3 * q + 2 \in Nat \ {0}
        /\ 3 * q + 3 \in Nat \ {0} /\ 3 * q + 4 \in Nat \ {0}
    OBVIOUS
  <2>2. QED BY <1>2, <2>1, Zenon
<1>8. /\ Pair(3 * q + 1, 1024) = (x * 256 + y) \div 1024
      /\ Pair(3 * q + 1, 16) = (x * 256 + y) \div 16
      /\ Pair(3 * q + 2, 64) = (y * 256 + z) \div 64
      /\ Pair(3 * q + 3, 256) = (z * 256 + w) \div 256
  <2>1. 3 * q + 1 + 1 = 3 * q + 2 /\ 3 * q + 2 + 1 = 3 * q + 3 /\ 3 * q + 3 + 1 = 3 * q + 4
    OBVIOUS
  <2>2. QED BY <2>1
<1> HIDE DEF Pair, x, y, z, w
<1>9. /\ Pair(3 * q + 1, 1024) % 64 = x \div 4
      /\ Pair(3 * q + 1, 16) % 64 = (x % 4) * 16 + y \div 16
      /\ Pair(3 * q + 2, 64) % 64 = (y % 16) * 4 + z \div 64
      /\ Pair(3 * q + 3, 256) % 64 = z % 64
  <2>1. /\ ((x * 256 + y) \div 1024) % 64 = x \div 4
        /\ ((x * 256 + y) \div 16) % 64 = (x % 4) * 16 + y \div 16
    BY <1>7, DigitOfBytes
  <2>2. ((y * 256 + z) \div 64) % 64 = (y % 16) * 4 + z \div 64
    BY <1>7, DigitOfBytes
  <2>3. ((z * 256 + w) \div 256) % 64 = z % 64
    BY <1>7, DigitOfBytes
  <2>4. QED BY <1>8, <2>1, <2>2, <2>3
<1>10. QED BY <1>5, <1>6, <1>9 DEF x, y, z, m

\* How many digits n bytes make, and how many bytes those make.
LEMMA Counts ==
  ASSUME NEW n \in Nat
  PROVE  LET m == (8 * n + 5) \div 6
         IN  m \in Nat /\ m % 4 # 1 /\ (6 * m) \div 8 = n
<1> DEFINE q == n \div 3
           r == n % 3
<1>1. q \in Nat /\ r \in 0..2 /\ n = 3 * q + r
  OBVIOUS
<1> HIDE DEF q, r
<1>2. CASE r = 0
  <2>1. (8 * n + 5) \div 6 = 4 * q
    BY <1>1, <1>2
  <2>2. QED BY <1>1, <1>2, <2>1
<1>3. CASE r = 1
  <2>1. (8 * n + 5) \div 6 = 4 * q + 2
    BY <1>1, <1>3
  <2>2. QED BY <1>1, <1>3, <2>1
<1>4. CASE r = 2
  <2>1. (8 * n + 5) \div 6 = 4 * q + 3
    BY <1>1, <1>4
  <2>2. QED BY <1>1, <1>4, <2>1
<1>5. QED BY <1>1, <1>2, <1>3, <1>4

\* The digits of a key are digits, and as many as importKeyFromBase64Url takes.
LEMMA BytesMakeDigits ==
  ASSUME NEW n \in Nat, NEW bytes \in [1..n -> 0..255]
  PROVE  /\ ToDigits(bytes) \in [1..((8 * n + 5) \div 6) -> 0..63]
         /\ Len(ToDigits(bytes)) = (8 * n + 5) \div 6
<1> DEFINE m == (8 * n + 5) \div 6
           d == ToDigits(bytes)
<1>1. Len(bytes) = n
  OBVIOUS
<1>2. m \in Nat /\ m % 4 # 1 /\ (6 * m) \div 8 = n
  BY Counts
<1>3. d = [i \in 1..m |-> d[i]]
  BY <1>1 DEF ToDigits, Regrouped
<1>4. ASSUME NEW i \in 1..m PROVE d[i] \in 0..63
  <2> DEFINE q == (i - 1) \div 4
             x == Digit(bytes, 3 * q + 1)
             y == Digit(bytes, 3 * q + 2)
             z == Digit(bytes, 3 * q + 3)
  <2>1. q \in Nat /\ i \in {4 * q + 1, 4 * q + 2, 4 * q + 3, 4 * q + 4} /\ i <= m
    BY <1>2
  <2>2. /\ 4 * q + 1 <= m => d[4 * q + 1] = x \div 4
        /\ 4 * q + 2 <= m => d[4 * q + 2] = (x % 4) * 16 + y \div 16
        /\ 4 * q + 3 <= m => d[4 * q + 3] = (y % 16) * 4 + z \div 64
        /\ 4 * q + 4 <= m => d[4 * q + 4] = z % 64
    <3> HIDE DEF q
    <3>1. QED BY <2>1, DigitsInGroups
  <2>3. x \in 0..255 /\ y \in 0..255 /\ z \in 0..255
    <3> HIDE DEF q
    <3>1. QED BY <1>1, <2>1 DEF Digit
  <2> HIDE DEF m, d, q, x, y, z
  <2>4. /\ x \div 4 \in 0..63 /\ (x % 4) * 16 + y \div 16 \in 0..63
        /\ (y % 16) * 4 + z \div 64 \in 0..63 /\ z % 64 \in 0..63
    BY <2>3
  <2>5. CASE i = 4 * q + 1
    BY <2>1, <2>2, <2>4, <2>5
  <2>6. CASE i = 4 * q + 2
    BY <2>1, <2>2, <2>4, <2>6
  <2>7. CASE i = 4 * q + 3
    BY <2>1, <2>2, <2>4, <2>7
  <2>8. CASE i = 4 * q + 4
    BY <2>1, <2>2, <2>4, <2>8
  <2>9. QED BY <2>1, <2>5, <2>6, <2>7, <2>8
<1> HIDE DEF m, d
<1>5. d \in [1..m -> 0..63] /\ Len(d) = m
  BY <1>2, <1>3, <1>4
<1>6. QED BY <1>5 DEF m, d

\* The bytes that digits make, in groups of three of four digits.
LEMMA BytesInGroups ==
  ASSUME NEW m \in Nat, NEW digits \in [1..m -> 0..63], NEW q \in Nat
  PROVE  LET d1 == Digit(digits, 4 * q + 1)
             d2 == Digit(digits, 4 * q + 2)
             d3 == Digit(digits, 4 * q + 3)
             d4 == Digit(digits, 4 * q + 4)
             b == ToBytes(digits)
             n == (6 * m) \div 8
         IN  /\ 3 * q + 1 <= n => b[3 * q + 1] = d1 * 4 + d2 \div 16
             /\ 3 * q + 2 <= n => b[3 * q + 2] = (d2 % 16) * 16 + d3 \div 4
             /\ 3 * q + 3 <= n => b[3 * q + 3] = (d3 % 4) * 64 + d4
<1> DEFINE n == (6 * m) \div 8
           Pair(k, e) == (Digit(digits, k) * 64 + Digit(digits, k + 1)) \div e
<1>1. Len(digits) = m
  OBVIOUS
<1>2. \A k \in Nat \ {0} : Digit(digits, k) \in 0..63
  BY <1>1 DEF Digit
<1>3. ASSUME NEW i \in 1..n, NEW k \in Nat \ {0}, NEW off \in {0, 2, 4},
             (i - 1) * 8 = (k - 1) * 6 + off
      PROVE  ToBytes(digits)[i] = Pair(k, 2^(4 - off)) % 256
  <2>1. ((i - 1) * 8) \div 6 + 1 = k /\ ((i - 1) * 8) % 6 = off
    BY <1>3
  <2>2. 2^6 = 64 /\ 2^8 = 256 /\ 2 * 6 - 8 - off = 4 - off
    BY Powers
  <2>3. ToBytes(digits) = Regrouped(digits, 6, 8, n)
    BY <1>1 DEF ToBytes
  <2>4. ToBytes(digits)[i] = ((Digit(digits, k) * 2^6 + Digit(digits, k + 1)) \div 2^(2 * 6 - 8 - off)) % 2^8
    BY <2>1, <2>3 DEF Regrouped, Digit
  <2>5. QED BY <2>2, <2>4
<1> HIDE DEF n
<1>4. n \in Nat
  BY DEF n
<1>5. /\ 2^(4 - 0) = 16 /\ 2^(4 - 2) = 4 /\ 2^(4 - 4) = 1
  BY Powers
<1>6. /\ 3 * q + 1 <= n => ToBytes(digits)[3 * q + 1] = Pair(4 * q + 1, 2^(4 - 0)) % 256
      /\ 3 * q + 2 <= n => ToBytes(digits)[3 * q + 2] = Pair(4 * q + 2, 2^(4 - 2)) % 256
      /\ 3 * q + 3 <= n => ToBytes(digits)[3 * q + 3] = Pair(4 * q + 3, 2^(4 - 4)) % 256
  <2> HIDE DEF Pair
  <2>1. \A c \in {1, 2, 3} : 3 * q + c <= n => 3 * q + c \in 1..n
    BY <1>4
  <2>2. /\ (3 * q + 1 - 1) * 8 = (4 * q + 1 - 1) * 6 + 0
        /\ (3 * q + 2 - 1) * 8 = (4 * q + 2 - 1) * 6 + 2
        /\ (3 * q + 3 - 1) * 8 = (4 * q + 3 - 1) * 6 + 4
    OBVIOUS
  <2>3. 4 * q + 1 \in Nat \ {0} /\ 4 * q + 2 \in Nat \ {0} /\ 4 * q + 3 \in Nat \ {0}
    OBVIOUS
  <2>4. QED BY <1>3, <2>1, <2>2, <2>3
<1> DEFINE d1 == Digit(digits, 4 * q + 1)
           d2 == Digit(digits, 4 * q + 2)
           d3 == Digit(digits, 4 * q + 3)
           d4 == Digit(digits, 4 * q + 4)
<1>7. d1 \in 0..63 /\ d2 \in 0..63 /\ d3 \in 0..63 /\ d4 \in 0..63
  <2>1. /\ 4 * q + 1 \in Nat \ {0} /\ 4 * q + 2 \in Nat \ {0}
        /\ 4 * q + 3 \in Nat \ {0} /\ 4 * q + 4 \in Nat \ {0}
    OBVIOUS
  <2>2. QED BY <1>2, <2>1, Zenon
<1>8. /\ Pair(4 * q + 1, 16) = (d1 * 64 + d2) \div 16
      /\ Pair(4 * q + 2, 4) = (d2 * 64 + d3) \div 4
      /\ Pair(4 * q + 3, 1) = (d3 * 64 + d4) \div 1
  <2>1. 4 * q + 1 + 1 = 4 * q + 2 /\ 4 * q + 2 + 1 = 4 * q + 3 /\ 4 * q + 3 + 1 = 4 * q + 4
    OBVIOUS
  <2>2. QED BY <2>1
<1> HIDE DEF Pair, d1, d2, d3, d4
<1>9. /\ Pair(4 * q + 1, 16) % 256 = d1 * 4 + d2 \div 16
      /\ Pair(4 * q + 2, 4) % 256 = (d2 % 16) * 16 + d3 \div 4
      /\ Pair(4 * q + 3, 1) % 256 = (d3 % 4) * 64 + d4
  <2>1. ((d1 * 64 + d2) \div 16) % 256 = d1 * 4 + d2 \div 16
    BY <1>7, ByteOfDigits
  <2>2. ((d2 * 64 + d3) \div 4) % 256 = (d2 % 16) * 16 + d3 \div 4
    BY <1>7, ByteOfDigits
  <2>3. ((d3 * 64 + d4) \div 1) % 256 = (d3 % 4) * 64 + d4
    BY <1>7, ByteOfDigits
  <2>4. QED BY <1>8, <2>1, <2>2, <2>3
<1>10. QED BY <1>5, <1>6, <1>9 DEF d1, d2, d3, d4, n

\* Three bytes in four digits and back.
Returns(x, y, z) ==
  /\ (x \div 4) * 4 + ((x % 4) * 16 + y \div 16) \div 16 = x
  /\ (((x % 4) * 16 + y \div 16) % 16) * 16 + ((y % 16) * 4 + z \div 64) \div 4 = y
  /\ (((y % 16) * 4 + z \div 64) % 4) * 64 + (z % 64) = z

LEMMA GroupReturns ==
  ASSUME NEW x \in 0..255, NEW y \in 0..255, NEW z \in 0..255
  PROVE  Returns(x, y, z)
<1>1. y \div 16 \in 0..15 /\ z \div 64 \in 0..3 /\ x % 4 \in 0..3 /\ y % 16 \in 0..15
  OBVIOUS
<1>2. \A a \in 0..3, b \in 0..15 : (a * 16 + b) \div 16 = a /\ (a * 16 + b) % 16 = b
  OBVIOUS
<1>3. \A a \in 0..15, b \in 0..3 : (a * 4 + b) \div 4 = a /\ (a * 4 + b) % 4 = b
  OBVIOUS
<1>4. /\ (x \div 4) * 4 + (x % 4) = x /\ (y \div 16) * 16 + (y % 16) = y
      /\ (z \div 64) * 64 + (z % 64) = z
  <2>1. (x \div 4) * 4 + (x % 4) = x
    OBVIOUS
  <2>2. (y \div 16) * 16 + (y % 16) = y
    OBVIOUS
  <2>3. (z \div 64) * 64 + (z % 64) = z
    OBVIOUS
  <2>4. QED BY <2>1, <2>2, <2>3
<1>5. /\ ((x % 4) * 16 + y \div 16) \div 16 = x % 4
      /\ ((x % 4) * 16 + y \div 16) % 16 = y \div 16
      /\ ((y % 16) * 4 + z \div 64) \div 4 = y % 16
      /\ ((y % 16) * 4 + z \div 64) % 4 = z \div 64
  BY <1>1, <1>2, <1>3
<1>6. QED BY <1>4, <1>5 DEF Returns

\* Bytes of any number are read back from their digits.
LEMMA DigitsReturn ==
  ASSUME NEW n \in Nat, NEW bytes \in [1..n -> 0..255]
  PROVE  ToBytes(ToDigits(bytes)) = bytes
<1> DEFINE m == (8 * n + 5) \div 6
           d == ToDigits(bytes)
           b == ToBytes(d)
<1>1. /\ d \in [1..m -> 0..63] /\ Len(d) = m
      /\ m \in Nat /\ m % 4 # 1 /\ (6 * m) \div 8 = n
  <2>1. d \in [1..m -> 0..63] /\ Len(d) = m
    BY BytesMakeDigits, Zenon
  <2> HIDE DEF d
  <2>2. QED BY <2>1, Counts
<1>2. Len(bytes) = n
  OBVIOUS
<1>3. b = [j \in 1..n |-> b[j]]
  <2> HIDE DEF d, m
  <2>1. b = Regrouped(d, 6, 8, n)
    BY <1>1 DEF ToBytes
  <2>2. QED BY <2>1 DEF Regrouped
<1>4. ASSUME NEW j \in 1..n PROVE b[j] = bytes[j]
  <2> DEFINE q == (j - 1) \div 3
             x == Digit(bytes, 3 * q + 1)
             y == Digit(bytes, 3 * q + 2)
             z == Digit(bytes, 3 * q + 3)
             d1 == Digit(d, 4 * q + 1)
             d2 == Digit(d, 4 * q + 2)
             d3 == Digit(d, 4 * q + 3)
             d4 == Digit(d, 4 * q + 4)
  <2>1. q \in Nat /\ j \in {3 * q + 1, 3 * q + 2, 3 * q + 3} /\ j <= n
    OBVIOUS
  <2> HIDE DEF q
  <2>2. /\ 4 * q + 1 <= m => d1 = x \div 4
        /\ 4 * q + 2 <= m => d2 = (x % 4) * 16 + y \div 16
        /\ 4 * q + 3 <= m => d3 = (y % 16) * 4 + z \div 64
        /\ 4 * q + 4 <= m => d4 = z % 64
    <3>1. /\ 4 * q + 1 <= m => d[4 * q + 1] = x \div 4
          /\ 4 * q + 2 <= m => d[4 * q + 2] = (x % 4) * 16 + y \div 16
          /\ 4 * q + 3 <= m => d[4 * q + 3] = (y % 16) * 4 + z \div 64
          /\ 4 * q + 4 <= m => d[4 * q + 4] = z % 64
      BY <2>1, DigitsInGroups
    <3> HIDE DEF d, m, x, y, z
    <3>2. QED BY <1>1, <3>1 DEF Digit
  <2>3. /\ 3 * q + 1 <= n => b[3 * q + 1] = d1 * 4 + d2 \div 16
        /\ 3 * q + 2 <= n => b[3 * q + 2] = (d2 % 16) * 16 + d3 \div 4
        /\ 3 * q + 3 <= n => b[3 * q + 3] = (d3 % 4) * 64 + d4
    <3> DEFINE count == (6 * m) \div 8
    <3> HIDE DEF d, m
    <3>1. /\ 3 * q + 1 <= count => b[3 * q + 1] = d1 * 4 + d2 \div 16
          /\ 3 * q + 2 <= count => b[3 * q + 2] = (d2 % 16) * 16 + d3 \div 4
          /\ 3 * q + 3 <= count => b[3 * q + 3] = (d3 % 4) * 64 + d4
      BY <1>1, <2>1, BytesInGroups
    <3>2. count = n
      BY <1>1
    <3>3. QED BY <3>1, <3>2
  <2>4. x \in 0..255 /\ y \in 0..255 /\ z \in 0..255
    BY <1>2, <2>1 DEF Digit
  <2>5. /\ j = 3 * q + 1 => x = bytes[j]
        /\ j = 3 * q + 2 => y = bytes[j]
        /\ j = 3 * q + 3 => z = bytes[j]
    BY <1>2, <2>1 DEF Digit
  <2>6. /\ j = 3 * q + 1 => 4 * q + 2 <= m
        /\ j = 3 * q + 2 => 4 * q + 3 <= m
        /\ j = 3 * q + 3 => 4 * q + 4 <= m
    BY <2>1
  <2> HIDE DEF b, d, m, x, y, z, d1, d2, d3, d4
  <2>back. Returns(x, y, z)
    BY <2>4, GroupReturns
  <2>7. CASE j = 3 * q + 1
    <3>1. b[j] = d1 * 4 + d2 \div 16 /\ d1 = x \div 4 /\ d2 = (x % 4) * 16 + y \div 16
      BY <1>1, <2>1, <2>2, <2>3, <2>6, <2>7
    <3>2. b[j] = x
      BY <2>back, <3>1 DEF Returns
    <3>3. QED BY <2>5, <2>7, <3>2
  <2>8. CASE j = 3 * q + 2
    <3>1. /\ b[j] = (d2 % 16) * 16 + d3 \div 4 /\ d2 = (x % 4) * 16 + y \div 16
          /\ d3 = (y % 16) * 4 + z \div 64
      BY <1>1, <2>1, <2>2, <2>3, <2>6, <2>8
    <3>2. b[j] = y
      BY <2>back, <3>1 DEF Returns
    <3>3. QED BY <2>5, <2>8, <3>2
  <2>9. CASE j = 3 * q + 3
    <3>1. b[j] = (d3 % 4) * 64 + d4 /\ d3 = (y % 16) * 4 + z \div 64 /\ d4 = z % 64
      BY <1>1, <2>1, <2>2, <2>3, <2>6, <2>9
    <3>2. d3 % 4 = ((y % 16) * 4 + z \div 64) % 4
      BY <3>1
    <3>3. b[j] = z
      BY <2>back, <3>1, <3>2 DEF Returns
    <3>4. QED BY <2>5, <2>9, <3>3
  <2>10. QED BY <2>1, <2>7, <2>8, <2>9
<1>5. b = bytes
  <2> HIDE DEF b
  <2>1. QED BY <1>3, <1>4
<1>6. QED BY <1>5

-----------------------------------------------------------------------------
(* The two alphabets and the padding *)

\* Characters that are appended to a text without them are removed again, and
\* nothing else is.
LEMMA WithoutTail ==
  ASSUME NEW s \in Seq(Nat), NEW c \in Nat, NEW k \in Nat, \A i \in 1..Len(s) : s[i] # c
  PROVE  Without(s \o [i \in 1..k |-> c], c) = s
<1> DEFINE u == s \o [i \in 1..k |-> c]
           n == Len(u)
           Rec(f) == f = [i \in 0..n |-> IF i = 0 THEN <<>>
                                         ELSE IF u[i] = c THEN f[i - 1] ELSE Append(f[i - 1], u[i])]
           F == CHOOSE f : Rec(f)
           part(i) == SubSeq(s, 1, i)
           g == [i \in 0..n |-> IF i <= Len(s) THEN part(i) ELSE s]
<1>1. /\ Len(s) \in Nat /\ n = Len(s) + k
      /\ \A i \in 1..Len(s) : u[i] = s[i]
      /\ \A i \in 1..n : i > Len(s) => u[i] = c
  <2> DEFINE tail == [i \in 1..k |-> c]
  <2>1. tail \in Seq(Nat) /\ Len(tail) = k /\ \A i \in 1..k : tail[i] = c
    OBVIOUS
  <2> HIDE DEF tail
  <2>2. /\ Len(s) \in Nat /\ Len(s \o tail) = Len(s) + k
        /\ \A i \in 1..(Len(s) + k) : (s \o tail)[i] = IF i <= Len(s) THEN s[i] ELSE tail[i - Len(s)]
    BY <2>1
  <2>3. QED BY <2>1, <2>2 DEF tail
<1>2. Without(u, c) = F[n]
  BY DEF Without
<1> HIDE DEF u, n
<1>3. n \in Nat /\ Len(s) <= n
  BY <1>1
<1>4. part(0) = <<>> /\ part(Len(s)) = s
  OBVIOUS
<1>5. \A i \in 1..Len(s) : Append(part(i - 1), s[i]) = part(i)
  BY BeginningGrows
<1> HIDE DEF part
<1>at. \A i \in 0..n : g[i] = IF i <= Len(s) THEN part(i) ELSE s
  OBVIOUS
<1>all. g = [i \in 0..n |-> g[i]]
  OBVIOUS
<1> HIDE DEF g
<1>6. /\ g[0] = <<>>
      /\ \A i \in 1..n : g[i] = IF u[i] = c THEN g[i - 1] ELSE Append(g[i - 1], u[i])
  <2>1. g[0] = <<>>
    BY <1>1, <1>3, <1>4, <1>at
  <2>2. ASSUME NEW i \in 1..n PROVE g[i] = IF u[i] = c THEN g[i - 1] ELSE Append(g[i - 1], u[i])
    <3>1. CASE i <= Len(s)
      <4>1. g[i] = part(i) /\ g[i - 1] = part(i - 1) /\ i \in 1..Len(s)
        <5>1. i \in 0..n /\ i - 1 \in 0..n /\ i - 1 <= Len(s) /\ i \in 1..Len(s)
          BY <1>1, <1>3, <3>1
        <5>2. QED BY <1>at, <3>1, <5>1
      <4>2. u[i] = s[i] /\ u[i] # c
        BY <1>1, <4>1
      <4>3. QED BY <1>5, <4>1, <4>2
    <3>2. CASE i > Len(s)
      <4>1. g[i] = s /\ u[i] = c
        BY <1>1, <1>3, <1>at, <3>2
      <4>2. g[i - 1] = s
        <5>1. CASE i - 1 = Len(s)
          BY <1>1, <1>3, <1>4, <1>at, <5>1
        <5>2. CASE i - 1 > Len(s)
          BY <1>1, <1>3, <1>at, <5>2
        <5>3. i - 1 = Len(s) \/ i - 1 > Len(s)
          BY <1>1, <1>3, <3>2
        <5>4. QED BY <5>1, <5>2, <5>3
      <4>3. QED BY <4>1, <4>2
    <3>3. QED BY <1>1, <3>1, <3>2
  <2>3. QED BY <2>1, <2>2
<1>7. g[n] = s
  <2>1. n = Len(s) \/ n > Len(s)
    BY <1>1
  <2>2. g[n] = IF n <= Len(s) THEN part(n) ELSE s
    BY <1>3, <1>at
  <2>3. QED BY <1>1, <1>4, <2>1, <2>2
<1>8. Rec(g)
  <2>1. \A i \in 0..n : i = 0 \/ i \in 1..n
    BY <1>3
  <2>2. \A i \in 0..n : g[i] = IF i = 0 THEN <<>>
                               ELSE IF u[i] = c THEN g[i - 1] ELSE Append(g[i - 1], u[i])
    BY <1>3, <1>6, <2>1
  <2>3. QED BY <1>all, <2>2
<1>9. Rec(F)
  <2> HIDE DEF Rec
  <2>1. QED BY <1>8
<1>10. /\ F[0] = <<>>
       /\ \A i \in 1..n : F[i] = IF u[i] = c THEN F[i - 1] ELSE Append(F[i - 1], u[i])
  <2> HIDE DEF F
  <2>1. \A i \in 0..n : F[i] = IF i = 0 THEN <<>>
                            ELSE IF u[i] = c THEN F[i - 1] ELSE Append(F[i - 1], u[i])
    BY <1>9
  <2>2. 0 \in 0..n /\ \A i \in 1..n : i \in 0..n /\ i # 0
    BY <1>3
  <2>3. QED BY <2>1, <2>2
<1> HIDE DEF F, Rec
<1>11. F[n] = g[n]
  <2>1. GoAlike(F, g, n)
    BY <1>6, <1>10 DEF GoAlike
  <2>2. QED BY <1>3, <2>1, SameAlong DEF Alike
<1>12. QED BY <1>2, <1>7, <1>11 DEF u

Standard == (0..61) \cup {Plus, Slash}

\* The characters of base64 for digits, and what encodeBase64Url makes of them:
\* a replacement that is undone by the other, and leaves the padding alone.
ToStandard(chars) == Replaced(Replaced(chars, Minus, Plus), Underscore, Slash)
ToUrl(chars) == Replaced(Replaced(chars, Plus, Minus), Slash, Underscore)

LEMMA ReplacedChars ==
  ASSUME NEW m \in Nat, NEW d \in [1..m -> 0..63]
  PROVE  /\ ToStandard(d) \in [1..m -> Standard]
         /\ ToUrl(ToStandard(d)) = d
<1>1. \A i \in 1..m : d[i] \in 0..63
  OBVIOUS
<1>2. ToStandard(d) = [i \in 1..m |-> IF d[i] = 62 THEN Plus ELSE IF d[i] = 63 THEN Slash ELSE d[i]]
  BY <1>1 DEF ToStandard, Replaced, Minus, Underscore, Plus, Slash
<1>3. ToStandard(d) \in [1..m -> Standard]
  BY <1>1, <1>2 DEF Standard, Plus, Slash
<1> DEFINE s == ToStandard(d)
<1> HIDE DEF s
<1>url. ToUrl(s) = [i \in 1..m |-> IF s[i] = Plus THEN 62 ELSE IF s[i] = Slash THEN 63 ELSE s[i]]
  BY <1>3 DEF s, ToUrl, Replaced, Minus, Underscore, Plus, Slash
<1>back. \A i \in 1..m : d[i] = IF s[i] = Plus THEN 62 ELSE IF s[i] = Slash THEN 63 ELSE s[i]
  <2>1. s = [i \in 1..m |-> IF d[i] = 62 THEN Plus ELSE IF d[i] = 63 THEN Slash ELSE d[i]]
    BY <1>2 DEF s
  <2>2. \A i \in 1..m : s[i] = IF d[i] = 62 THEN Plus ELSE IF d[i] = 63 THEN Slash ELSE d[i]
    BY <2>1
  <2>3. \A c \in 0..63 : c # Plus /\ c # Slash
    BY DEF Plus, Slash
  <2>4. Plus # Slash
    BY DEF Plus, Slash
  <2>5. QED BY <1>1, <2>2, <2>3, <2>4
<1>4. ToUrl(ToStandard(d)) = [i \in 1..m |-> d[i]]
  BY <1>url, <1>back DEF s
<1>5. QED BY <1>3, <1>4

\* The padding of a text, and the text with it.
LEMMA PaddedText ==
  ASSUME NEW m \in Nat, NEW s \in [1..m -> 0..66]
  PROVE  /\ (-m) % 4 \in Nat
         /\ Padded(s) = s \o [i \in 1..((-m) % 4) |-> Pad]
         /\ Without(Padded(s), Pad) = s
<1>1. s \in Seq(Nat) /\ Len(s) = m /\ \A i \in 1..Len(s) : s[i] # Pad
  <2>1. \A i \in 1..m : s[i] \in Nat /\ s[i] # Pad
    <3>1. \A i \in 1..m : s[i] \in 0..66
      OBVIOUS
    <3>2. \A c \in 0..66 : c \in Nat /\ c # Pad
      BY DEF Pad
    <3>3. QED BY <3>1, <3>2, Zenon
  <2>2. s \in [1..m -> Nat]
    BY <2>1
  <2>3. s \in Seq(Nat) /\ Len(s) = m
    BY <2>2
  <2>4. QED BY <2>1, <2>3
<1>2. (-m) % 4 \in Nat
  OBVIOUS
<1>3. Padded(s) = s \o [i \in 1..((-m) % 4) |-> Pad]
  BY <1>1 DEF Padded
<1>4. Pad \in Nat
  BY DEF Pad
<1>5. QED BY <1>1, <1>2, <1>3, <1>4, WithoutTail

\* A sequence with the same character after it k times.
LEMMA Appended ==
  ASSUME NEW m \in Nat, NEW s, NEW S, s \in [1..m -> S], NEW k \in Nat, NEW c
  PROVE  s \o [i \in 1..k |-> c] = [i \in 1..(m + k) |-> IF i <= m THEN s[i] ELSE c]
<1> DEFINE T == S \cup {c}
           tail == [i \in 1..k |-> c]
           w == s \o tail
<1>1. s \in Seq(T) /\ Len(s) = m
  OBVIOUS
<1>2. tail \in Seq(T) /\ Len(tail) = k /\ \A i \in 1..k : tail[i] = c
  OBVIOUS
<1> HIDE DEF tail, T
<1>3. /\ w \in Seq(T) /\ Len(w) = m + k
      /\ \A i \in 1..(m + k) : w[i] = IF i <= m THEN s[i] ELSE tail[i - m]
  BY <1>1, <1>2
<1> HIDE DEF w
<1>4. w = [i \in 1..(m + k) |-> w[i]]
  BY <1>3
<1>5. \A i \in 1..(m + k) : w[i] = IF i <= m THEN s[i] ELSE c
  <2>1. \A i \in 1..(m + k) : ~(i <= m) => i - m \in 1..k
    OBVIOUS
  <2>2. QED BY <1>2, <1>3, <2>1
<1>6. QED BY <1>4, <1>5 DEF w, tail

\* encodeBase64Url writes the digits of the bytes and nothing else.
LEMMA EncodedDigits ==
  ASSUME NEW n \in Nat, NEW bytes \in [1..n -> 0..255]
  PROVE  Encoded(bytes) = ToDigits(bytes)
<1> DEFINE m == (8 * n + 5) \div 6
           d == ToDigits(bytes)
           s == ToStandard(d)
           k == (-m) % 4
           tail == [i \in 1..k |-> Pad]
<1>1. d \in [1..m -> 0..63] /\ Len(d) = m /\ m \in Nat /\ m % 4 # 1
  <2>1. d \in [1..m -> 0..63] /\ Len(d) = m
    BY BytesMakeDigits, Zenon
  <2> HIDE DEF d
  <2>2. QED BY <2>1, Counts
<1> HIDE DEF m, d
<1>2. s \in [1..m -> Standard] /\ ToUrl(s) = d
  BY <1>1, ReplacedChars
<1>3. s \in [1..m -> 0..66] /\ d \in [1..m -> 0..66]
  <2>1. \A c \in Standard : c \in 0..66
    BY DEF Standard, Plus, Slash
  <2> HIDE DEF s
  <2>2. s \in [1..m -> Standard] /\ d \in [1..m -> 0..63]
    BY <1>1, <1>2
  <2> HIDE DEF k, tail, s
  <2>3. d \in [1..m -> 0..66]
    BY <2>1, <2>2
  <2>4. s \in [1..m -> 0..66]
    BY <2>1, <2>2
  <2>5. QED BY <2>3, <2>4
<1> HIDE DEF s
<1>4. k \in Nat /\ Padded(s) = s \o tail /\ Padded(d) = d \o tail /\ Without(Padded(d), Pad) = d
  <2>1. m \in Nat /\ k \in Nat
    BY <1>1
  <2>2. Padded(s) = s \o tail
    BY <1>3, <2>1, PaddedText, Zenon
  <2>3. Padded(d) = d \o tail /\ Without(Padded(d), Pad) = d
    BY <1>3, <2>1, PaddedText, Zenon
  <2>4. QED BY <2>1, <2>2, <2>3
<1>5. Encoded(bytes) = Without(ToUrl(s \o tail), Pad)
  BY <1>4 DEF Encoded, Btoa, ToUrl, ToStandard, s, d
<1>6. ToUrl(s \o tail) = d \o tail
  <2> HIDE DEF k
  <2>1. /\ s \o tail = [i \in 1..(m + k) |-> IF i <= m THEN s[i] ELSE Pad]
        /\ d \o tail = [i \in 1..(m + k) |-> IF i <= m THEN d[i] ELSE Pad]
    <3>1. ASSUME NEW t \in [1..m -> 0..66]
          PROVE  t \o tail = [i \in 1..(m + k) |-> IF i <= m THEN t[i] ELSE Pad]
      <4>1. m \in Nat /\ k \in Nat
        BY <1>1, <1>4
      <4>2. QED BY <4>1, Appended
    <3>2. QED BY <1>3, <3>1
  <2>2. ToUrl(s) = [i \in 1..m |-> IF s[i] = Plus THEN Minus ELSE IF s[i] = Slash THEN Underscore ELSE s[i]]
    BY <1>3 DEF ToUrl, Replaced, Minus, Underscore, Plus, Slash
  <2>3. ToUrl(s \o tail) = [i \in 1..(m + k) |->
                              IF i <= m THEN IF s[i] = Plus THEN Minus
                                             ELSE IF s[i] = Slash THEN Underscore ELSE s[i]
                              ELSE Pad]
    <3> DEFINE w == s \o tail
    <3>1. w = [i \in 1..(m + k) |-> IF i <= m THEN s[i] ELSE Pad]
      BY <2>1
    <3> HIDE DEF w, tail
    <3>2. ToUrl(w) = [i \in 1..(m + k) |-> IF w[i] = Plus THEN Minus
                                          ELSE IF w[i] = Slash THEN Underscore ELSE w[i]]
      BY <3>1 DEF ToUrl, Replaced, Minus, Underscore, Plus, Slash
    <3>3. Pad # Plus /\ Pad # Slash
      BY DEF Pad, Plus, Slash
    <3>4. \A i \in 1..(m + k) : w[i] = IF i <= m THEN s[i] ELSE Pad
      BY <3>1
    <3>5. QED BY <3>2, <3>3, <3>4 DEF w
  <2>4. \A i \in 1..m : d[i] = IF s[i] = Plus THEN Minus ELSE IF s[i] = Slash THEN Underscore ELSE s[i]
    BY <1>2, <2>2
  <2>5. \A i \in 1..(m + k) : i <= m => i \in 1..m
    BY <1>1, <1>4
  <2> HIDE DEF tail
  <2>6. QED BY <2>1, <2>3, <2>4, <2>5
<1>7. Encoded(bytes) = d
  BY <1>4, <1>5, <1>6
<1>8. QED BY <1>7 DEF d

\* decodeBase64Url reads well-formed characters as the digits they are.
LEMMA DecodedBytes ==
  ASSUME NEW m \in Nat, NEW d \in [1..m -> 0..63]
  PROVE  Decoded(d) = ToBytes(d)
<1> DEFINE s == ToStandard(d)
<1>1. s \in [1..m -> Standard] /\ ToUrl(s) = d
  BY ReplacedChars
<1>2. Decoded(d) = Atob(Padded(s))
  BY DEF Decoded, ToStandard
<1> HIDE DEF s
<1>3. s \in [1..m -> 0..66]
  BY <1>1 DEF Standard, Plus, Slash
<1>4. Without(Padded(s), Pad) = s
  BY <1>3, PaddedText
<1>5. \A i \in DOMAIN s : s[i] \in Standard
  BY <1>1
<1>6. Atob(Padded(s)) = ToBytes(ToUrl(s))
  BY <1>4, <1>5 DEF Atob, ToUrl, Standard
<1>7. QED BY <1>1, <1>2, <1>6

\* A key of any length is read back from the text that encodeBase64Url makes of
\* it, alphabet and padding included, and decodeBase64Url does not refuse it.
THEOREM KeysReturn ==
  ASSUME NEW n \in Nat, NEW bytes \in [1..n -> 0..255]
  PROVE  /\ Decoded(Encoded(bytes)) = bytes
         /\ n > 0 => WellFormed(Encoded(bytes))
<1> DEFINE m == (8 * n + 5) \div 6
           d == ToDigits(bytes)
<1>1. Encoded(bytes) = d /\ ToBytes(d) = bytes
  BY EncodedDigits, DigitsReturn
<1>digits. d \in [1..m -> 0..63] /\ Len(d) = m /\ m \in Nat /\ m % 4 # 1
  <2>1. d \in [1..m -> 0..63] /\ Len(d) = m
    BY BytesMakeDigits, Zenon
  <2> HIDE DEF d
  <2>2. QED BY <2>1, Counts
<1>2. n > 0 => m > 0
  OBVIOUS
<1> HIDE DEF d, m
<1>3. Decoded(d) = bytes
  BY <1>1, <1>digits, DecodedBytes
<1>4. n > 0 => WellFormed(d)
  <2>1. Len(d) > 0 => d # <<>>
    OBVIOUS
  <2>2. \A i \in DOMAIN d : d[i] \in 0..63
    BY <1>digits
  <2>3. QED BY <1>digits, <1>2, <2>1, <2>2 DEF WellFormed
<1>5. QED BY <1>1, <1>3, <1>4
=============================================================================
