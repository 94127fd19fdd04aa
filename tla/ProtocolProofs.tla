---------------------------- MODULE ProtocolProofs ----------------------------
(***************************************************************************)
(* Theorems about Protocol, for every alphabet and for topics and texts of *)
(* any length.                                                             *)
(***************************************************************************)
EXTENDS Protocol, SequenceTheorems, WellFoundedInduction, TLAPS

\* All that a line is made of.
Symbols == Chars \cup Words \cup {"t", "[", "]"}

-------------------------------------------------------------------------------
(* Induction and searching. *)

\* A set of numbers that is not empty has a least one: what every induction here
\* rests on, as the least number for which a statement fails.
LEMMA LeastNumber ==
    ASSUME NEW S \in SUBSET Nat, S # {}
    PROVE  \E m \in S : \A k \in S : m <= k
<1> DEFINE R == {ss \in Nat \X Nat : ss[1] < ss[2]}
<1>1. IsWellFoundedOn(R, Nat)
  BY NatLessThanWellFounded, Zenon DEF OpToRel
<1>2. PICK m \in S : \A k \in S : <<k, m>> \notin R
  BY <1>1, WFMin, Zenon
<1>3. ASSUME NEW k \in S
      PROVE  m <= k
  <2>1. <<k, m>> \in Nat \X Nat => ~(k < m)
    BY <1>2
  <2> QED
    BY <2>1
<1> QED
  BY <1>3

\* Induction: a set that has i, and k whenever it has k - 1, has all of i .. n.
LEMMA Climb ==
    ASSUME NEW i \in Nat, NEW n \in Nat, NEW S, i \in S,
           \A k \in (i + 1) .. n : k - 1 \in S => k \in S
    PROVE  i .. n \subseteq S
<1> DEFINE Bad == (i .. n) \ S
<1>1. SUFFICES ASSUME Bad # {}
               PROVE  FALSE
  OBVIOUS
<1>2. PICK m \in Bad : \A k \in Bad : m <= k
  <2>1. Bad \in SUBSET Nat
    OBVIOUS
  <2> HIDE DEF Bad
  <2> QED
    BY <1>1, <2>1, LeastNumber
<1>3. m \in Nat /\ i <= m /\ m <= n /\ m \notin S
  OBVIOUS
<1>4. m # i
  BY <1>3
<1>5. m \in (i + 1) .. n /\ m - 1 \in i .. n
  BY <1>3, <1>4
<1>6. m - 1 \notin Bad
  BY <1>2, <1>3
<1> QED
  BY <1>3, <1>5, <1>6

\* Min finds the least.
LEMMA MinIsLeast ==
    ASSUME NEW S \in SUBSET Nat, S # {}
    PROVE  Min(S) \in S /\ \A k \in S : Min(S) <= k
  BY LeastNumber DEF Min

\* find(':') finds the first colon, if there is one.
LEMMA FirstColonFinds ==
    ASSUME NEW text \in Seq(Symbols)
    PROVE  /\ FirstColon(text) \in 0 .. Len(text)
           /\ FirstColon(text) > 0 => text[FirstColon(text)] = ":"
           /\ \A i \in 1 .. Len(text) :
                 text[i] = ":" => FirstColon(text) > 0 /\ FirstColon(text) <= i
<1> DEFINE I == {i \in 1 .. Len(text) : text[i] = ":"}
<1>1. FirstColon(text) = IF I # {} THEN Min(I) ELSE 0
  BY DEF FirstColon, SelectInSeq
<1>2. I \in SUBSET Nat /\ Len(text) \in Nat
  OBVIOUS
<1>3. ASSUME I # {}
      PROVE  Min(I) \in I /\ \A k \in I : Min(I) <= k
  BY <1>2, <1>3, MinIsLeast, Zenon
<1>4. CASE I = {}
  BY <1>1, <1>2, <1>4
<1>5. CASE I # {}
  <2>1. FirstColon(text) = Min(I)
    BY <1>1, <1>5
  <2>2. FirstColon(text) \in 1 .. Len(text) /\ text[FirstColon(text)] = ":"
    BY <1>3, <1>5, <2>1
  <2>3. \A i \in 1 .. Len(text) : text[i] = ":" => FirstColon(text) <= i
    BY <1>3, <1>5, <2>1
  <2> QED
    BY <1>2, <2>2, <2>3
<1> QED
  BY <1>4, <1>5

-------------------------------------------------------------------------------
(* escape_message. *)

\* Of the numbers up to k, k is the greatest.
LEMMA MaxIsGreatest ==
    ASSUME NEW k \in Nat, NEW S \in SUBSET (1 .. k), k \in S
    PROVE  Max(S) = k
<1>1. \A y \in S : k >= y
  OBVIOUS
<1>2. \A x \in S : (\A y \in S : x >= y) => x = k
  OBVIOUS
<1> QED
  BY <1>1, <1>2 DEF Max

\* The function that the fold is: from a set of positions to the escapes of the
\* characters there, in order.
IsFold(f, text, k) ==
    f = [s \in SUBSET (1 .. k) |->
            IF s = {} THEN <<>> ELSE f[s \ {Max(s)}] \o Escaped(text[Max(s)])]

FoldOf(text, k) == CHOOSE f : IsFold(f, text, k)

\* What escape_message has written after the first k characters.
Written(text, k) == FoldOf(text, Len(text))[1 .. k]

\* There is such a function: a position more extends the one that there is.
LEMMA FoldExtends ==
    ASSUME NEW text, NEW k \in Nat \ {0}, NEW g, IsFold(g, text, k - 1)
    PROVE  \E f : IsFold(f, text, k)
<1> DEFINE f == [s \in SUBSET (1 .. k) |->
                    IF k \in s THEN g[s \ {k}] \o Escaped(text[k]) ELSE g[s]]
           step(h, s) == IF s = {} THEN <<>> ELSE h[s \ {Max(s)}] \o Escaped(text[Max(s)])
<1>1. \A s \in SUBSET (1 .. k) : k \notin s => s \in SUBSET (1 .. (k - 1))
  OBVIOUS
<1>2. ASSUME NEW s \in SUBSET (1 .. k)
      PROVE  f[s] = step(f, s)
  <2>1. CASE k \in s
    <3>1. Max(s) = k
      BY <2>1, MaxIsGreatest
    <3>2. s \ {k} \in SUBSET (1 .. k) /\ k \notin s \ {k} /\ s # {}
      BY <2>1
    <3>3. f[s \ {k}] = g[s \ {k}]
      BY <3>2
    <3>4. f[s] = g[s \ {k}] \o Escaped(text[k])
      BY <2>1
    <3> QED
      BY <3>1, <3>2, <3>3, <3>4
  <2>2. CASE k \notin s
    <3>1. f[s] = g[s] /\ f[s \ {Max(s)}] = g[s \ {Max(s)}]
      BY <2>2
    <3>2. g[s] = step(g, s)
      BY <1>1, <2>2 DEF IsFold
    <3> QED
      BY <3>1, <3>2
  <2> QED
    BY <2>1, <2>2
<1>3. f = [s \in SUBSET (1 .. k) |-> f[s]]
  OBVIOUS
<1>4. IsFold(f, text, k)
  <2> HIDE DEF f
  <2> QED
    BY <1>2, <1>3 DEF IsFold
<1> QED
  BY <1>4

LEMMA FoldExists ==
    ASSUME NEW text, NEW n \in Nat
    PROVE  \E f : IsFold(f, text, n)
<1> DEFINE S == {k \in Nat : \E f : IsFold(f, text, k)}
<1>3. \A k \in (0 + 1) .. n : k - 1 \in S => k \in S
  BY FoldExtends
<1>4. \E f : IsFold(f, text, 0)
  <2> DEFINE f == [s \in SUBSET (1 .. 0) |-> <<>>]
             g == [s \in SUBSET (1 .. 0) |->
                     IF s = {} THEN <<>> ELSE f[s \ {Max(s)}] \o Escaped(text[Max(s)])]
  <2>1. \A s \in SUBSET (1 .. 0) : s = {}
    OBVIOUS
  <2>2. \A s \in SUBSET (1 .. 0) : f[s] = g[s]
    BY <2>1
  <2>3. f = g
    BY <2>2
  <2> QED
    BY <2>3, Zenon DEF IsFold
<1>5. 0 .. n \subseteq S
  <2>1. 0 \in S
    BY <1>4
  <2> HIDE DEF S
  <2> QED
    BY <1>3, <2>1, Climb
<1> QED
  BY <1>5

\* escape_message character by character.
LEMMA EscapesInTurn ==
    ASSUME NEW text \in Seq(Chars)
    PROVE  /\ escape_message(text) = Written(text, Len(text))
           /\ Written(text, 0) = <<>>
           /\ \A k \in 1 .. Len(text) :
                 Written(text, k) = Written(text, k - 1) \o Escaped(text[k])
<1> DEFINE f == FoldOf(text, Len(text))
<1>1. DOMAIN text = 1 .. Len(text) /\ Len(text) \in Nat
  OBVIOUS
<1>2. IsFold(f, text, Len(text))
  BY <1>1, FoldExists DEF FoldOf
<1>3. escape_message(text) = Written(text, Len(text))
  BY <1>1, Zenon DEF escape_message, FoldLeft, MapThenFoldSet, FoldOf, IsFold, Written
<1>4. f[1 .. 0] = <<>>
  <2> HIDE DEF f
  <2>1. 1 .. 0 = {} /\ {} \in SUBSET (1 .. Len(text))
    BY <1>1
  <2> QED
    BY <1>2, <2>1 DEF IsFold
<1>5. ASSUME NEW k \in 1 .. Len(text)
      PROVE  f[1 .. k] = f[1 .. (k - 1)] \o Escaped(text[k])
  <2> HIDE DEF f
  <2>1. 1 .. k \in SUBSET (1 .. Len(text)) /\ k \in 1 .. k /\ k \in Nat
    BY <1>1
  <2>2. Max(1 .. k) = k /\ (1 .. k) \ {k} = 1 .. (k - 1)
    BY <2>1, MaxIsGreatest
  <2> QED
    BY <1>2, <2>1, <2>2 DEF IsFold
<1> QED
  BY <1>3, <1>4, <1>5 DEF Written

\* The characters that a line may have.
Plain == Symbols \ {"newline"}

\* An escape is plain, and ends in the character that it stands for or a substitute of
\* it, with a backslash before it in the four cases.
Special == {"newline", "return", ":", "backslash"}

LEMMA EscapeIsPlain ==
    ASSUME NEW char \in Chars
    PROVE  /\ Escaped(char) \in Seq(Plain)
           /\ Len(Escaped(char)) = IF char \in Special THEN 2 ELSE 1
           /\ Escaped(char)[1] = IF char \in Special THEN "backslash" ELSE char
<1> USE ProtocolConstantsOK DEF Plain, Symbols
<1>1. CASE char = "newline"
  BY <1>1 DEF Escaped, Special
<1>2. CASE char = "return"
  BY <1>2 DEF Escaped, Special
<1>3. CASE char = ":"
  BY <1>3 DEF Escaped, Special
<1>4. CASE char = "backslash"
  BY <1>4 DEF Escaped, Special
<1>5. CASE char \notin Special
  BY <1>5 DEF Escaped, Special
<1> QED
  BY <1>1, <1>2, <1>3, <1>4, <1>5 DEF Special

\* No escape begins another: the first character, or the second after a backslash,
\* tells which character it stands for.
LEMMA EscapesDiffer ==
    ASSUME NEW a \in Chars, NEW b \in Chars, Escaped(a)[1] = Escaped(b)[1],
           a \in Special /\ b \in Special => Escaped(a)[2] = Escaped(b)[2]
    PROVE  a = b
<1>1. a \in Special <=> b \in Special
  BY EscapeIsPlain DEF Special
<1>2. \A c, d \in Special : Escaped(c)[2] = Escaped(d)[2] => c = d
  BY DEF Escaped, Special
<1> QED
  BY <1>1, <1>2, EscapeIsPlain

\* What is written at any moment is plain, ...
LEMMA WrittenIsPlain ==
    ASSUME NEW text \in Seq(Chars), NEW k \in 0 .. Len(text)
    PROVE  Written(text, k) \in Seq(Plain)
<1> DEFINE S == {j \in 0 .. Len(text) : Written(text, j) \in Seq(Plain)}
<1>1. Len(text) \in Nat /\ 0 \in S
  <2>1. Len(text) \in Nat /\ <<>> \in Seq(Plain)
    OBVIOUS
  <2>2. Written(text, 0) = <<>>
    BY EscapesInTurn
  <2>3. Written(text, 0) \in Seq(Plain)
    BY <2>1, <2>2, Zenon
  <2> QED
    BY <2>1, <2>3
<1>2. ASSUME NEW j \in (0 + 1) .. Len(text), j - 1 \in S
      PROVE  j \in S
  <2>1. /\ j \in 1 .. Len(text) /\ j \in 0 .. Len(text)
        /\ Written(text, j) = Written(text, j - 1) \o Escaped(text[j])
    BY EscapesInTurn
  <2>2. Escaped(text[j]) \in Seq(Plain)
    BY <2>1, EscapeIsPlain, ElementOfSeq
  <2> QED
    BY <1>2, <2>1, <2>2, ConcatProperties
<1>3. 0 .. Len(text) \subseteq S
  <2> HIDE DEF S
  <2> QED
    BY <1>1, <1>2, Climb
<1> QED
  BY <1>3

\* ... and what follows is appended to it.
LEMMA WrittenIsKept ==
    ASSUME NEW text \in Seq(Chars), NEW i \in 0 .. Len(text)
    PROVE  \E r \in Seq(Plain) : escape_message(text) = Written(text, i) \o r
<1> DEFINE Kept(j) == \E r \in Seq(Plain) : Written(text, j) = Written(text, i) \o r
           S == {j \in i .. Len(text) : Kept(j)}
<1>1. Len(text) \in Nat /\ i \in Nat /\ Written(text, i) \in Seq(Plain)
  BY WrittenIsPlain
<1>2. Kept(i)
  <2>1. Written(text, i) = Written(text, i) \o <<>> /\ <<>> \in Seq(Plain)
    BY <1>1, ConcatEmptySeq
  <2> QED
    BY <2>1
<1>3. ASSUME NEW j \in (i + 1) .. Len(text), Kept(j - 1)
      PROVE  Kept(j)
  <2>1. PICK r \in Seq(Plain) : Written(text, j - 1) = Written(text, i) \o r
    BY <1>3
  <2>2. j \in 1 .. Len(text)
    BY <1>1
  <2>3. Written(text, j) = (Written(text, i) \o r) \o Escaped(text[j])
    BY <2>1, <2>2, EscapesInTurn
  <2>4. Escaped(text[j]) \in Seq(Plain)
    BY <2>2, EscapeIsPlain, ElementOfSeq
  <2>5. Written(text, j) = Written(text, i) \o (r \o Escaped(text[j]))
    BY <1>1, <2>3, <2>4, ConcatAssociative
  <2> QED
    BY <2>4, <2>5, ConcatProperties
<1>4. i .. Len(text) \subseteq S
  <2>1. i \in S
    BY <1>1, <1>2
  <2>2. \A j \in (i + 1) .. Len(text) : j - 1 \in S => j \in S
    <3> HIDE DEF Kept
    <3> QED
      BY <1>1, <1>3
  <2> HIDE DEF S
  <2> QED
    BY <1>1, <2>1, <2>2, Climb
<1>5. Kept(Len(text))
  <2>1. Len(text) \in i .. Len(text)
    BY <1>1
  <2> QED
    BY <1>4, <2>1
<1> QED
  BY <1>5, EscapesInTurn

\* So each escape is where the escapes before it end.
LEMMA EscapeInPlace ==
    ASSUME NEW text \in Seq(Chars), NEW k \in 1 .. Len(text)
    PROVE  \A i \in 1 .. Len(Escaped(text[k])) :
              escape_message(text)[Len(Written(text, k - 1)) + i] = Escaped(text[k])[i]
<1> DEFINE w == Written(text, k - 1)
           x == Escaped(text[k])
<1>1. k - 1 \in 0 .. Len(text) /\ k \in 0 .. Len(text) /\ text[k] \in Chars
  BY ElementOfSeq
<1>2. w \in Seq(Plain) /\ x \in Seq(Plain)
  BY <1>1, WrittenIsPlain, EscapeIsPlain
<1>3. Written(text, k) = w \o x
  BY EscapesInTurn
<1>4. PICK r \in Seq(Plain) : escape_message(text) = (w \o x) \o r
  BY <1>1, <1>3, WrittenIsKept
<1> HIDE DEF w, x
<1>5. /\ w \o x \in Seq(Plain) /\ Len(w \o x) = Len(w) + Len(x)
      /\ \A i \in 1 .. Len(x) : (w \o x)[Len(w) + i] = x[i]
  BY <1>2, ConcatProperties
<1>6. \A j \in 1 .. Len(w \o x) : escape_message(text)[j] = (w \o x)[j]
  BY <1>4, <1>5, ConcatProperties
<1>7. Len(w) \in Nat /\ Len(x) \in Nat
  BY <1>2
<1>8. \A i \in 1 .. Len(x) : escape_message(text)[Len(w) + i] = x[i]
  <2>1. \A i \in 1 .. Len(x) : Len(w) + i \in 1 .. Len(w \o x)
    BY <1>5, <1>7
  <2> QED
    BY <1>5, <1>6, <2>1, Zenon
<1> QED
  BY <1>8, Zenon DEF w, x

\* Two texts with the same escapes agree as far as both go.
LEMMA EscapesAgree ==
    ASSUME NEW a \in Seq(Chars), NEW b \in Seq(Chars),
           escape_message(a) = escape_message(b), Len(a) <= Len(b)
    PROVE  /\ Written(a, Len(a)) = Written(b, Len(a))
           /\ \A i \in 1 .. Len(a) : a[i] = b[i]
<1> DEFINE Agree(k) == /\ Written(a, k) = Written(b, k)
                       /\ \A i \in 1 .. k : a[i] = b[i]
           S == {k \in 0 .. Len(a) : Agree(k)}
<1>1. Len(a) \in Nat /\ Len(b) \in Nat
  OBVIOUS
<1>2. ASSUME NEW k \in (0 + 1) .. Len(a), Agree(k - 1)
      PROVE  Agree(k)
  <2>1. k \in 1 .. Len(a) /\ k \in 1 .. Len(b) /\ a[k] \in Chars /\ b[k] \in Chars
    BY <1>1, ElementOfSeq
  <2>2. Written(a, k - 1) = Written(b, k - 1) /\ \A i \in 1 .. (k - 1) : a[i] = b[i]
    BY <1>2
  <2>3. ASSUME NEW i \in 1 .. 2, i <= Len(Escaped(a[k])), i <= Len(Escaped(b[k]))
        PROVE  Escaped(a[k])[i] = Escaped(b[k])[i]
    <3>1. i \in 1 .. Len(Escaped(a[k])) /\ i \in 1 .. Len(Escaped(b[k]))
      BY <2>1, <2>3, EscapeIsPlain
    <3> DEFINE p == Len(Written(a, k - 1)) + i
    <3>2. escape_message(a)[p] = Escaped(a[k])[i]
      BY <2>1, <3>1, EscapeInPlace
    <3>3. escape_message(b)[p] = Escaped(b[k])[i]
      BY <2>1, <2>2, <3>1, EscapeInPlace
    <3> QED
      BY <3>2, <3>3
  <2>4. /\ Escaped(a[k])[1] = Escaped(b[k])[1]
        /\ a[k] \in Special /\ b[k] \in Special => Escaped(a[k])[2] = Escaped(b[k])[2]
    <3>1. \A c \in Chars : Len(Escaped(c)) = IF c \in Special THEN 2 ELSE 1
      BY EscapeIsPlain
    <3> DEFINE la == Len(Escaped(a[k]))
               lb == Len(Escaped(b[k]))
    <3>2. la \in 1 .. 2 /\ lb \in 1 .. 2
      BY <2>1, <3>1
    <3>3. a[k] \in Special /\ b[k] \in Special => la = 2 /\ lb = 2
      BY <2>1, <3>1
    <3>4. \A i \in 1 .. 2 : i <= la /\ i <= lb => Escaped(a[k])[i] = Escaped(b[k])[i]
      BY <2>3
    <3> HIDE DEF la, lb
    <3> QED
      BY <3>2, <3>3, <3>4
  <2>5. a[k] = b[k]
    BY <2>1, <2>4, EscapesDiffer
  <2>6. Written(a, k) = Written(b, k)
    <3>1. Written(a, k) = Written(a, k - 1) \o Escaped(a[k])
      BY <2>1, EscapesInTurn
    <3>2. Written(b, k) = Written(b, k - 1) \o Escaped(b[k])
      BY <2>1, EscapesInTurn
    <3> QED
      BY <2>2, <2>5, <3>1, <3>2
  <2> QED
    BY <2>2, <2>5, <2>6
<1>3. 0 .. Len(a) \subseteq S
  <2>1. 0 \in S
    BY <1>1, EscapesInTurn
  <2>2. \A k \in (0 + 1) .. Len(a) : k - 1 \in S => k \in S
    BY <1>1, <1>2
  <2> HIDE DEF S
  <2> QED
    BY <1>1, <2>1, <2>2, Climb
<1> QED
  <2>1. Len(a) \in 0 .. Len(a)
    BY <1>1
  <2> QED
    BY <1>3, <2>1

\* A text can be told from what escape_message makes of it.
LEMMA EscapeIsInjective ==
    ASSUME NEW a \in Seq(Chars), NEW b \in Seq(Chars), escape_message(a) = escape_message(b)
    PROVE  a = b
<1>1. ASSUME NEW s \in Seq(Chars), NEW t \in Seq(Chars), Len(s) <= Len(t),
             escape_message(s) = escape_message(t)
      PROVE  s = t
  <2> DEFINE n == Len(s)
  <2>1. Written(s, n) = Written(t, n) /\ \A i \in 1 .. n : s[i] = t[i]
    BY <1>1, EscapesAgree
  <2>2. n \in Nat /\ Len(t) \in Nat
    OBVIOUS
  <2>3. ASSUME n < Len(t)
        PROVE  FALSE
    <3> DEFINE x == Escaped(t[n + 1])
               w == Written(t, n)
    <3>1. n \in 0 .. Len(t) /\ n + 1 \in 1 .. Len(t) /\ n + 1 \in 0 .. Len(t)
      BY <2>2, <2>3
    <3>2. PICK r \in Seq(Plain) : escape_message(t) = Written(t, n + 1) \o r
      BY <3>1, WrittenIsKept
    <3>3. w \in Seq(Plain) /\ x \in Seq(Plain) /\ Len(x) > 0
      <4>1. w \in Seq(Plain) /\ t[n + 1] \in Chars
        BY <3>1, WrittenIsPlain, ElementOfSeq
      <4>2. x \in Seq(Plain) /\ Len(x) = IF t[n + 1] \in Special THEN 2 ELSE 1
        BY <4>1, EscapeIsPlain, Zenon
      <4> HIDE DEF x
      <4> QED
        BY <4>1, <4>2
    <3>4. Written(t, (n + 1) - 1) = w /\ Written(t, n + 1) = w \o x
      BY <2>2, <3>1, EscapesInTurn
    <3>5. escape_message(t) = w
      BY <1>1, <2>1, EscapesInTurn
    <3> HIDE DEF w, x
    <3>6. w = (w \o x) \o r
      BY <3>2, <3>4, <3>5
    <3>7. Len(w \o x) = Len(w) + Len(x) /\ w \o x \in Seq(Plain)
      BY <3>3, ConcatProperties
    <3>8. Len((w \o x) \o r) = Len(w \o x) + Len(r)
      BY <3>7, ConcatProperties
    <3>9. Len(w) \in Nat /\ Len(x) \in Nat /\ Len(r) \in Nat
      BY <3>3
    <3> QED
      BY <3>3, <3>6, <3>7, <3>8, <3>9
  <2>4. Len(s) = Len(t)
    BY <1>1, <2>2, <2>3
  <2> QED
    BY <2>1, <2>4, SeqEqual
<1>2. Len(a) \in Nat /\ Len(b) \in Nat
  OBVIOUS
<1> QED
  BY <1>1, <1>2

-------------------------------------------------------------------------------
(* Lines. *)

\* A word, a topic, a colon and a text: a request to publish or a notification, without
\* its newline.
Line(word, to, text) == ((<<word>> \o to) \o Colon) \o text

\* Where its parts are.
HasParts(line, word, to, text) ==
    /\ line \in Seq(Symbols) /\ line # <<>>
    /\ Len(line) = Len(to) + Len(text) + 2
    /\ line[1] = word
    /\ \A i \in 1 .. Len(to) : line[i + 1] = to[i]
    /\ line[Len(to) + 2] = ":"
    /\ \A i \in 1 .. Len(text) : line[Len(to) + 2 + i] = text[i]

LEMMA LineHasParts ==
    ASSUME NEW word \in Symbols, NEW to \in Seq(Symbols), NEW text \in Seq(Symbols)
    PROVE  HasParts(Line(word, to, text), word, to, text)
<1>0. ":" \in Symbols
  BY ProtocolConstantsOK DEF Symbols
<1>1. Line(word, to, text) \in Seq(Symbols)
  BY <1>0 DEF Line, Colon
<1>2. Len(Line(word, to, text)) = Len(to) + Len(text) + 2
  BY <1>0 DEF Line, Colon
<1>3. Line(word, to, text)[1] = word
  BY <1>0 DEF Line, Colon
<1>4. \A i \in 1 .. Len(to) : Line(word, to, text)[i + 1] = to[i]
  BY <1>0 DEF Line, Colon
<1>5. Line(word, to, text)[Len(to) + 2] = ":"
  BY <1>0 DEF Line, Colon
<1>6. \A i \in 1 .. Len(text) : Line(word, to, text)[Len(to) + 2 + i] = text[i]
  BY <1>0 DEF Line, Colon
<1>7. Line(word, to, text) # <<>>
  BY <1>2
<1> QED
  BY <1>1, <1>2, <1>3, <1>4, <1>5, <1>6, <1>7 DEF HasParts

\* The first colon ends a topic that has none.
SplitsInto(rest, to, text) ==
    /\ rest \in Seq(Symbols) /\ Len(rest) = Len(to) + Len(text) + 1
    /\ FirstColon(rest) = Len(to) + 1
    /\ Before(rest, FirstColon(rest)) = to
    /\ After(rest, FirstColon(rest)) = text

LEMMA SplitAtColon ==
    ASSUME NEW word \in Symbols, NEW to \in Seq(Symbols), NEW text \in Seq(Symbols),
           ~Has(to, ":"), NEW rest, rest = Tail(Line(word, to, text))
    PROVE  SplitsInto(rest, to, text)
<1> DEFINE line == Line(word, to, text)
<1>1. Len(to) \in Nat /\ Len(text) \in Nat
  OBVIOUS
<1>2. HasParts(line, word, to, text)
  BY LineHasParts, Zenon
<1> HIDE DEF line
<1>3. /\ rest \in Seq(Symbols) /\ Len(rest) = Len(to) + Len(text) + 1
      /\ \A i \in 1 .. Len(to) : rest[i] = to[i]
      /\ rest[Len(to) + 1] = ":"
      /\ \A i \in 1 .. Len(text) : rest[Len(to) + 1 + i] = text[i]
  <2>1. rest = Tail(line)
    BY DEF line
  <2>2. /\ rest \in Seq(Symbols) /\ Len(rest) = Len(to) + Len(text) + 1
        /\ \A i \in 1 .. Len(rest) : rest[i] = line[i + 1]
    <3>1. line \in Seq(Symbols) /\ line # <<>> /\ Len(line) = Len(to) + Len(text) + 2
      BY <1>2 DEF HasParts
    <3>2. rest \in Seq(Symbols) /\ Len(rest) = Len(line) - 1
      BY <2>1, <3>1, HeadTailProperties
    <3>3. \A i \in 1 .. Len(rest) : rest[i] = line[i + 1]
      BY <2>1, <3>1, HeadTailProperties
    <3> QED
      BY <1>1, <3>1, <3>2, <3>3
  <2>3. \A i \in 1 .. Len(to) : i \in 1 .. Len(rest)
    BY <1>1, <2>2
  <2>4. Len(to) + 1 \in 1 .. Len(rest) /\ (Len(to) + 1) + 1 = Len(to) + 2
    BY <1>1, <2>2
  <2>5. \A i \in 1 .. Len(text) :
           Len(to) + 1 + i \in 1 .. Len(rest) /\ (Len(to) + 1 + i) + 1 = Len(to) + 2 + i
    BY <1>1, <2>2
  <2> QED
    BY <1>2, <2>2, <2>3, <2>4, <2>5 DEF HasParts
<1>4. \A i \in 1 .. Len(to) : rest[i] # ":"
  <2>1. \A i \in 1 .. Len(to) : to[i] # ":"
    BY <1>1 DEF Has, ToSet
  <2> QED
    BY <1>3, <2>1
<1>5. FirstColon(rest) = Len(to) + 1
  <2> DEFINE n == FirstColon(rest)
  <2>1. /\ n \in 0 .. Len(rest)
        /\ n > 0 => rest[n] = ":"
        /\ \A i \in 1 .. Len(rest) : rest[i] = ":" => n > 0 /\ n <= i
    BY <1>3, FirstColonFinds
  <2> HIDE DEF n
  <2>2. Len(to) + 1 \in 1 .. Len(rest)
    BY <1>1, <1>3
  <2>3. n > 0 /\ n <= Len(to) + 1
    BY <1>3, <2>1, <2>2
  <2>4. n \in Nat /\ rest[n] = ":"
    BY <2>1, <2>3
  <2>5. n \notin 1 .. Len(to)
    BY <1>4, <2>4
  <2>6. n = Len(to) + 1
    BY <1>1, <2>3, <2>4, <2>5
  <2> QED
    BY <2>6 DEF n
<1>6. SubSeq(rest, 1, Len(to)) = to
  <2>1. /\ SubSeq(rest, 1, Len(to)) \in Seq(Symbols)
        /\ Len(SubSeq(rest, 1, Len(to))) = Len(to)
        /\ \A i \in 1 .. Len(to) : SubSeq(rest, 1, Len(to))[i] = rest[i]
    BY <1>1, <1>3
  <2> QED
    BY <1>3, <2>1, SeqEqual
<1>7. SubSeq(rest, Len(to) + 2, Len(rest)) = text
  <2> DEFINE z == SubSeq(rest, Len(to) + 2, Len(rest))
  <2>1. /\ z \in Seq(Symbols) /\ Len(z) = Len(text)
        /\ \A i \in 1 .. Len(text) : z[i] = rest[Len(to) + 1 + i]
    BY <1>1, <1>3
  <2> HIDE DEF z
  <2>2. z = text
    BY <1>3, <2>1, SeqEqual
  <2> QED
    BY <2>2 DEF z
<1>8. Before(rest, FirstColon(rest)) = to
  <2>1. (Len(to) + 1) - 1 = Len(to)
    BY <1>1
  <2> QED
    BY <1>5, <1>6, <2>1 DEF Before
<1>9. After(rest, FirstColon(rest)) = text
  <2>1. (Len(to) + 1) + 1 = Len(to) + 2
    BY <1>1
  <2> QED
    BY <1>5, <1>7, <2>1 DEF After
<1> QED
  BY <1>3, <1>5, <1>8, <1>9, Zenon DEF SplitsInto

\* Taking a line apart at a colon and putting it together again.
LEMMA JoinAtColon ==
    ASSUME NEW line \in Seq(Symbols), line # <<>>, NEW n \in 1 .. Len(Tail(line)),
           Tail(line)[n] = ":"
    PROVE  /\ Before(Tail(line), n) \in Seq(Symbols) /\ After(Tail(line), n) \in Seq(Symbols)
           /\ Len(Before(Tail(line), n)) = n - 1
           /\ Line(Head(line), Before(Tail(line), n), After(Tail(line), n)) = line
<1> DEFINE rest == Tail(line)
           to   == Before(rest, n)
           text == After(rest, n)
           both == Line(Head(line), to, text)
<1>1. /\ rest \in Seq(Symbols) /\ Len(line) = Len(rest) + 1 /\ Head(line) \in Symbols
      /\ Head(line) = line[1] /\ \A i \in 1 .. Len(rest) : rest[i] = line[i + 1]
  BY HeadTailProperties
<1>2. Len(rest) \in Nat /\ n \in Nat /\ 1 <= n /\ n <= Len(rest)
  OBVIOUS
<1> HIDE DEF rest
<1>3. /\ to \in Seq(Symbols) /\ Len(to) = n - 1
      /\ \A i \in 1 .. Len(to) : to[i] = rest[i]
  BY <1>1, <1>2 DEF Before
<1>4. /\ text \in Seq(Symbols) /\ Len(text) = Len(rest) - n
      /\ \A i \in 1 .. Len(text) : text[i] = rest[n + i]
  BY <1>1, <1>2 DEF After
<1> HIDE DEF to, text
<1>5. HasParts(both, Head(line), to, text)
  BY <1>1, <1>3, <1>4, LineHasParts, Zenon
<1> USE DEF HasParts
<1> HIDE DEF both
<1>6. Len(both) = Len(line)
  BY <1>1, <1>2, <1>3, <1>4, <1>5
<1>7. ASSUME NEW j \in 1 .. Len(line)
      PROVE  both[j] = line[j]
  <2>1. CASE j = 1
    BY <1>1, <1>5, <2>1
  <2>2. CASE j \in 2 .. n
    <3> DEFINE i == j - 1
    <3>1. i \in 1 .. Len(to) /\ i \in 1 .. Len(rest) /\ j = i + 1
      BY <1>2, <1>3, <2>2
    <3> QED
      BY <1>1, <1>3, <1>5, <3>1
  <2>3. CASE j = n + 1
    <3>1. j = Len(to) + 2 /\ n \in 1 .. Len(rest) /\ rest[n] = line[j]
      BY <1>1, <1>2, <1>3, <2>3
    <3>2. rest[n] = ":"
      BY DEF rest
    <3> QED
      BY <1>5, <3>1, <3>2
  <2>4. CASE j \in (n + 2) .. Len(line)
    <3> DEFINE i == j - (n + 1)
    <3>1. i \in 1 .. Len(text) /\ n + i \in 1 .. Len(rest) /\ j = Len(to) + 2 + i
          /\ j = (n + i) + 1
      <4> DEFINE m == Len(rest)
      <4>1. /\ m \in Nat /\ n \in 1 .. m /\ Len(line) = m + 1
            /\ Len(text) = m - n /\ Len(to) = n - 1
        BY <1>1, <1>2, <1>3, <1>4
      <4>2. j \in (n + 2) .. (m + 1)
        BY <2>4, <4>1, Zenon
      <4> HIDE DEF m
      <4>3. i \in 1 .. (m - n) /\ n + i \in 1 .. m /\ j = (n - 1) + 2 + i /\ j = (n + i) + 1
        BY <4>1, <4>2
      <4> QED
        BY <4>1, <4>3, Zenon DEF m
    <3> HIDE DEF i
    <3> QED
      BY <1>1, <1>4, <1>5, <3>1
  <2> QED
    BY <1>2, <2>1, <2>2, <2>3, <2>4
<1>8. both = line
  BY <1>5, <1>6, <1>7, SeqEqual
<1> QED
  BY <1>3, <1>4, <1>8 DEF both, to, text, rest

-------------------------------------------------------------------------------
(* Reading and writing lines. *)

Lines == Seq(Symbols)

\* What a line is taken for.
Requests ==
         [cmd : {"ERROR"}, reply : {"EMPTY_MESSAGE", "INVALID_FORMAT", "UNKNOWN_COMMAND"}]
    \cup [cmd : {"PUBLISH"}, topic : Lines, payload : Lines]
    \cup [cmd : {"SUBSCRIBE", "UNSUBSCRIBE"}, topic : Lines]
    \cup [cmd : {"PING"}]

\* The head and the rest of a line.
LEMMA LineStarts ==
    ASSUME NEW line \in Lines, line # <<>>
    PROVE  /\ Head(line) \in Symbols /\ Head(line) = line[1]
           /\ Tail(line) \in Lines /\ Len(line) = Len(Tail(line)) + 1
           /\ \A i \in 1 .. Len(Tail(line)) : Tail(line)[i] = line[i + 1]
  BY HeadTailProperties DEF Lines

\* Whether a line begins with a command decides how it is parsed.
LEMMA ParseByWord ==
    ASSUME NEW line \in Lines
    PROVE  /\ line = <<>> => Parse(line) = Error("EMPTY_MESSAGE")
           /\ StartsWith(line, "PUBLISH:") => Parse(line) = ParsePublish(Tail(line))
           /\ StartsWith(line, "SUBSCRIBE:") =>
                 Parse(line) = IF Len(line) = 1 THEN Error("INVALID_FORMAT")
                               ELSE [cmd |-> "SUBSCRIBE", topic |-> Tail(line)]
           /\ StartsWith(line, "UNSUBSCRIBE:") =>
                 Parse(line) = IF Len(line) = 1 THEN Error("INVALID_FORMAT")
                               ELSE [cmd |-> "UNSUBSCRIBE", topic |-> Tail(line)]
           /\ StartsWith(line, "PING") => Parse(line) = [cmd |-> "PING"]
           /\ (/\ line # <<>>
               /\ ~\E word \in {"PUBLISH:", "SUBSCRIBE:", "UNSUBSCRIBE:", "PING"} :
                      StartsWith(line, word))
                  => Parse(line) = Error("UNKNOWN_COMMAND")
<1>1. CommandWidth["SUBSCRIBE:"] = 10 /\ CommandWidth["UNSUBSCRIBE:"] = 12
  BY DEF CommandWidth, Words
<1>2. line # <<>> => Len(Tail(line)) \in Nat /\ Len(line) = Len(Tail(line)) + 1
  BY LineStarts DEF Lines
<1>3. line = <<>> => Parse(line) = Error("EMPTY_MESSAGE")
  BY DEF Parse, StartsWith
<1>4. StartsWith(line, "PUBLISH:") => Parse(line) = ParsePublish(Tail(line))
  BY DEF Parse, StartsWith
<1>5. StartsWith(line, "SUBSCRIBE:") =>
         Parse(line) = ParseTopic("SUBSCRIBE:", Tail(line), 10, "SUBSCRIBE")
  BY DEF Parse, StartsWith
<1>6. StartsWith(line, "UNSUBSCRIBE:") =>
         Parse(line) = ParseTopic("UNSUBSCRIBE:", Tail(line), 12, "UNSUBSCRIBE")
  BY DEF Parse, StartsWith
<1>7. StartsWith(line, "PING") => Parse(line) = [cmd |-> "PING"]
  BY DEF Parse, StartsWith
<1>8. (/\ line # <<>>
       /\ ~\E word \in {"PUBLISH:", "SUBSCRIBE:", "UNSUBSCRIBE:", "PING"} :
              StartsWith(line, word))
          => Parse(line) = Error("UNKNOWN_COMMAND")
  BY DEF Parse
<1>9. StartsWith(line, "SUBSCRIBE:") =>
         ParseTopic("SUBSCRIBE:", Tail(line), 10, "SUBSCRIBE") =
             IF Len(line) = 1 THEN Error("INVALID_FORMAT")
             ELSE [cmd |-> "SUBSCRIBE", topic |-> Tail(line)]
  <2>1. ASSUME line # <<>>
        PROVE  CommandWidth["SUBSCRIBE:"] + Len(Tail(line)) <= 10 <=> Len(line) = 1
    <3> DEFINE m == Len(Tail(line))
    <3>1. m \in Nat /\ Len(line) = m + 1
      BY <1>2, <2>1
    <3> HIDE DEF m
    <3>2. 10 + m <= 10 <=> Len(line) = 1
      BY <3>1
    <3> QED
      BY <1>1, <3>2 DEF m
  <2> QED
    BY <2>1, Zenon DEF ParseTopic, StartsWith
<1>10. StartsWith(line, "UNSUBSCRIBE:") =>
         ParseTopic("UNSUBSCRIBE:", Tail(line), 12, "UNSUBSCRIBE") =
             IF Len(line) = 1 THEN Error("INVALID_FORMAT")
             ELSE [cmd |-> "UNSUBSCRIBE", topic |-> Tail(line)]
  <2>1. ASSUME line # <<>>
        PROVE  CommandWidth["UNSUBSCRIBE:"] + Len(Tail(line)) <= 12 <=> Len(line) = 1
    <3> DEFINE m == Len(Tail(line))
    <3>1. m \in Nat /\ Len(line) = m + 1
      BY <1>2, <2>1
    <3> HIDE DEF m
    <3>2. 12 + m <= 12 <=> Len(line) = 1
      BY <3>1
    <3> QED
      BY <1>1, <3>2 DEF m
  <2> QED
    BY <2>1, Zenon DEF ParseTopic, StartsWith
<1> QED
  BY <1>3, <1>4, <1>5, <1>6, <1>7, <1>8, <1>9, <1>10

\* What ParsePublish makes of the rest of a line.
LEMMA ParsePublishes ==
    ASSUME NEW line \in Lines, StartsWith(line, "PUBLISH:"), NEW n, n = FirstColon(Tail(line))
    PROVE  Parse(line) = IF n <= 1 THEN Error("INVALID_FORMAT")
                         ELSE [cmd |-> "PUBLISH", topic |-> Before(Tail(line), n),
                               payload |-> After(Tail(line), n)]
<1>1. CommandWidth["PUBLISH:"] = 8
  BY DEF CommandWidth, Words
<1>2. n \in 0 .. Len(Tail(line)) /\ Len(Tail(line)) \in Nat
  <2>1. Tail(line) \in Seq(Symbols)
    BY LineStarts DEF StartsWith, Lines
  <2>2. n \in 0 .. Len(Tail(line))
    BY <2>1, FirstColonFinds, Zenon
  <2> QED
    BY <2>1, <2>2
<1>3. Parse(line) = ParsePublish(Tail(line))
  BY ParseByWord
<1> QED
  BY <1>1, <1>2, <1>3 DEF ParsePublish

\* Every line is taken for something.
LEMMA ParseIsRequest ==
    ASSUME NEW line \in Lines
    PROVE  Parse(line) \in Requests
<1>0. /\ Error("INVALID_FORMAT") \in Requests
      /\ \A to \in Lines, cmd \in {"SUBSCRIBE", "UNSUBSCRIBE"} :
            [cmd |-> cmd, topic |-> to] \in Requests
  BY DEF Requests, Error
<1>1. CASE StartsWith(line, "PUBLISH:")
  <2> DEFINE n == FirstColon(Tail(line))
  <2>1. Tail(line) \in Seq(Symbols)
    BY <1>1, LineStarts DEF StartsWith, Lines
  <2>2. n \in 0 .. Len(Tail(line)) /\ Len(Tail(line)) \in Nat
    <3>1. n \in 0 .. Len(Tail(line))
      BY <2>1, FirstColonFinds
    <3> HIDE DEF n
    <3> QED
      BY <2>1, <3>1
  <2>3. Parse(line) = IF n <= 1 THEN Error("INVALID_FORMAT")
                      ELSE [cmd |-> "PUBLISH", topic |-> Before(Tail(line), n),
                            payload |-> After(Tail(line), n)]
    BY <1>1, ParsePublishes
  <2> HIDE DEF n
  <2>4. n > 1 => Before(Tail(line), n) \in Lines /\ After(Tail(line), n) \in Lines
    BY <2>1, <2>2 DEF Before, After, Lines
  <2> QED
    BY <2>2, <2>3, <2>4 DEF Requests, Error
<1>2. CASE ~StartsWith(line, "PUBLISH:")
  <2>1. line # <<>> => Tail(line) \in Lines
    BY LineStarts
  <2> QED
    <3>1. CASE StartsWith(line, "SUBSCRIBE:")
      <4>1. Parse(line) = Error("INVALID_FORMAT")
            \/ Parse(line) = [cmd |-> "SUBSCRIBE", topic |-> Tail(line)]
        BY <3>1, ParseByWord
      <4> QED
        BY <1>0, <2>1, <3>1, <4>1 DEF StartsWith
    <3>2. CASE StartsWith(line, "UNSUBSCRIBE:")
      <4>1. Parse(line) = Error("INVALID_FORMAT")
            \/ Parse(line) = [cmd |-> "UNSUBSCRIBE", topic |-> Tail(line)]
        BY <3>2, ParseByWord
      <4> QED
        BY <1>0, <2>1, <3>2, <4>1 DEF StartsWith
    <3>3. CASE ~StartsWith(line, "SUBSCRIBE:") /\ ~StartsWith(line, "UNSUBSCRIBE:")
      <4>1. \/ Parse(line) = Error("EMPTY_MESSAGE")
            \/ Parse(line) = Error("UNKNOWN_COMMAND")
            \/ Parse(line) = [cmd |-> "PING"]
        BY <1>2, <3>3, ParseByWord
      <4> QED
        BY <4>1 DEF Requests, Error
    <3> QED
      BY <3>1, <3>2, <3>3
<1> QED
  BY <1>1, <1>2

\* What GrammarAgrees says of one line.
Grammatical(line, request) ==
    LET ends == {m \in 3 .. Len(line) : line[m] = ":" /\ ~Has(SubSeq(line, 2, m - 1), ":")}
    IN /\ request.cmd = "PUBLISH" =>
              /\ StartsWith(line, "PUBLISH:") /\ ends # {}
              /\ line \o Newline = PublishLine(request.topic, request.payload)
       /\ StartsWith(line, "PUBLISH:") /\ (\E m \in ends : m < Len(line)) =>
              request.cmd = "PUBLISH"
       /\ \A word \in {"SUBSCRIBE:", "UNSUBSCRIBE:"} :
              StartsWith(line, word) =>
                  IF Len(line) = 1 THEN request.cmd = "ERROR"
                                   ELSE request.topic = Tail(line)

\* The first colon from the third character on ends the topic, if there is one.
LEMMA TopicEnds ==
    ASSUME NEW line \in Lines, line # <<>>, NEW n, n = FirstColon(Tail(line)),
           NEW ends, ends = {m \in 3 .. Len(line) :
                                line[m] = ":" /\ ~Has(SubSeq(line, 2, m - 1), ":")}
    PROVE  ends # {} <=> n > 1
<1> DEFINE rest == Tail(line)
<1>1. /\ rest \in Seq(Symbols) /\ Len(rest) \in Nat /\ Len(line) = Len(rest) + 1
      /\ \A i \in 1 .. Len(rest) : rest[i] = line[i + 1]
  BY LineStarts DEF Lines
<1>2. /\ n \in 0 .. Len(rest)
      /\ n > 0 => rest[n] = ":"
      /\ \A i \in 1 .. Len(rest) : rest[i] = ":" => n > 0 /\ n <= i
  BY <1>1, FirstColonFinds
<1> HIDE DEF rest
<1>3. ASSUME NEW m \in 3 .. Len(line)
      PROVE  Has(SubSeq(line, 2, m - 1), ":") <=> \E i \in 2 .. (m - 1) : line[i] = ":"
  <2> DEFINE z == SubSeq(line, 2, m - 1)
  <2>1. Len(line) \in Nat /\ line \in Seq(Symbols)
    BY <1>1 DEF Lines
  <2>2. z \in Seq(Symbols) /\ Len(z) = m - 2 /\ \A i \in 1 .. (m - 2) : z[i] = line[i + 1]
    BY <2>1
  <2> HIDE DEF z
  <2>3. Has(z, ":") <=> \E i \in 1 .. (m - 2) : z[i] = ":"
    BY <2>1, <2>2 DEF Has, ToSet
  <2>4. ASSUME NEW i \in 1 .. (m - 2), z[i] = ":"
        PROVE  \E j \in 2 .. (m - 1) : line[j] = ":"
    <3>1. i + 1 \in 2 .. (m - 1) /\ line[i + 1] = ":"
      BY <2>1, <2>2, <2>4
    <3> QED
      BY <3>1
  <2>5. ASSUME NEW j \in 2 .. (m - 1), line[j] = ":"
        PROVE  \E i \in 1 .. (m - 2) : z[i] = ":"
    <3> DEFINE i == j - 1
    <3>1. i \in 1 .. (m - 2) /\ i + 1 = j
      BY <2>1
    <3> HIDE DEF i
    <3> QED
      BY <2>2, <2>5, <3>1
  <2> QED
    BY <2>3, <2>4, <2>5 DEF z
<1>4. ASSUME n > 1
      PROVE  ends # {}
  <2>1. n + 1 \in 3 .. Len(line) /\ line[n + 1] = ":"
    BY <1>1, <1>2, <1>4
  <2>2. ASSUME NEW i \in 2 .. ((n + 1) - 1), line[i] = ":"
        PROVE  FALSE
    <3> DEFINE j == i - 1
    <3>1. j \in 1 .. Len(rest) /\ j < n /\ i = j + 1
      BY <1>1, <1>2, <2>2
    <3> HIDE DEF j
    <3> QED
      BY <1>1, <1>2, <2>2, <3>1
  <2>3. n + 1 \in ends
    BY <1>3, <2>1, <2>2
  <2> QED
    BY <2>3
<1>5. ASSUME NEW m \in ends
      PROVE  n > 1
  <2>1. m \in 3 .. Len(line) /\ line[m] = ":" /\ ~Has(SubSeq(line, 2, m - 1), ":")
    OBVIOUS
  <2>2. ~\E i \in 2 .. (m - 1) : line[i] = ":"
    BY <1>3, <2>1
  <2> DEFINE j == m - 1
  <2>3. j \in 1 .. Len(rest) /\ j + 1 = m
    BY <1>1, <2>1
  <2> HIDE DEF j
  <2>4. rest[j] = ":" /\ n > 0 /\ n <= j
    BY <1>1, <1>2, <2>1, <2>3
  <2>5. rest[n] = ":" /\ line[n + 1] = ":"
    BY <1>1, <1>2, <2>4
  <2> QED
    BY <1>2, <2>2, <2>3, <2>4, <2>5
<1> QED
  BY <1>4, <1>5

LEMMA ParseIsGrammatical ==
    ASSUME NEW line \in Lines
    PROVE  Grammatical(line, Parse(line))
<1> DEFINE n == FirstColon(Tail(line))
           rest == Tail(line)
<1>1. CASE StartsWith(line, "PUBLISH:")
  <2>1. /\ line # <<>> /\ Head(line) = "PUBLISH:" /\ rest \in Seq(Symbols)
        /\ line \in Seq(Symbols)
    BY <1>1, LineStarts DEF StartsWith, Lines
  <2>2. /\ n \in 0 .. Len(rest)
        /\ n > 0 => rest[n] = ":"
    BY <2>1, FirstColonFinds
  <2>3. Parse(line) = IF n <= 1 THEN Error("INVALID_FORMAT")
                      ELSE [cmd |-> "PUBLISH", topic |-> Before(rest, n),
                            payload |-> After(rest, n)]
    BY <1>1, ParsePublishes
  <2>4. {m \in 3 .. Len(line) : line[m] = ":" /\ ~Has(SubSeq(line, 2, m - 1), ":")} # {}
            <=> n > 1
    BY <2>1, TopicEnds
  <2>5. ASSUME n > 1
        PROVE  line \o Newline = PublishLine(Before(rest, n), After(rest, n))
    <3>1. n \in 1 .. Len(rest) /\ rest[n] = ":"
      BY <2>2, <2>5
    <3>2. Line("PUBLISH:", Before(rest, n), After(rest, n)) = line
      BY <2>1, <3>1, JoinAtColon
    <3> QED
      BY <3>2, Zenon DEF PublishLine, Line
  <2>6. n \in Nat /\ (n <= 1 <=> ~(n > 1))
    BY <2>1, <2>2
  <2>7. ~StartsWith(line, "SUBSCRIBE:") /\ ~StartsWith(line, "UNSUBSCRIBE:")
    BY <2>1 DEF StartsWith
  <2> HIDE DEF n, rest
  <2>8. Parse(line).cmd = "PUBLISH" <=> n > 1
    BY <2>3, <2>6 DEF Error
  <2>9. n > 1 => Parse(line).topic = Before(rest, n) /\ Parse(line).payload = After(rest, n)
    BY <2>3, <2>6
  <2> QED
    BY <1>1, <2>4, <2>5, <2>7, <2>8, <2>9 DEF Grammatical
<1>2. CASE ~StartsWith(line, "PUBLISH:")
  <2>1. Parse(line).cmd # "PUBLISH"
    BY <1>2, ParseByWord DEF Error, StartsWith
  <2>2. ASSUME NEW word \in {"SUBSCRIBE:", "UNSUBSCRIBE:"}, StartsWith(line, word)
        PROVE  IF Len(line) = 1 THEN Parse(line).cmd = "ERROR"
                                ELSE Parse(line).topic = Tail(line)
    BY <2>2, ParseByWord DEF Error
  <2> QED
    BY <1>2, <2>1, <2>2 DEF Grammatical
<1> QED
  BY <1>1, <1>2

\* A publication, parsed.
LEMMA ParseOfLine ==
    ASSUME NEW to \in Lines, NEW text \in Lines, ~Has(to, ":")
    PROVE  Parse(Line("PUBLISH:", to, text)) =
               IF to = <<>> THEN Error("INVALID_FORMAT")
               ELSE [cmd |-> "PUBLISH", topic |-> to, payload |-> text]
<1> DEFINE line == Line("PUBLISH:", to, text)
           n    == FirstColon(Tail(line))
<1>1. "PUBLISH:" \in Symbols /\ to \in Seq(Symbols) /\ text \in Seq(Symbols)
  BY DEF Symbols, Words, Lines
<1>2. HasParts(line, "PUBLISH:", to, text)
  BY <1>1, LineHasParts, Zenon
<1>3. n = Len(to) + 1 /\ Before(Tail(line), n) = to /\ After(Tail(line), n) = text
  <2>1. SplitsInto(Tail(line), to, text)
    BY <1>1, SplitAtColon, Zenon
  <2> QED
    BY <2>1, Zenon DEF SplitsInto
<1> HIDE DEF line
<1>4. line \in Lines /\ StartsWith(line, "PUBLISH:")
  BY <1>2, HeadTailProperties DEF HasParts, StartsWith, Lines
<1>5. Parse(line) = IF n <= 1 THEN Error("INVALID_FORMAT")
                    ELSE [cmd |-> "PUBLISH", topic |-> Before(Tail(line), n),
                          payload |-> After(Tail(line), n)]
  BY <1>4, ParsePublishes
<1> HIDE DEF n
<1>6. n <= 1 <=> to = <<>>
  BY <1>1, <1>3, EmptySeq
<1> QED
  BY <1>3, <1>5, <1>6 DEF line

\* A notification, shown.
LEMMA ShowOfLine ==
    ASSUME NEW to \in Lines, NEW text \in Lines, ~Has(to, ":")
    PROVE  ShowLine(Line("MESSAGE:", to, text)) = <<[topic |-> to, payload |-> text]>>
<1> DEFINE line == Line("MESSAGE:", to, text)
           n    == FirstColon(Tail(line))
<1>1. "MESSAGE:" \in Symbols /\ to \in Seq(Symbols) /\ text \in Seq(Symbols)
  BY DEF Symbols, Words, Lines
<1>2. HasParts(line, "MESSAGE:", to, text)
  BY <1>1, LineHasParts, Zenon
<1>3. n = Len(to) + 1 /\ Before(Tail(line), n) = to /\ After(Tail(line), n) = text
  <2>1. SplitsInto(Tail(line), to, text)
    BY <1>1, SplitAtColon, Zenon
  <2> QED
    BY <2>1, Zenon DEF SplitsInto
<1> HIDE DEF line
<1>4. StartsWith(line, "MESSAGE:")
  BY <1>2, HeadTailProperties DEF HasParts, StartsWith
<1>5. n > 0
  BY <1>1, <1>3
<1> QED
  BY <1>3, <1>4, <1>5 DEF ShowLine, line

\* The producer's console puts the line together as it was.
LEMMA ConsoleLineIsLine ==
    ASSUME NEW line \in Lines, Sends(line)
    PROVE  ConsoleLine(line) = line \o Newline
<1>1. CASE ~StartsWith(line, "PUBLISH:")
  BY <1>1 DEF ConsoleLine
<1>2. CASE StartsWith(line, "PUBLISH:")
  <2> DEFINE rest == Tail(line)
             n    == FirstColon(rest)
  <2>1. /\ line \in Seq(Symbols) /\ line # <<>> /\ Head(line) = "PUBLISH:"
        /\ rest \in Seq(Symbols) /\ Len(line) = Len(rest) + 1 /\ Head(line) = line[1]
        /\ \A i \in 1 .. Len(rest) : rest[i] = line[i + 1]
    BY <1>2, LineStarts DEF StartsWith, Lines
  <2>2. n \in 0 .. Len(rest) /\ (n > 0 => rest[n] = ":")
        /\ \A i \in 1 .. Len(rest) : rest[i] = ":" => n > 0 /\ n <= i
    BY <2>1, FirstColonFinds
  <2>3. Has(line, ":")
    BY <2>1 DEF Sends, StartsWith
  <2>4. n > 0
    <3>1. PICK j \in 1 .. Len(line) : line[j] = ":"
      BY <2>1, <2>3 DEF Has, ToSet
    <3>2. j # 1
      BY <2>1, <3>1
    <3> DEFINE i == j - 1
    <3>3. i \in 1 .. Len(rest) /\ j = i + 1
      BY <2>1, <3>2
    <3> HIDE DEF i, rest, n
    <3> QED
      BY <2>1, <2>2, <3>1, <3>3
  <2>5. n \in 1 .. Len(rest) /\ rest[n] = ":"
    BY <2>2, <2>4
  <2>6. Line("PUBLISH:", Before(rest, n), After(rest, n)) = line
    BY <2>1, <2>5, JoinAtColon
  <2>7. ConsoleLine(line) = PublishLine(Before(rest, n), After(rest, n))
    BY <1>2 DEF ConsoleLine
  <2> QED
    BY <2>6, <2>7, Zenon DEF PublishLine, Line
<1> QED
  BY <1>1, <1>2

LEMMA PlainHasNoNewline ==
    ASSUME NEW line \in Lines
    PROVE  line \in Seq(Plain) <=> ~Has(line, "newline")
<1>1. line \in Seq(Symbols) /\ Len(line) \in Nat /\ DOMAIN line = 1 .. Len(line)
  BY DEF Lines
<1>2. Has(line, "newline") <=> \E i \in 1 .. Len(line) : line[i] = "newline"
  BY <1>1 DEF Has, ToSet
<1>3. line \in Seq(Plain) => \A i \in 1 .. Len(line) : line[i] # "newline"
  BY <1>1, ElementOfSeq DEF Plain
<1>4. (\A i \in 1 .. Len(line) : line[i] # "newline") => line \in Seq(Plain)
  BY <1>1, ElementOfSeq, SeqDef DEF Plain
<1> QED
  BY <1>2, <1>3, <1>4

LEMMA NewlineAtEnd ==
    ASSUME NEW line \in Seq(Symbols)
    PROVE  /\ line \o Newline \in Seq(Symbols)
           /\ Len(line \o Newline) = Len(line) + 1
           /\ \A i \in 1 .. Len(line) : (line \o Newline)[i] = line[i]
           /\ (line \o Newline)[Len(line) + 1] = "newline"
<1>0. "newline" \in Symbols
  BY ProtocolConstantsOK DEF Symbols
<1>1. line \o Newline \in Seq(Symbols)
  BY <1>0 DEF Newline
<1>2. Len(line \o Newline) = Len(line) + 1
  BY DEF Newline
<1>3. \A i \in 1 .. Len(line) : (line \o Newline)[i] = line[i]
  BY DEF Newline
<1>4. (line \o Newline)[Len(line) + 1] = "newline"
  BY DEF Newline
<1> QED
  BY <1>1, <1>2, <1>3, <1>4

\* getline: a line that is alone is read, and leaves nothing.
LEMMA FirstLine ==
    ASSUME NEW line \in Lines, ~Has(line, "newline"),
           NEW wire0, wire0 = line \o Newline,
           NEW n \in DOMAIN wire0, wire0[n] = "newline"
    PROVE  Before(wire0, n) = line /\ After(wire0, n) = <<>>
<1>0. line \in Seq(Symbols)
  BY DEF Lines
<1>1. /\ wire0 \in Seq(Symbols) /\ Len(wire0) = Len(line) + 1
      /\ \A i \in 1 .. Len(line) : wire0[i] = line[i]
  BY <1>0, NewlineAtEnd
<1>2. \A i \in 1 .. Len(line) : line[i] # "newline"
  BY <1>0 DEF Has, ToSet
<1>3. n \in 1 .. Len(wire0) /\ Len(line) \in Nat
  BY <1>0, <1>1
<1>4. n = Len(line) + 1
  BY <1>1, <1>2, <1>3
<1>5. Before(wire0, n) = line
  <2>1. SubSeq(wire0, 1, Len(line)) \in Seq(Symbols)
        /\ Len(SubSeq(wire0, 1, Len(line))) = Len(line)
        /\ \A i \in 1 .. Len(line) : SubSeq(wire0, 1, Len(line))[i] = wire0[i]
    BY <1>1, <1>3
  <2>2. SubSeq(wire0, 1, Len(line)) = line
    BY <1>0, <1>1, <2>1, SeqEqual
  <2>3. n - 1 = Len(line)
    BY <1>3, <1>4
  <2> QED
    BY <2>2, <2>3 DEF Before
<1>6. After(wire0, n) = <<>>
  BY <1>1, <1>3, <1>4 DEF After
<1> QED
  BY <1>5, <1>6

\* What is before a position, and what is after it.
LEMMA PartsAreLines ==
    ASSUME NEW line \in Lines, NEW n \in DOMAIN line
    PROVE  Before(line, n) \in Lines /\ After(line, n) \in Lines
  BY DEF Lines, Before, After

LEMMA TextsAreLines ==
    /\ Texts \subseteq Seq(Chars) /\ TopicTexts \subseteq Seq(TopicChars)
    /\ Seq(Chars) \subseteq Lines /\ Seq(TopicChars) \subseteq Lines
<1>1. \A S, m : SeqOf(S, m) \subseteq Seq(S)
  <2> SUFFICES ASSUME NEW S, NEW m, NEW s \in SeqOf(S, m)
               PROVE  s \in Seq(S)
    OBVIOUS
  <2>1. PICK k \in 0 .. m : s \in [1 .. k -> S]
    BY DEF SeqOf
  <2>2. k \in Nat
    OBVIOUS
  <2> QED
    BY <2>1, <2>2, SeqDef
<1>2. Chars \subseteq Symbols /\ TopicChars \subseteq Symbols
  BY ProtocolConstantsOK DEF Symbols
<1>3. \A S, T : S \subseteq T => Seq(S) \subseteq Seq(T)
  OBVIOUS
<1> QED
  BY <1>1, <1>2, <1>3 DEF Texts, TopicTexts, Lines

LEMMA WordFirst ==
    ASSUME NEW word \in Words, NEW text \in Lines
    PROVE  /\ <<word>> \o text \in Lines /\ <<word>> \o text # <<>>
           /\ Head(<<word>> \o text) = word /\ Tail(<<word>> \o text) = text
           /\ ~Has(text, "newline") => ~Has(<<word>> \o text, "newline")
<1>1. word \in Plain /\ word \in Symbols /\ text \in Seq(Symbols)
  BY ProtocolConstantsOK DEF Plain, Symbols, Lines, Words
<1>2. <<word>> \o text \in Lines /\ <<word>> \o text # <<>> /\ Head(<<word>> \o text) = word
  BY <1>1 DEF Lines
<1>3. Tail(<<word>> \o text) = text
  BY <1>1
<1>4. text \in Seq(Plain) => <<word>> \o text \in Seq(Plain)
  BY <1>1
<1> QED
  BY <1>2, <1>3, <1>4, PlainHasNoNewline

\* What a log call sends: whatever the text, a line of its own, from which the topic of
\* the logger and the escaped text are read.
LEMMA LogLine ==
    ASSUME NEW text \in Seq(Chars)
    PROVE  /\ format_log_message(text) \in Lines
           /\ Line("PUBLISH:", <<"t">>, format_log_message(text)) \in Lines
           /\ ~Has(Line("PUBLISH:", <<"t">>, format_log_message(text)), "newline")
           /\ Parse(Line("PUBLISH:", <<"t">>, format_log_message(text))) =
                  [cmd |-> "PUBLISH", topic |-> <<"t">>, payload |-> format_log_message(text)]
<1> DEFINE log == format_log_message(text)
           word == "PUBLISH:"
<1>1. /\ ":" \in Plain /\ "[" \in Plain /\ "]" \in Plain /\ "t" \in Plain /\ word \in Plain
      /\ Plain \subseteq Symbols
  BY ProtocolConstantsOK DEF Plain, Symbols, Words
<1>2. escape_message(text) \in Seq(Plain)
  <2>1. Len(text) \in 0 .. Len(text)
    OBVIOUS
  <2> QED
    BY <2>1, EscapesInTurn, WrittenIsPlain
<1>3. log \in Seq(Plain)
  <2>1. Prefix \in Seq(Plain)
    BY <1>1 DEF Prefix
  <2> QED
    BY <1>2, <2>1, ConcatProperties DEF format_log_message
<1> HIDE DEF log
<1>4. \A S : S \subseteq Symbols => Seq(S) \subseteq Lines
  BY DEF Lines
<1>5. log \in Lines /\ <<"t">> \in Lines
  <2>1. log \in Lines
    BY <1>1, <1>3, <1>4, Zenon
  <2>2. <<"t">> \in Lines
    BY <1>1 DEF Lines
  <2> QED
    BY <2>1, <2>2
<1>6. Line(word, <<"t">>, log) \in Seq(Plain)
  BY <1>1, <1>3 DEF Line, Colon
<1>7. Line(word, <<"t">>, log) \in Lines /\ ~Has(Line(word, <<"t">>, log), "newline")
  BY <1>1, <1>4, <1>6, PlainHasNoNewline
<1>8. ~Has(<<"t">>, ":") /\ <<"t">> # <<>>
  BY DEF Has, ToSet
<1>9. Parse(Line(word, <<"t">>, log)) = [cmd |-> "PUBLISH", topic |-> <<"t">>, payload |-> log]
  BY <1>5, <1>8, ParseOfLine
<1> QED
  BY <1>5, <1>7, <1>9 DEF log

\* Two texts are never logged alike.
LEMMA LogsDiffer ==
    ASSUME NEW a \in Seq(Chars), NEW b \in Seq(Chars),
           format_log_message(a) = format_log_message(b)
    PROVE  a = b
<1>1. Prefix \in Seq(Plain)
  BY ProtocolConstantsOK DEF Plain, Symbols, Prefix
<1>2. escape_message(a) \in Seq(Plain) /\ escape_message(b) \in Seq(Plain)
  <2>1. Len(a) \in 0 .. Len(a) /\ Len(b) \in 0 .. Len(b)
    OBVIOUS
  <2> QED
    BY <2>1, EscapesInTurn, WrittenIsPlain
<1>3. escape_message(a) = escape_message(b)
  <2> DEFINE x == escape_message(a)
             y == escape_message(b)
  <2>1. Prefix \o x = Prefix \o y
    BY DEF format_log_message
  <2> HIDE DEF x, y
  <2>2. \A s, t, v \in Seq(Plain) : s \o t = s \o v => t = v
    BY ConcatSimplifications
  <2>3. x \in Seq(Plain) /\ y \in Seq(Plain)
    BY <1>2 DEF x, y
  <2>4. x = y
    BY <1>1, <2>1, <2>2, <2>3, Zenon
  <2> QED
    BY <2>4 DEF x, y
<1> QED
  BY <1>3, EscapeIsInjective

-------------------------------------------------------------------------------
(* The invariant. *)

\* A call, and the line that it sends.
Calls == [by : {"log"}, text : Seq(Chars)]
    \cup [by : {"publish"}, topic : Seq(TopicChars), text : Seq(Chars)]
    \cup [by : {"producer", "hand"}, line : {line \in Lines : ~Has(line, "newline")}]

LineOf(call) ==
    CASE call.by = "log"     -> Line("PUBLISH:", <<"t">>, format_log_message(call.text))
      [] call.by = "publish" -> Line("PUBLISH:", call.topic, call.text)
      [] OTHER               -> call.line

ProtocolTypeOK ==
    /\ topic \in Seq(TopicChars)
    /\ sent \in {Nothing} \cup Calls
    /\ wire \in Lines
    /\ processed \in Seq([line : Lines, request : Requests])
    /\ stream \in Seq(Lines)
    /\ shown \in Seq([topic : Lines, payload : Lines])

\* Each line was taken for what it says.
ReadRight ==
    \A n \in DOMAIN processed : processed[n].request = Parse(processed[n].line)

\* What the consumer is sent of a request.
Notified(request) ==
    IF request.cmd = "PUBLISH" /\ request.topic = topic THEN <<Notification(request)>> ELSE <<>>

Idle == wire = <<>> /\ processed = <<>> /\ stream = <<>> /\ shown = <<>>

OnItsWay(line) == wire = line \o Newline /\ processed = <<>> /\ stream = <<>> /\ shown = <<>>

HasBeenRead(line) ==
    /\ wire = <<>>
    /\ processed = <<[line |-> line, request |-> Parse(line)]>>
    /\ \/ stream = Notified(Parse(line)) /\ shown = <<>>
       \/ /\ stream = <<>> /\ Notified(Parse(line)) # <<>>
          /\ shown = ShowLine(Notification(Parse(line)))

\* A line without newline is one line all the way: on the wire, or read once, and then
\* what the consumer gets of it is on the way, or shown.
Progress ==
    IF sent = Nothing THEN Idle
    ELSE ~Has(LineOf(sent), "newline") => OnItsWay(LineOf(sent)) \/ HasBeenRead(LineOf(sent))

ProtocolInv == ProtocolTypeOK /\ ReadRight /\ Progress

\* Every call sends the line that it stands for, and a newline.
LEMMA SendsOneLine ==
    ASSUME Send
    PROVE  /\ sent' \in Calls /\ LineOf(sent') \in Lines
           /\ wire' = LineOf(sent') \o Newline
           /\ UNCHANGED <<topic, processed, stream, shown>>
<1> USE TextsAreLines
<1>1. ASSUME NEW text \in Texts, Log(text)
      PROVE  /\ sent' \in Calls /\ LineOf(sent') \in Lines
             /\ wire' = LineOf(sent') \o Newline
             /\ UNCHANGED <<topic, processed, stream, shown>>
  <2> DEFINE line == Line("PUBLISH:", <<"t">>, format_log_message(text))
  <2>1. line \in Lines
    BY LogLine
  <2>2. wire' = line \o Newline
    BY <1>1 DEF Log, Write, PublishLine, Line
  <2> HIDE DEF line
  <2>3. sent' = [by |-> "log", text |-> text] /\ UNCHANGED <<topic, processed, stream, shown>>
    BY <1>1 DEF Log, Write
  <2>4. sent' \in Calls
    BY <2>3 DEF Calls
  <2>5. LineOf(sent') = line
    BY <2>3 DEF LineOf, line
  <2> QED
    BY <2>1, <2>2, <2>3, <2>4, <2>5
<1>2. ASSUME NEW to \in TopicTexts, NEW text \in Texts, PublishRaw(to, text)
      PROVE  /\ sent' \in Calls /\ LineOf(sent') \in Lines
             /\ wire' = LineOf(sent') \o Newline
             /\ UNCHANGED <<topic, processed, stream, shown>>
  <2> DEFINE line == Line("PUBLISH:", to, text)
  <2>1. line \in Lines
    <3>1. "PUBLISH:" \in Symbols /\ to \in Seq(Symbols) /\ text \in Seq(Symbols)
      BY DEF Symbols, Words, Lines
    <3> QED
      BY <3>1, LineHasParts DEF HasParts, Lines
  <2>2. wire' = line \o Newline
    BY <1>2 DEF PublishRaw, Write, PublishLine, Line
  <2> HIDE DEF line
  <2>3. /\ sent' = [by |-> "publish", topic |-> to, text |-> text]
        /\ UNCHANGED <<topic, processed, stream, shown>>
    BY <1>2 DEF PublishRaw, Write
  <2>4. sent' \in Calls
    BY <2>3 DEF Calls
  <2>5. LineOf(sent') = line
    BY <2>3 DEF LineOf, line
  <2> QED
    BY <2>1, <2>2, <2>3, <2>4, <2>5
<1>3. ASSUME NEW line \in Lines, TypeByHand(line)
      PROVE  /\ sent' \in Calls /\ LineOf(sent') \in Lines
             /\ wire' = LineOf(sent') \o Newline
             /\ UNCHANGED <<topic, processed, stream, shown>>
  <2>1. /\ sent' = [by |-> "hand", line |-> line] /\ ~Has(line, "newline")
        /\ wire' = line \o Newline /\ UNCHANGED <<topic, processed, stream, shown>>
    BY <1>3 DEF TypeByHand, Write
  <2>2. sent' \in Calls
    BY <2>1 DEF Calls
  <2>3. LineOf(sent') = line
    BY <2>1 DEF LineOf
  <2> QED
    BY <2>1, <2>2, <2>3
<1>4. ASSUME NEW word \in Words, NEW text \in Lines, Type(word, text)
      PROVE  /\ sent' \in Calls /\ LineOf(sent') \in Lines
             /\ wire' = LineOf(sent') \o Newline
             /\ UNCHANGED <<topic, processed, stream, shown>>
  <2> DEFINE line == <<word>> \o text
  <2>1. /\ ~Has(text, "newline") /\ Sends(line)
        /\ sent' = [by |-> "producer", line |-> line] /\ wire' = ConsoleLine(line)
        /\ UNCHANGED <<topic, processed, stream, shown>>
    BY <1>4, Zenon DEF Type, Write
  <2>2. line \in Lines /\ ~Has(line, "newline")
    BY <2>1, WordFirst
  <2> HIDE DEF line
  <2>3. wire' = line \o Newline
    BY <2>1, <2>2, ConsoleLineIsLine
  <2>4. sent' \in Calls
    BY <2>1, <2>2 DEF Calls
  <2>5. LineOf(sent') = line
    BY <2>1 DEF LineOf
  <2> QED
    BY <2>1, <2>2, <2>3, <2>4, <2>5
<1>5. \A to \in TopicTexts, text \in Texts : to \o text \in Lines
  <2>1. \A s, t \in Seq(Symbols) : s \o t \in Seq(Symbols)
    OBVIOUS
  <2> QED
    BY <2>1 DEF Lines
<1>6. \A word \in Words, to \in TopicTexts, text \in Texts :
         /\ <<word>> \o to \o text = <<word>> \o (to \o text)
         /\ <<word>> \o (to \o text) \in Lines
  <2> SUFFICES ASSUME NEW word \in Words, NEW to \in TopicTexts, NEW text \in Texts
               PROVE  /\ <<word>> \o to \o text = <<word>> \o (to \o text)
                      /\ <<word>> \o (to \o text) \in Lines
    OBVIOUS
  <2>1. <<word>> \in Seq(Symbols) /\ to \in Seq(Symbols) /\ text \in Seq(Symbols)
    BY DEF Symbols, Lines
  <2>2. <<word>> \o to \o text = <<word>> \o (to \o text)
    BY <2>1, ConcatAssociative
  <2> QED
    BY <1>5, <2>2, WordFirst
<1>7. \/ \E text \in Texts : Log(text)
      \/ \E to \in TopicTexts, text \in Texts : PublishRaw(to, text)
      \/ \E line \in Lines : TypeByHand(line)
      \/ \E word \in Words, text \in Lines : Type(word, text)
  <2>1. ASSUME NEW to \in TopicTexts, NEW text \in Texts, TypeByHand(to \o text)
        PROVE  \E line \in Lines : TypeByHand(line)
    BY <1>5, <2>1, Zenon
  <2>2. ASSUME NEW word \in Words, NEW to \in TopicTexts, NEW text \in Texts,
               TypeByHand(<<word>> \o to \o text)
        PROVE  \E line \in Lines : TypeByHand(line)
    <3> DEFINE line == <<word>> \o to \o text
    <3>1. line = <<word>> \o (to \o text) /\ <<word>> \o (to \o text) \in Lines
      BY <1>6, Zenon
    <3>2. line \in Lines /\ TypeByHand(line)
      BY <2>2, <3>1, Zenon
    <3> QED
      BY <3>2, Zenon
  <2>3. ASSUME NEW word \in Words, NEW to \in TopicTexts, NEW text \in Texts,
               Type(word, to \o text)
        PROVE  \E w \in Words, line \in Lines : Type(w, line)
    BY <1>5, <2>3, Zenon
  <2> QED
    BY <2>1, <2>2, <2>3, Zenon DEF Send
<1> QED
  BY <1>1, <1>2, <1>3, <1>4, <1>7, Zenon

LEMMA LineOfCall ==
    ASSUME NEW call \in Calls
    PROVE  /\ LineOf(call) \in Lines
           /\ call.by # "publish" => ~Has(LineOf(call), "newline")
           /\ call # Nothing
<1>1. CASE call.by = "log"
  <2> DEFINE line == Line("PUBLISH:", <<"t">>, format_log_message(call.text))
  <2>1. call.text \in Seq(Chars) /\ LineOf(call) = line
    BY <1>1 DEF Calls, LineOf
  <2>2. line \in Lines /\ ~Has(line, "newline")
    BY <2>1, LogLine
  <2> HIDE DEF line
  <2> QED
    BY <1>1, <2>1, <2>2 DEF Nothing
<1>2. CASE call.by = "publish"
  <2>1. /\ call.topic \in Seq(Symbols) /\ call.text \in Seq(Symbols)
        /\ LineOf(call) = Line("PUBLISH:", call.topic, call.text)
    BY <1>2, TextsAreLines DEF Calls, LineOf, Lines
  <2>2. "PUBLISH:" \in Symbols
    BY DEF Symbols, Words
  <2>3. Line("PUBLISH:", call.topic, call.text) \in Lines
    BY <2>1, <2>2, LineHasParts DEF HasParts, Lines
  <2> QED
    BY <1>2, <2>1, <2>3 DEF Nothing
<1>3. CASE call.by \notin {"log", "publish"}
  BY <1>3 DEF Calls, LineOf, Nothing
<1> QED
  BY <1>1, <1>2, <1>3

\* A notification of what was published is a line, and what it shows is a message.
LEMMA NotificationIsLine ==
    ASSUME NEW request \in Requests, request.cmd = "PUBLISH"
    PROVE  /\ Notification(request) \in Lines
           /\ Notification(request) = Line("MESSAGE:", request.topic, request.payload)
<1>1. request.topic \in Seq(Symbols) /\ request.payload \in Seq(Symbols)
  BY DEF Requests, Lines
<1>2. "MESSAGE:" \in Symbols
  BY DEF Symbols, Words
<1>3. Line("MESSAGE:", request.topic, request.payload) \in Lines
  BY <1>1, <1>2, LineHasParts DEF HasParts, Lines
<1>4. Notification(request) = Line("MESSAGE:", request.topic, request.payload)
  BY Zenon DEF Notification, Line
<1> QED
  BY <1>3, <1>4

LEMMA ShowsMessages ==
    ASSUME NEW line \in Lines
    PROVE  ShowLine(line) \in Seq([topic : Lines, payload : Lines])
<1> DEFINE rest == Tail(line)
           n    == FirstColon(rest)
<1>1. CASE StartsWith(line, "MESSAGE:") /\ n > 0
  <2>1. rest \in Lines /\ rest \in Seq(Symbols)
    BY <1>1, LineStarts DEF StartsWith, Lines
  <2>2. n \in 0 .. Len(rest)
    BY <2>1, FirstColonFinds
  <2>3. ShowLine(line) = <<[topic |-> Before(rest, n), payload |-> After(rest, n)]>>
    BY <1>1, Zenon DEF ShowLine
  <2>4. n \in DOMAIN rest
    <3> HIDE DEF n, rest
    <3> QED
      BY <1>1, <2>1, <2>2
  <2>5. Before(rest, n) \in Lines /\ After(rest, n) \in Lines
    BY <2>1, <2>4, PartsAreLines
  <2> HIDE DEF n, rest
  <2> QED
    BY <2>3, <2>5
<1>2. CASE ~(StartsWith(line, "MESSAGE:") /\ n > 0)
  BY <1>2 DEF ShowLine
<1> QED
  BY <1>1, <1>2

-------------------------------------------------------------------------------
(* The invariant holds first, and every step keeps it. *)

LEMMA ProtocolInitInv ==
    ASSUME ProtocolInit
    PROVE  ProtocolInv
<1>1. PICK name \in TopicTexts :
         topic = IF Parse(<<"SUBSCRIBE:">> \o name).cmd = "SUBSCRIBE"
                 THEN Parse(<<"SUBSCRIBE:">> \o name).topic ELSE <<>>
  BY Zenon DEF ProtocolInit
<1>2. topic \in Seq(TopicChars)
  <2> DEFINE line == <<"SUBSCRIBE:">> \o name
  <2>1. name \in Lines /\ name \in Seq(TopicChars) /\ "SUBSCRIBE:" \in Words
    BY TextsAreLines DEF Words
  <2>2. line \in Lines /\ StartsWith(line, "SUBSCRIBE:") /\ Tail(line) = name
    BY <2>1, WordFirst, Zenon DEF StartsWith
  <2> HIDE DEF line
  <2>3. Parse(line) = IF Len(line) = 1 THEN Error("INVALID_FORMAT")
                      ELSE [cmd |-> "SUBSCRIBE", topic |-> Tail(line)]
    BY <2>2, ParseByWord
  <2>4. topic = IF Parse(line).cmd = "SUBSCRIBE" THEN Parse(line).topic ELSE <<>>
    BY <1>1, Zenon DEF line
  <2>5. topic = name \/ topic = <<>>
    BY <2>2, <2>3, <2>4 DEF Error
  <2>6. <<>> \in Seq(TopicChars)
    OBVIOUS
  <2> QED
    BY <2>1, <2>5, <2>6, Zenon
<1>3. ProtocolTypeOK
  BY <1>2 DEF ProtocolInit, ProtocolTypeOK, Lines
<1>4. ReadRight
  BY DEF ProtocolInit, ReadRight
<1>5. Progress
  BY DEF ProtocolInit, Progress, Idle
<1> QED
  BY <1>3, <1>4, <1>5 DEF ProtocolInv

LEMMA SendKeepsInv ==
    ASSUME ProtocolInv, sent = Nothing, Send
    PROVE  ProtocolInv'
<1>1. /\ sent' \in Calls /\ LineOf(sent') \in Lines /\ wire' = LineOf(sent') \o Newline
      /\ UNCHANGED <<topic, processed, stream, shown>>
  BY SendsOneLine
<1>2. Idle /\ ProtocolTypeOK
  BY DEF ProtocolInv, Progress
<1>3. wire' \in Lines
  BY <1>1, NewlineAtEnd DEF Lines
<1>4. ProtocolTypeOK'
  BY <1>1, <1>2, <1>3 DEF ProtocolTypeOK
<1>5. ReadRight'
  BY <1>1 DEF ProtocolInv, ReadRight
<1>6. sent' # Nothing
  BY <1>1, LineOfCall
<1>7. (OnItsWay(LineOf(sent)))'
  BY <1>1, <1>2, Zenon DEF OnItsWay, Idle
<1>8. Progress'
  BY <1>6, <1>7 DEF Progress
<1> QED
  BY <1>4, <1>5, <1>8 DEF ProtocolInv

LEMMA ReadKeepsInv ==
    ASSUME ProtocolInv, ReadLine
    PROVE  ProtocolInv'
<1>1. PICK n \in DOMAIN wire :
         /\ wire[n] = "newline" /\ wire' = After(wire, n)
         /\ \E request \in {Parse(Before(wire, n))} :
              /\ processed' = Append(processed, [line |-> Before(wire, n), request |-> request])
              /\ stream' = IF request.cmd = "PUBLISH" /\ request.topic = topic
                           THEN Append(stream, Notification(request)) ELSE stream
         /\ UNCHANGED <<topic, sent, shown>>
  BY Zenon DEF ReadLine
<1> DEFINE line == Before(wire, n)
           request == Parse(line)
<1>2. /\ wire[n] = "newline" /\ wire' = After(wire, n)
      /\ processed' = Append(processed, [line |-> line, request |-> request])
      /\ stream' = IF request.cmd = "PUBLISH" /\ request.topic = topic
                   THEN Append(stream, Notification(request)) ELSE stream
      /\ topic' = topic /\ sent' = sent /\ shown' = shown
  BY <1>1, Zenon
<1>3. ProtocolTypeOK /\ ReadRight /\ Progress
  BY DEF ProtocolInv
<1>4. line \in Lines /\ After(wire, n) \in Lines
  BY <1>3, PartsAreLines DEF ProtocolTypeOK
<1>5. request \in Requests
  BY <1>4, ParseIsRequest
<1>6. request.cmd = "PUBLISH" => Notification(request) \in Lines
  BY <1>5, NotificationIsLine
<1> HIDE DEF line, request
<1> DEFINE entry == [line |-> line, request |-> request]
<1>7. entry \in [line : Lines, request : Requests]
  BY <1>4, <1>5
<1>8. ProtocolTypeOK'
  <2>1. processed' \in Seq([line : Lines, request : Requests])
    BY <1>2, <1>3, <1>7, AppendProperties DEF ProtocolTypeOK
  <2>2. stream' \in Seq(Lines)
    BY <1>2, <1>3, <1>6, AppendProperties DEF ProtocolTypeOK
  <2> QED
    BY <1>2, <1>3, <1>4, <2>1, <2>2 DEF ProtocolTypeOK
<1>9. ReadRight'
  <2> SUFFICES ASSUME NEW m \in DOMAIN processed'
               PROVE  processed'[m].request = Parse(processed'[m].line)
    BY DEF ReadRight
  <2>1. processed \in Seq([line : Lines, request : Requests]) /\ processed' = Append(processed, entry)
    BY <1>2, <1>3 DEF ProtocolTypeOK
  <2>2. entry.request = Parse(entry.line)
    BY DEF entry, request
  <2>3. processed'[m] = entry \/ (m \in DOMAIN processed /\ processed'[m] = processed[m])
    <3> HIDE DEF entry
    <3> QED
      BY <1>7, <2>1
  <2> HIDE DEF entry
  <2> QED
    BY <1>3, <2>2, <2>3 DEF ReadRight
<1>10. Progress'
  <2>1. wire # <<>>
    OBVIOUS
  <2>2. sent # Nothing /\ sent \in Calls
    BY <1>3, <2>1 DEF Progress, Idle, ProtocolTypeOK
  <2> SUFFICES ASSUME ~Has(LineOf(sent), "newline")
               PROVE  (HasBeenRead(LineOf(sent)))'
    BY <1>2, <2>2 DEF Progress
  <2>3. OnItsWay(LineOf(sent))
    BY <1>3, <2>1, <2>2 DEF Progress, HasBeenRead
  <2>4. line = LineOf(sent) /\ wire' = <<>>
    BY <1>2, <2>2, <2>3, LineOfCall, FirstLine DEF OnItsWay, line
  <2>5. processed' = <<entry>> /\ shown' = <<>>
    BY <1>2, <2>3 DEF OnItsWay
  <2>6. stream' = IF request.cmd = "PUBLISH" /\ request.topic = topic
                  THEN <<Notification(request)>> ELSE <<>>
    BY <1>2, <2>3 DEF OnItsWay
  <2>7. request = Parse(LineOf(sent))
    BY <2>4 DEF request
  <2> QED
    BY <1>2, <2>4, <2>5, <2>6, <2>7, Zenon DEF HasBeenRead, Notified
<1> QED
  BY <1>8, <1>9, <1>10 DEF ProtocolInv

LEMMA ShowKeepsInv ==
    ASSUME ProtocolInv, Show
    PROVE  ProtocolInv'
<1>1. /\ stream # <<>> /\ shown' = shown \o ShowLine(Head(stream)) /\ stream' = Tail(stream)
      /\ topic' = topic /\ sent' = sent /\ wire' = wire /\ processed' = processed
  BY DEF Show
<1>2. ProtocolTypeOK /\ ReadRight /\ Progress
  BY DEF ProtocolInv
<1>3. stream \in Seq(Lines) /\ Head(stream) \in Lines /\ Tail(stream) \in Seq(Lines)
  BY <1>1, <1>2 DEF ProtocolTypeOK
<1>4. ProtocolTypeOK'
  <2>1. shown' \in Seq([topic : Lines, payload : Lines])
    BY <1>1, <1>2, <1>3, ShowsMessages, ConcatProperties DEF ProtocolTypeOK
  <2> QED
    BY <1>1, <1>2, <1>3, <2>1 DEF ProtocolTypeOK
<1>5. ReadRight'
  BY <1>1, <1>2 DEF ReadRight
<1>6. Progress'
  <2>1. sent # Nothing /\ sent \in Calls
    BY <1>1, <1>2 DEF Progress, Idle, ProtocolTypeOK
  <2> SUFFICES ASSUME ~Has(LineOf(sent), "newline")
               PROVE  (HasBeenRead(LineOf(sent)))'
    BY <1>1, <2>1 DEF Progress
  <2> DEFINE line == LineOf(sent)
             request == Parse(line)
  <2>2. HasBeenRead(line)
    BY <1>1, <1>2, <2>1 DEF Progress, OnItsWay
  <2>3. stream = Notified(request) /\ shown = <<>> /\ wire = <<>>
        /\ processed = <<[line |-> line, request |-> request]>>
    BY <1>1, <2>2, Zenon DEF HasBeenRead
  <2> HIDE DEF line, request
  <2>4. stream = <<Notification(request)>> /\ request.cmd = "PUBLISH" /\ request.topic = topic
    BY <1>1, <2>3 DEF Notified
  <2>5. /\ Notification(request) \in Lines
        /\ ShowLine(Notification(request)) \in Seq([topic : Lines, payload : Lines])
    <3>1. Head(stream) = Notification(request)
      BY <2>4
    <3>2. ShowLine(Head(stream)) \in Seq([topic : Lines, payload : Lines])
      BY <1>3, ShowsMessages
    <3> QED
      BY <1>3, <3>1, <3>2, Zenon
  <2>6. stream' = <<>> /\ shown' = ShowLine(Notification(request))
    BY <1>1, <2>3, <2>4, <2>5
  <2>7. Notified(request)' # <<>>
    <3>1. request' = request
      BY <1>1 DEF request, line
    <3> QED
      BY <1>1, <2>4, <3>1 DEF Notified
  <2> QED
    BY <1>1, <2>3, <2>6, <2>7 DEF HasBeenRead, line, request
<1> QED
  BY <1>4, <1>5, <1>6 DEF ProtocolInv

LEMMA ProtocolInvariant == ProtocolSpec => []ProtocolInv
<1>1. ProtocolInit => ProtocolInv
  BY ProtocolInitInv
<1>2. ProtocolInv /\ [ProtocolNext]_protocolVars => ProtocolInv'
  <2> SUFFICES ASSUME ProtocolInv, [ProtocolNext]_protocolVars
               PROVE  ProtocolInv'
    OBVIOUS
  <2>1. CASE sent = Nothing /\ Send
    BY <2>1, SendKeepsInv
  <2>2. CASE ReadLine
    BY <2>2, ReadKeepsInv
  <2>3. CASE Show
    BY <2>3, ShowKeepsInv
  <2>4. CASE UNCHANGED protocolVars
    <3>1. /\ topic' = topic /\ sent' = sent /\ wire' = wire
          /\ processed' = processed /\ stream' = stream /\ shown' = shown
      BY <2>4 DEF protocolVars
    <3>2. ProtocolTypeOK' /\ ReadRight'
      BY <3>1, Zenon DEF ProtocolInv, ProtocolTypeOK, ReadRight
    <3>3. Progress'
      BY <3>1, Zenon DEF ProtocolInv, Progress, Idle, OnItsWay, HasBeenRead, Notified
    <3> QED
      BY <3>2, <3>3 DEF ProtocolInv
  <2> QED
    BY <2>1, <2>2, <2>3, <2>4 DEF ProtocolNext
<1> QED
  BY <1>1, <1>2, PTL DEF ProtocolSpec

-------------------------------------------------------------------------------
(* The theorems. *)

\* The variables keep their types: whatever arrives at process_message is taken for a
\* request or an error, and what start_listening shows is a topic and a payload.
THEOREM ProtocolTypeCorrect == ProtocolSpec => []ProtocolTypeOK
<1>1. ProtocolInv => ProtocolTypeOK
  BY DEF ProtocolInv
<1> QED
  BY <1>1, ProtocolInvariant, PTL

\* What process_message takes for a publication is "PUBLISH:topic:payload", read as it
\* was written; every such line with a payload is taken for one; and a subscription
\* names all that follows its command: for lines of any length.
THEOREM ProtocolGrammarAgrees == ProtocolSpec => []GrammarAgrees
<1>1. ProtocolInv => GrammarAgrees
  <2> SUFFICES ASSUME ProtocolInv
               PROVE  GrammarAgrees
    OBVIOUS
  <2>1. \A n \in DOMAIN processed : Grammatical(processed[n].line, processed[n].request)
    <3> SUFFICES ASSUME NEW n \in DOMAIN processed
                 PROVE  Grammatical(processed[n].line, processed[n].request)
      OBVIOUS
    <3>1. processed \in Seq([line : Lines, request : Requests])
      BY DEF ProtocolInv, ProtocolTypeOK
    <3>2. processed[n] \in [line : Lines, request : Requests]
      <4> DEFINE Entries == [line : Lines, request : Requests]
      <4> HIDE DEF Entries
      <4>1. processed \in Seq(Entries)
        BY <3>1 DEF Entries
      <4>2. processed[n] \in Entries
        BY <4>1
      <4> QED
        BY <4>2 DEF Entries
    <3>3. processed[n].line \in Lines
      BY <3>2
    <3>4. processed[n].request = Parse(processed[n].line)
      BY DEF ProtocolInv, ReadRight
    <3> QED
      BY <3>3, <3>4, ParseIsGrammatical
  <2> QED
    BY <2>1, Zenon DEF GrammarAgrees, Grammatical
<1> QED
  BY <1>1, ProtocolInvariant, PTL

\* What was sent is not on its way when nothing is.
LEMMA SentIsRead ==
    ASSUME ProtocolInv, sent # Nothing, wire = <<>>, ~Has(LineOf(sent), "newline")
    PROVE  sent \in Calls /\ HasBeenRead(LineOf(sent))
<1>1. sent \in Calls
  BY DEF ProtocolInv, ProtocolTypeOK
<1>2. LineOf(sent) \o Newline # <<>>
  <2> DEFINE line == LineOf(sent)
  <2>1. line \in Seq(Symbols)
    BY <1>1, LineOfCall DEF Lines
  <2> HIDE DEF line
  <2>2. Len(line \o Newline) = Len(line) + 1 /\ Len(line) \in Nat
    BY <2>1, NewlineAtEnd
  <2> QED
    BY <2>2 DEF line
<1> QED
  BY <1>1, <1>2, Zenon DEF ProtocolInv, Progress, OnItsWay

\* escape_message does what its comment claims, for every text: what is logged arrives as
\* one publication in the logger's topic, whose payload no other text has. The escapes
\* begin with a backslash and differ in what follows, and nothing else does.
THEOREM ProtocolLogIsOneLine == ProtocolSpec => []LogIsOneLine
<1>1. ProtocolInv => LogIsOneLine
  <2> SUFFICES ASSUME ProtocolInv, sent.by = "log", wire = <<>>
               PROVE  /\ Len(processed) = 1
                      /\ processed[1].request.topic = <<"t">>
                      /\ ~\E text \in Texts \ {sent.text} :
                             format_log_message(text) = processed[1].request.payload
    BY DEF LogIsOneLine
  <2>1. sent # Nothing
    BY DEF Nothing
  <2>2. sent \in Calls
    BY <2>1 DEF ProtocolInv, ProtocolTypeOK
  <2>3. sent.text \in Seq(Chars)
    BY <2>2 DEF Calls
  <2> DEFINE line == LineOf(sent)
             log  == format_log_message(sent.text)
  <2>4. line = Line("PUBLISH:", <<"t">>, log)
    BY DEF LineOf
  <2>5. Parse(line) = [cmd |-> "PUBLISH", topic |-> <<"t">>, payload |-> log]
    BY <2>3, <2>4, LogLine
  <2>6. ~Has(line, "newline")
    BY <2>2, LineOfCall
  <2>7. processed = <<[line |-> line, request |-> Parse(line)]>>
    BY <2>1, <2>6, SentIsRead DEF HasBeenRead
  <2> HIDE DEF line, log
  <2>8. Len(processed) = 1 /\ processed[1].request = Parse(line)
    BY <2>7
  <2>9. \A text \in Texts \ {sent.text} : format_log_message(text) # log
    BY <2>3, TextsAreLines, LogsDiffer DEF log
  <2> QED
    BY <2>5, <2>8, <2>9
<1> QED
  BY <1>1, ProtocolInvariant, PTL

\* What is published in a topic without colon or newline is shown by a consumer of that
\* topic as it was published, once, and by no other: publish, process_message,
\* TopicManager::publish and start_listening agree on where a topic ends.
THEOREM ProtocolShownAsPublished == ProtocolSpec => []ShownAsPublished
<1>1. ProtocolInv => ShownAsPublished
  <2> SUFFICES ASSUME ProtocolInv, sent.by = "publish", wire = <<>>, stream = <<>>,
                      ~Has(sent.topic, "newline"), ~Has(sent.topic, ":"),
                      ~Has(sent.text, "newline")
               PROVE  shown = IF sent.topic = topic /\ topic # <<>>
                              THEN <<[topic |-> topic, payload |-> sent.text]>> ELSE <<>>
    BY DEF ShownAsPublished
  <2>1. sent # Nothing
    BY DEF Nothing
  <2>2. sent \in Calls
    BY <2>1 DEF ProtocolInv, ProtocolTypeOK
  <2> DEFINE line == LineOf(sent)
             request == Parse(line)
  <2>3. sent.topic \in Lines /\ sent.text \in Lines
    BY <2>2, TextsAreLines DEF Calls
  <2>4. line = Line("PUBLISH:", sent.topic, sent.text)
    BY DEF LineOf
  <2>5. request = IF sent.topic = <<>> THEN Error("INVALID_FORMAT")
                  ELSE [cmd |-> "PUBLISH", topic |-> sent.topic, payload |-> sent.text]
    BY <2>3, <2>4, ParseOfLine
  <2>6. ~Has(line, "newline")
    <3>1. "PUBLISH:" \in Plain /\ ":" \in Plain
      BY ProtocolConstantsOK DEF Plain, Symbols, Words
    <3>2. sent.topic \in Seq(Plain) /\ sent.text \in Seq(Plain)
      BY <2>3, PlainHasNoNewline
    <3>3. Line("PUBLISH:", sent.topic, sent.text) \in Seq(Plain)
      BY <3>1, <3>2 DEF Line, Colon
    <3>4. line \in Lines
      BY <2>2, LineOfCall
    <3> QED
      BY <2>4, <3>3, <3>4, PlainHasNoNewline
  <2>7. HasBeenRead(line)
    BY <2>1, <2>6, SentIsRead
  <2>8. CASE sent.topic = topic /\ topic # <<>>
    <3>1. request = [cmd |-> "PUBLISH", topic |-> topic, payload |-> sent.text]
      BY <2>5, <2>8
    <3> HIDE DEF line, request
    <3>2. Notified(request) = <<Notification(request)>>
      BY <3>1 DEF Notified
    <3>3. Notified(request) # <<>>
      BY <3>2
    <3>4. shown = ShowLine(Notification(request))
      BY <2>7, <3>3 DEF HasBeenRead, request
    <3>5. Notification(request) = Line("MESSAGE:", topic, sent.text)
      BY <3>1 DEF Notification, Line
    <3>6. ShowLine(Line("MESSAGE:", topic, sent.text)) =
              <<[topic |-> topic, payload |-> sent.text]>>
      BY <2>3, <2>8, ShowOfLine
    <3> QED
      BY <2>8, <3>4, <3>5, <3>6
  <2>9. CASE ~(sent.topic = topic /\ topic # <<>>)
    <3> HIDE DEF line, request
    <3>1. Notified(request) = <<>>
      BY <2>5, <2>9 DEF Notified, Error
    <3>2. shown = <<>>
      BY <2>7, <3>1 DEF HasBeenRead, request
    <3> QED
      BY <2>9, <3>2
  <2> QED
    BY <2>8, <2>9
<1> QED
  BY <1>1, ProtocolInvariant, PTL

\* The producer's console and process_message agree: taking the line apart and putting it
\* together changes nothing, and the broker reads the line that was typed, once.
THEOREM ProtocolTypedIsRead == ProtocolSpec => []TypedIsRead
<1>1. ProtocolInv => TypedIsRead
  <2> SUFFICES ASSUME ProtocolInv, sent.by = "producer", wire = <<>>
               PROVE  Len(processed) = 1 /\ processed[1].line = sent.line
    BY DEF TypedIsRead
  <2>1. sent # Nothing
    BY DEF Nothing
  <2>2. sent \in Calls
    BY <2>1 DEF ProtocolInv, ProtocolTypeOK
  <2>3. LineOf(sent) = sent.line /\ ~Has(LineOf(sent), "newline")
    BY <2>2, LineOfCall DEF LineOf
  <2> DEFINE request == Parse(LineOf(sent))
  <2>4. processed = <<[line |-> LineOf(sent), request |-> request]>>
    BY <2>1, <2>3, SentIsRead DEF HasBeenRead
  <2> HIDE DEF request
  <2> QED
    BY <2>3, <2>4
<1> QED
  BY <1>1, ProtocolInvariant, PTL
===============================================================================
