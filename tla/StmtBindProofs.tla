--------------------------- MODULE StmtBindProofs ---------------------------
(***************************************************************************)
(* The scanner, the binds and the defines, for texts of every length, any  *)
(* number of rows and columns: the scan that jumps over literals and       *)
(* comments finds what a reading character by character finds, the server  *)
(* gets what was bound, and a fetch finds what was defined.                *)
(***************************************************************************)
EXTENDS StmtBind, SequenceTheorems, FiniteSetTheorems, WellFoundedInduction, TLAPS

IsText(s) == s \in Seq(STRING)

LEMMA TextIs ==
  ASSUME NEW s, IsText(s)
  PROVE  /\ Len(s) \in Nat /\ DOMAIN s = 1 .. Len(s)
         /\ \A i \in 1 .. Len(s) : At(s, i) = s[i] /\ s[i] \in STRING
         /\ \A i \in Int : i \notin 1 .. Len(s) => At(s, i) = "end"
<1>1. Len(s) \in Nat /\ s \in [1 .. Len(s) -> STRING] /\ DOMAIN s = 1 .. Len(s)
  BY LenProperties DEF IsText
<1> QED
  BY <1>1 DEF At

(* The two characters the solvers cannot read are no other.                *)
LEMMA OtherCharacters ==
  /\ Blank \notin {"'", "/", "-", "*", ":", "?", "\\", "\n", "\r", "a", "b", "K", "end"}
  /\ DQuote \notin {"'", "/", "-", "*", ":", "?", "\\", "\n", "\r", "a", "b", "K", "end"}
  /\ Blank # DQuote
BY Zenon DEF Blank, DQuote

-----------------------------------------------------------------------------
(* Induction over numbers, upward and downward: the least element of a set *)
(* of numbers does for it.                                                 *)
LEMMA AllNumbers ==
  ASSUME NEW D, 0 \in D, \A m \in Nat : m \in D => m + 1 \in D
  PROVE  Nat \subseteq D
<1> SUFFICES ASSUME Nat \ D # {} PROVE FALSE
  OBVIOUS
<1>1. PICK m \in Nat \ D : \A k \in Nat \ D : <<k, m>> \notin OpToRel(<, Nat)
  <2>1. Nat \ D \subseteq Nat
    OBVIOUS
  <2> QED
    BY <2>1, NatLessThanWellFounded, WFMin
<1>2. m \in Nat /\ m \notin D /\ m # 0
  BY <1>1
<1>3. m - 1 \in Nat /\ m - 1 < m /\ (m - 1) + 1 = m
  BY <1>2
<1>4. m - 1 \notin D
  BY <1>2, <1>3
<1>5. <<m - 1, m>> \in OpToRel(<, Nat)
  BY <1>2, <1>3 DEF OpToRel
<1> QED
  BY <1>1, <1>3, <1>4, <1>5

LEMMA AllUpTo ==
  ASSUME NEW a \in Int, NEW b \in Int, NEW D, a \in D,
         \A i \in a .. b - 1 : i \in D => i + 1 \in D
  PROVE  a .. b \subseteq D
<1> DEFINE K == {m \in Nat : a + m \in D \/ a + m > b}
<1>1. 0 \in K
  OBVIOUS
<1>2. ASSUME NEW m \in Nat, m \in K PROVE m + 1 \in K
  <2>1. CASE a + m + 1 > b
    BY <2>1
  <2>2. CASE a + m + 1 <= b
    <3>1. a + m \in D /\ a + m \in a .. b - 1
      BY <1>2, <2>2
    <3>2. (a + m) + 1 \in D
      BY <3>1
    <3> QED
      BY <3>2
  <2> QED
    BY <2>1, <2>2
<1>3. Nat \subseteq K
  BY <1>1, <1>2, AllNumbers
<1> SUFFICES ASSUME NEW i \in a .. b PROVE i \in D
  OBVIOUS
<1>4. i - a \in Nat /\ a + (i - a) = i /\ ~ i > b
  OBVIOUS
<1>5. i - a \in K
  BY <1>3, <1>4
<1> QED
  BY <1>4, <1>5

LEMMA AllDownTo ==
  ASSUME NEW a \in Int, NEW b \in Int, NEW D, b \in D,
         \A i \in a .. b - 1 : i + 1 \in D => i \in D
  PROVE  a .. b \subseteq D
<1> DEFINE K == {m \in Nat : b - m \in D \/ b - m < a}
<1>1. 0 \in K
  OBVIOUS
<1>2. ASSUME NEW m \in Nat, m \in K PROVE m + 1 \in K
  <2>1. CASE b - (m + 1) < a
    BY <2>1
  <2>2. CASE b - (m + 1) >= a
    <3> DEFINE i == b - (m + 1)
    <3>1. i + 1 = b - m /\ i \in a .. b - 1 /\ ~ b - m < a
      BY <2>2
    <3>2. i \in D
      BY <1>2, <3>1
    <3> QED
      BY <3>2
  <2> QED
    BY <2>1, <2>2
<1>3. Nat \subseteq K
  BY <1>1, <1>2, AllNumbers
<1> SUFFICES ASSUME NEW i \in a .. b PROVE i \in D
  OBVIOUS
<1>4. b - i \in Nat /\ b - (b - i) = i /\ ~ i < a
  OBVIOUS
<1>5. b - i \in K
  BY <1>3, <1>4
<1> QED
  BY <1>4, <1>5

(* The least element of a set of offsets. *)
LEMMA MinIs ==
  ASSUME NEW S, S \subseteq Nat, S # {}
  PROVE  Min(S) \in S /\ \A x \in S : Min(S) <= x
<1>1. PICK m \in S : \A k \in S : <<k, m>> \notin OpToRel(<, Nat)
  BY NatLessThanWellFounded, WFMin
<1>2. \A k \in S : m <= k
  <2> SUFFICES ASSUME NEW k \in S, ~ m <= k PROVE FALSE
    OBVIOUS
  <2>1. k \in Nat /\ m \in Nat /\ k < m
    OBVIOUS
  <2>2. <<k, m>> \in OpToRel(<, Nat)
    BY <2>1 DEF OpToRel
  <2> QED
    BY <1>1, <2>2
<1> QED
  BY <1>2 DEF Min

-----------------------------------------------------------------------------
(* The three recursive functions are what their equations say.             *)

IsModes(s, m, n) ==
  m = [i \in 1 .. n |-> IF i = 1 THEN "code" ELSE After(m[i - 1], s[i - 1])]

LEMMA ModesExist ==
  ASSUME NEW s, NEW n \in Nat
  PROVE  \E m : IsModes(s, m, n)
<1> DEFINE D == {k \in Nat : \E m : IsModes(s, m, k)}
<1>1. 0 \in D
  <2>1. IsModes(s, [i \in 1 .. 0 |-> "code"], 0)
    BY DEF IsModes
  <2> QED
    BY <2>1
<1>2. ASSUME NEW k \in Nat, k \in D PROVE k + 1 \in D
  <2>1. PICK m : IsModes(s, m, k)
    BY <1>2
  <2> DEFINE last == IF k = 0 THEN "code" ELSE After(m[k], s[k])
             w == [i \in 1 .. k + 1 |-> IF i = k + 1 THEN last ELSE m[i]]
  <2>2. \A i \in 1 .. k : m[i] = IF i = 1 THEN "code" ELSE After(m[i - 1], s[i - 1])
    BY <2>1 DEF IsModes
  <2>3. ASSUME NEW i \in 1 .. k + 1
        PROVE  w[i] = IF i = 1 THEN "code" ELSE After(w[i - 1], s[i - 1])
    <3>1. CASE i = 1 /\ k = 0
      BY <3>1
    <3>2. CASE i = 1 /\ k # 0
      BY <2>2, <3>2
    <3>3. CASE i # 1 /\ i = k + 1
      <4>1. w[i] = After(m[k], s[k]) /\ i - 1 = k /\ w[k] = m[k]
        BY <3>3
      <4> QED
        BY <3>3, <4>1
    <3>4. CASE i # 1 /\ i # k + 1
      <4>1. i \in 1 .. k /\ i - 1 \in 1 .. k
        BY <3>4
      <4>2. w[i] = m[i] /\ w[i - 1] = m[i - 1]
        BY <3>4, <4>1
      <4> QED
        BY <2>2, <3>4, <4>1, <4>2
    <3> QED
      BY <3>1, <3>2, <3>3, <3>4
  <2>4. w = [i \in 1 .. k + 1 |-> IF i = 1 THEN "code" ELSE After(w[i - 1], s[i - 1])]
    BY <2>3
  <2>5. IsModes(s, w, k + 1)
    BY <2>4 DEF IsModes
  <2> QED
    BY <2>5
<1>3. Nat \subseteq D
  BY <1>1, <1>2, AllNumbers
<1> QED
  BY <1>3

(* The first character is read in code, each next one as the last left it. *)
LEMMA ModesAre ==
  ASSUME NEW s, IsText(s)
  PROVE  /\ Modes(s)[1] = "code"
         /\ \A i \in 1 .. Len(s) : Modes(s)[i + 1] = After(Modes(s)[i], s[i])
<1>0. Len(s) \in Nat /\ Len(s) + 1 \in Nat
  BY TextIs
<1>1. IsModes(s, Modes(s), Len(s) + 1)
  <2>1. Modes(s) = CHOOSE m : IsModes(s, m, Len(s) + 1)
    BY DEF Modes, IsModes
  <2> QED
    BY <1>0, <2>1, ModesExist
<1>2. \A i \in 1 .. Len(s) + 1 :
        Modes(s)[i] = IF i = 1 THEN "code" ELSE After(Modes(s)[i - 1], s[i - 1])
  BY <1>1 DEF IsModes
<1> QED
  BY <1>0, <1>2

(* skipQuoted *)
QuotedBody(s, q, f, o) ==
  IF o > Len(s) THEN NONE
  ELSE IF s[o] = q THEN o + 1
  ELSE f[IF s[o] = "\\" THEN o + Escape ELSE o + 1]
IsQuoted(s, q, f, k) == f = [o \in k .. Len(s) + 2 |-> QuotedBody(s, q, f, o)]
QuotedFrom(s, q) == CHOOSE f : IsQuoted(s, q, f, 1)

LEMMA QuotedExists ==
  ASSUME NEW s, IsText(s), NEW q
  PROVE  \E f : IsQuoted(s, q, f, 1)
<1>0. Len(s) \in Nat
  BY TextIs
<1> DEFINE L == Len(s)
           D == {k \in 1 .. L + 3 : \E f : IsQuoted(s, q, f, k)}
<1>1. L + 3 \in D
  <2>1. IsQuoted(s, q, [o \in L + 3 .. L + 2 |-> NONE], L + 3)
    BY <1>0 DEF IsQuoted
  <2> QED
    BY <1>0, <2>1
<1>2. ASSUME NEW k \in 1 .. (L + 3) - 1, k + 1 \in D PROVE k \in D
  <2>1. PICK f : IsQuoted(s, q, f, k + 1)
    BY <1>2
  <2> DEFINE g == [o \in k .. L + 2 |-> IF o = k THEN QuotedBody(s, q, f, k) ELSE f[o]]
  <2>2. \A o \in k + 1 .. L + 2 : f[o] = QuotedBody(s, q, f, o)
    BY <2>1 DEF IsQuoted
  <2>3. \A o \in k + 1 .. L + 2 : g[o] = f[o]
    BY <1>0
  <2>4. ASSUME NEW o \in k .. L + 2 PROVE QuotedBody(s, q, g, o) = QuotedBody(s, q, f, o)
    <3>1. CASE o > L
      BY <3>1 DEF QuotedBody
    <3>2. CASE o <= L
      <4>1. o + 1 \in k + 1 .. L + 2 /\ o + Escape \in k + 1 .. L + 2
        BY <1>0, <3>2 DEF Escape
      <4>2. g[o + 1] = f[o + 1] /\ g[o + Escape] = f[o + Escape]
        BY <2>3, <4>1
      <4> HIDE DEF g
      <4> QED
        BY <4>2 DEF QuotedBody
    <3> QED
      BY <1>0, <3>1, <3>2
  <2>5. ASSUME NEW o \in k .. L + 2 PROVE g[o] = QuotedBody(s, q, g, o)
    <3>1. CASE o = k
      BY <2>4, <3>1
    <3>2. CASE o # k
      <4>1. o \in k + 1 .. L + 2
        BY <1>0, <3>2
      <4> QED
        BY <2>2, <2>3, <2>4, <4>1
    <3> QED
      BY <3>1, <3>2
  <2>6. g = [o \in k .. L + 2 |-> QuotedBody(s, q, g, o)]
    BY <2>5
  <2>7. IsQuoted(s, q, g, k)
    BY <2>6 DEF IsQuoted
  <2> QED
    BY <1>0, <2>7
<1>3. 1 .. L + 3 \subseteq D
  <2>1. \A k \in 1 .. (L + 3) - 1 : k + 1 \in D => k \in D
    BY <1>2
  <2>2. 1 \in Int /\ L + 3 \in Int
    BY <1>0
  <2> HIDE DEF D, L
  <2> QED
    BY <1>1, <2>1, <2>2, AllDownTo, SMTT(30)
<1>4. 1 \in D
  <2> HIDE DEF D
  <2> QED
    BY <1>0, <1>3
<1> QED
  BY <1>4

LEMMA QuotedIs ==
  ASSUME NEW s, IsText(s), NEW q
  PROVE  /\ \A start : skipQuoted(s, start, q) = QuotedFrom(s, q)[start + 1]
         /\ \A o \in 1 .. Len(s) + 2 :
              QuotedFrom(s, q)[o] = QuotedBody(s, q, QuotedFrom(s, q), o)
<1>1. \A start : skipQuoted(s, start, q) = QuotedFrom(s, q)[start + 1]
  BY DEF skipQuoted, QuotedFrom, IsQuoted, QuotedBody
<1>2. IsQuoted(s, q, QuotedFrom(s, q), 1)
  BY QuotedExists DEF QuotedFrom
<1> QED
  BY <1>1, <1>2 DEF IsQuoted

-----------------------------------------------------------------------------
(* What each skip leaves behind it.                                        *)

LEMMA NameSkipped ==
  ASSUME NEW s, IsText(s), NEW o \in 1 .. Len(s)
  PROVE  /\ skipName(s, o) \in o + 1 .. Len(s) + 1
         /\ \A i \in o + 1 .. skipName(s, o) - 1 : s[i] \in Letters
<1> DEFINE S == {e \in o + 1 .. Len(s) + 1 : At(s, e) \notin Letters}
<1>1. Len(s) \in Nat /\ At(s, Len(s) + 1) = "end" /\ \A i \in 1 .. Len(s) : At(s, i) = s[i]
  BY TextIs
<1>2. Len(s) + 1 \in S /\ S \subseteq Nat
  BY <1>1 DEF Letters
<1>3. Min(S) \in S /\ \A x \in S : Min(S) <= x
  <2> HIDE DEF S
  <2> QED
    BY <1>2, MinIs
<1>4. skipName(s, o) = Min(S)
  BY DEF skipName
<1>5. ASSUME NEW i \in o + 1 .. Min(S) - 1 PROVE s[i] \in Letters
  <2>1. Min(S) \in o + 1 .. Len(s) + 1
    BY <1>3
  <2>2. i \in 1 .. Len(s) /\ i \in o + 1 .. Len(s) + 1 /\ ~ Min(S) <= i
    BY <1>1, <2>1
  <2>3. i \notin S
    BY <1>3, <2>2
  <2> QED
    BY <1>1, <2>2, <2>3
<1> QED
  BY <1>3, <1>4, <1>5

LEMMA BlanksSkipped ==
  ASSUME NEW s, IsText(s)
  PROVE  /\ skipBlanks(s, 1) \in 1 .. Len(s) + 1
         /\ \A i \in 1 .. skipBlanks(s, 1) - 1 : s[i] \in Blanks
<1> DEFINE S == {e \in 1 .. Len(s) + 1 : At(s, e) \notin Blanks}
<1>1. Len(s) \in Nat /\ At(s, Len(s) + 1) = "end" /\ \A i \in 1 .. Len(s) : At(s, i) = s[i]
  BY TextIs
<1>2. Len(s) + 1 \in S /\ S \subseteq Nat
  BY <1>1, OtherCharacters DEF Blanks, LineEnds
<1>3. Min(S) \in S /\ \A x \in S : Min(S) <= x
  <2> HIDE DEF S
  <2> QED
    BY <1>2, MinIs
<1>4. skipBlanks(s, 1) = Min(S)
  BY DEF skipBlanks
<1>5. ASSUME NEW i \in 1 .. Min(S) - 1 PROVE s[i] \in Blanks
  <2>1. Min(S) \in 1 .. Len(s) + 1
    BY <1>3
  <2>2. i \in 1 .. Len(s) /\ i \in 1 .. Len(s) + 1 /\ ~ Min(S) <= i
    BY <1>1, <2>1
  <2>3. i \notin S
    BY <1>3, <2>2
  <2> QED
    BY <1>1, <2>2, <2>3
<1> QED
  BY <1>3, <1>4, <1>5

(* The characters from a to b - 1 are no code. *)
NoCode(s, a, b) == \A i \in a .. b - 1 : Modes(s)[i] \notin Code

(* Behind a literal that was opened before k: its end, or none because the *)
(* text ends first.                                                        *)
Closed(s, k, e) ==
  \/ e = NONE /\ Unfinished(s)
  \/ e \in k + 1 .. Len(s) + 1 /\ Modes(s)[e] = "code" /\ NoCode(s, k, e)

LEMMA QuotedCloses ==
  ASSUME NEW s, IsText(s), NEW q \in {"'", DQuote}, NEW k \in 1 .. Len(s) + 1,
         Modes(s)[k] = InCode(q)
  PROVE  Closed(s, k, QuotedFrom(s, q)[k])
<1> DEFINE L == Len(s)
           M == Modes(s)
           f == QuotedFrom(s, q)
           D == {j \in 1 .. L + 1 : \A i \in j .. L + 1 : M[i] = InCode(q) => Closed(s, i, f[i])}
<1>0. L \in Nat /\ \A i \in 1 .. L : s[i] \in STRING
  BY TextIs
<1>1. /\ \A i \in 1 .. L : M[i + 1] = After(M[i], s[i])
      /\ \A i \in 1 .. L + 2 : f[i] = QuotedBody(s, q, f, i)
  BY ModesAre, QuotedIs
<1> HIDE DEF f, M
<1>2. ASSUME NEW j \in 1 .. L + 1, M[j] = InCode(q), \A i \in j + 1 .. L + 1 : M[i] = InCode(q) => Closed(s, i, f[i])
      PROVE  Closed(s, j, f[j])
  <2>0. InCode(q) \notin Code /\ InCode(q) # "line" /\ InCode(q) \in {"string", "ident"}
    BY OtherCharacters DEF InCode, Code
  <2>1. CASE j = L + 1
    <3>1. f[j] = NONE
      BY <1>0, <1>1, <2>1 DEF QuotedBody
    <3>2. Unfinished(s)
      BY <1>2, <2>0, <2>1 DEF Unfinished, M
    <3> QED
      BY <3>1, <3>2 DEF Closed
  <2>2. CASE j <= L /\ s[j] = q
    <3>1. f[j] = j + 1 /\ j + 1 \in j + 1 .. L + 1
      BY <1>0, <1>1, <2>2 DEF QuotedBody
    <3>2. M[j + 1] = "code"
      BY <1>0, <1>1, <1>2, <2>2, OtherCharacters DEF After, InComment, InCode, Code
    <3>3. NoCode(s, j, j + 1)
      BY <1>2, <2>0 DEF NoCode, M
    <3> QED
      BY <3>1, <3>2, <3>3 DEF Closed, M
  <2>3. CASE j <= L /\ s[j] # q /\ s[j] # "\\"
    <3>1. f[j] = f[j + 1] /\ j + 1 \in j + 1 .. L + 1
      BY <1>0, <1>1, <2>3 DEF QuotedBody
    <3>2. M[j + 1] = InCode(q)
      BY <1>0, <1>1, <1>2, <2>3, OtherCharacters DEF After, InComment, InCode, Code
    <3>3. Closed(s, j + 1, f[j])
      BY <1>2, <3>1, <3>2
    <3>4. M[j] \notin Code
      BY <1>2, <2>0
    <3> QED
      BY <3>3, <3>4 DEF Closed, NoCode, M
  <2>4. CASE j <= L /\ s[j] # q /\ s[j] = "\\"
    <3>1. f[j] = f[j + 2]
      BY <1>0, <1>1, <2>4, SMTT(30) DEF QuotedBody, Escape
    <3>2. M[j + 1] \in {"string\\", "ident\\"} /\ M[j + 1] \notin Code \union {"line"}
      BY <1>0, <1>1, <1>2, <2>4, OtherCharacters DEF After, InComment, InCode, Code
    <3>3. CASE j = L
      <4>1. f[j] = NONE
        BY <1>0, <1>1, <3>1, <3>3 DEF QuotedBody
      <4>2. Unfinished(s)
        BY <3>2, <3>3 DEF Unfinished, M
      <4> QED
        BY <4>1, <4>2 DEF Closed
    <3>4. CASE j < L
      <4>1. j + 1 \in 1 .. L /\ (j + 1) + 1 = j + 2 /\ j + 2 \in j + 1 .. L + 1
        BY <1>0, <3>4
      <4>2. M[j + 2] = After(M[j + 1], s[j + 1])
        BY <1>1, <4>1
      <4>3. M[j + 2] = InCode(q)
        BY <1>0, <1>1, <1>2, <2>4, <4>2, OtherCharacters DEF After, InComment, InCode, Code
      <4>4. Closed(s, j + 2, f[j])
        BY <1>2, <3>1, <4>1, <4>3
      <4>5. M[j] \notin Code /\ M[j + 1] \notin Code
        BY <1>2, <2>0, <3>2
      <4> QED
        BY <4>4, <4>5 DEF Closed, NoCode, M
    <3> QED
      BY <1>0, <2>4, <3>3, <3>4
  <2> QED
    BY <1>0, <2>1, <2>2, <2>3, <2>4
<1>3. L + 1 \in D
  <2>1. \A i \in (L + 1) + 1 .. L + 1 : M[i] = InCode(q) => Closed(s, i, f[i])
    BY <1>0
  <2>2. M[L + 1] = InCode(q) => Closed(s, L + 1, f[L + 1])
    BY <1>0, <1>2, <2>1
  <2> QED
    BY <1>0, <2>2
<1>4. \A j \in 1 .. (L + 1) - 1 : j + 1 \in D => j \in D
  <2> SUFFICES ASSUME NEW j \in 1 .. (L + 1) - 1, j + 1 \in D PROVE j \in D
    OBVIOUS
  <2>1. M[j] = InCode(q) => Closed(s, j, f[j])
    BY <1>0, <1>2
  <2> QED
    BY <1>0, <2>1
<1>5. 1 .. L + 1 \subseteq D
  <2>1. 1 \in Int /\ L + 1 \in Int
    BY <1>0
  <2> HIDE DEF D, L
  <2> QED
    BY <1>3, <1>4, <2>1, AllDownTo
<1>6. k \in D
  <2> HIDE DEF D
  <2> QED
    BY <1>5
<1> QED
  BY <1>6 DEF f, M

(* The scanner stands where no comment begins with the character before,   *)
(* or at the end.                                                          *)
Clean(s, o) ==
  /\ Modes(s)[o] \in Code
  /\ o <= Len(s) => InComment(Modes(s)[o], s[o]) = InCode(s[o])
Ready(s, o) ==
  /\ o \in 1 .. Len(s) + 1
  /\ Clean(s, o) \/ (o = Len(s) + 1 /\ Modes(s)[o] = "line")

(* No placeholder begins from a to b - 1. *)
NoStart(s, a, b) == \A i \in a .. b - 1 : s[i] \in {"?", ":"} => Modes(s)[i] \notin Code

(* Behind what begins at o there is a place to go on from, or none because *)
(* the text ends first.                                                    *)
Passed(s, o, b) ==
  \/ b = NONE /\ Unfinished(s)
  \/ b \in o + 1 .. Len(s) + 1 /\ Ready(s, b) /\ NoStart(s, o + 1, b)

LEMMA CodeIsClean ==
  ASSUME NEW s, NEW o \in 1 .. Len(s) + 1, Modes(s)[o] = "code"
  PROVE  Clean(s, o) /\ Ready(s, o)
<1>1. \A c : InComment("code", c) = InCode(c)
  BY DEF InComment
<1> QED
  BY <1>1 DEF Clean, Ready, Code

LEMMA NextMode ==
  ASSUME NEW s, IsText(s), NEW o \in 1 .. Len(s), Clean(s, o)
  PROVE  Modes(s)[o + 1] = InCode(s[o])
<1>1. Modes(s)[o + 1] = After(Modes(s)[o], s[o])
  BY ModesAre
<1>2. Modes(s)[o] \in Code /\ InComment(Modes(s)[o], s[o]) = InCode(s[o])
  BY TextIs DEF Clean
<1>3. \A m \in Code : \A c : After(m, c) = InComment(m, c)
  BY DEF After, Code
<1> QED
  BY <1>1, <1>2, <1>3

LEMMA PairIs ==
  ASSUME NEW s, IsText(s), NEW o \in 1 .. Len(s), NEW c, NEW d, Pair(s, o, c, d), d # "end"
  PROVE  o + 1 \in 1 .. Len(s) /\ s[o] = c /\ s[o + 1] = d
<1>1. At(s, o) = c /\ At(s, o + 1) = d /\ At(s, o) = s[o]
  BY TextIs DEF Pair
<1>2. o + 1 \in 1 .. Len(s)
  <2> SUFFICES ASSUME o + 1 \notin 1 .. Len(s) PROVE FALSE
    OBVIOUS
  <2>1. At(s, o + 1) = "end"
    BY TextIs
  <2> QED
    BY <1>1, <2>1
<1> QED
  BY <1>1, <1>2, TextIs

LEMMA NamePassed ==
  ASSUME NEW s, IsText(s), NEW o \in 1 .. Len(s), Clean(s, o), s[o] = ":"
  PROVE  Passed(s, o, skipName(s, o))
<1> DEFINE e == skipName(s, o)
           M == Modes(s)
           D == {i \in o + 1 .. e : M[i] = "code"}
<1>0. /\ Len(s) \in Nat
      /\ e \in o + 1 .. Len(s) + 1 /\ \A i \in o + 1 .. e - 1 : s[i] \in Letters
      /\ \A i \in 1 .. Len(s) : M[i + 1] = After(M[i], s[i])
  BY NameSkipped, TextIs, ModesAre
<1> HIDE DEF e, M
<1>1. o + 1 \in D
  <2>1. M[o + 1] = InCode(":")
    BY NextMode DEF M
  <2> QED
    BY <1>0, <2>1, OtherCharacters DEF InCode
<1>2. \A i \in o + 1 .. e - 1 : i \in D => i + 1 \in D
  <2> SUFFICES ASSUME NEW i \in o + 1 .. e - 1, i \in D PROVE i + 1 \in D
    OBVIOUS
  <2>1. M[i] = "code" /\ s[i] \in Letters /\ i \in 1 .. Len(s) /\ i + 1 \in o + 1 .. e
    BY <1>0
  <2>2. M[i + 1] = InCode(s[i])
    BY <1>0, <2>1 DEF After, InComment, Code
  <2>3. InCode(s[i]) = "code"
    BY <2>1, OtherCharacters DEF InCode, Letters
  <2> QED
    BY <2>1, <2>2, <2>3
<1>3. o + 1 .. e \subseteq D
  <2>1. o + 1 \in Int /\ e \in Int
    BY <1>0
  <2> HIDE DEF D
  <2> QED
    BY <1>1, <1>2, <2>1, AllUpTo
<1>4. M[e] = "code" /\ e \in 1 .. Len(s) + 1
  BY <1>0, <1>3
<1>5. Ready(s, e)
  BY <1>4, CodeIsClean DEF M
<1>6. NoStart(s, o + 1, e)
  BY <1>0 DEF NoStart, Letters
<1> QED
  BY <1>0, <1>5, <1>6 DEF Passed, e

LEMMA QuotePassed ==
  ASSUME NEW s, IsText(s), NEW o \in 1 .. Len(s), Clean(s, o), s[o] \in {"'", DQuote}
  PROVE  Passed(s, o, skipQuoted(s, o, s[o]))
<1> DEFINE e == skipQuoted(s, o, s[o])
<1>0. Len(s) \in Nat /\ o + 1 \in 1 .. Len(s) + 1
  BY TextIs
<1>1. e = QuotedFrom(s, s[o])[o + 1]
  BY QuotedIs
<1>2. Modes(s)[o + 1] = InCode(s[o])
  BY NextMode
<1>3. Closed(s, o + 1, e)
  BY <1>0, <1>1, <1>2, QuotedCloses
<1> HIDE DEF e
<1>4. CASE e \in o + 2 .. Len(s) + 1 /\ Modes(s)[e] = "code" /\ NoCode(s, o + 1, e)
  <2>1. e \in 1 .. Len(s) + 1 /\ e \in o + 1 .. Len(s) + 1
    BY <1>0, <1>4
  <2>2. Ready(s, e)
    BY <1>4, <2>1, CodeIsClean
  <2> QED
    BY <1>4, <2>1, <2>2 DEF Passed, NoCode, NoStart, e
<1> QED
  BY <1>0, <1>3, <1>4 DEF Closed, Passed, e

(* A comment begins: the mode behind its two characters. *)
LEMMA CommentOpens ==
  ASSUME NEW s, IsText(s), NEW o \in 1 .. Len(s), Clean(s, o),
         NEW c \in {"/", "-"}, NEW d \in {"*", "/", "-"}, Pair(s, o, c, d),
         c = "-" => d = "-", c = "/" => d # "-"
  PROVE  /\ o + 2 \in 1 .. Len(s) + 1 /\ s[o] = c /\ s[o + 1] = d
         /\ Modes(s)[o + 2] = IF d = "*" THEN "block" ELSE "line"
<1>0. Len(s) \in Nat
  BY TextIs
<1>1. o + 1 \in 1 .. Len(s) /\ s[o] = c /\ s[o + 1] = d
  BY PairIs
<1>2. Modes(s)[o + 1] = c
  <2>1. Modes(s)[o + 1] = InCode(c)
    BY <1>1, NextMode
  <2> QED
    BY <2>1, OtherCharacters DEF InCode
<1>3. Modes(s)[(o + 1) + 1] = After(c, d)
  BY <1>1, <1>2, ModesAre
<1>4. After(c, d) = IF d = "*" THEN "block" ELSE "line"
  BY OtherCharacters DEF After, InComment, Code
<1>5. (o + 1) + 1 = o + 2 /\ o + 2 \in 1 .. Len(s) + 1
  BY <1>0, <1>1
<1> QED
  BY <1>1, <1>3, <1>4, <1>5

(* Up to the first pair of a star and a slash the text is read as comment. *)
BlockUpTo(s, a, i) ==
  /\ Modes(s)[i] \in {"block", "block*"}
  /\ Modes(s)[i] = "block*" <=> i > a /\ s[i - 1] = "*"

LEMMA BlockGoesOn ==
  ASSUME NEW s, IsText(s), NEW a \in 1 .. Len(s) + 1, Modes(s)[a] = "block",
         NEW b \in a .. Len(s) + 1,
         \A i \in a .. b - 2 : ~Pair(s, i, "*", "/")
  PROVE  \A i \in a .. b : BlockUpTo(s, a, i)
<1> DEFINE D == {i \in a .. b : BlockUpTo(s, a, i)}
<1>0. Len(s) \in Nat /\ \A i \in 1 .. Len(s) : At(s, i) = s[i]
  BY TextIs
<1>1. a \in D
  BY <1>0 DEF BlockUpTo
<1>2. \A i \in a .. b - 1 : i \in D => i + 1 \in D
  <2> SUFFICES ASSUME NEW i \in a .. b - 1, i \in D PROVE i + 1 \in D
    OBVIOUS
  <2>1. i \in 1 .. Len(s) /\ i + 1 \in a .. b /\ i + 1 > a /\ (i + 1) - 1 = i
    BY <1>0
  <2>2. BlockUpTo(s, a, i)
    OBVIOUS
  <2>3. Modes(s)[i + 1] = After(Modes(s)[i], s[i])
    BY <2>1, ModesAre
  <2>4. ~(Modes(s)[i] = "block*" /\ s[i] = "/")
    <3> SUFFICES ASSUME Modes(s)[i] = "block*", s[i] = "/" PROVE FALSE
      OBVIOUS
    <3>1. i > a /\ s[i - 1] = "*"
      BY <2>2 DEF BlockUpTo
    <3>2. i - 1 \in a .. b - 2 /\ i - 1 \in 1 .. Len(s) /\ (i - 1) + 1 = i
      BY <1>0, <2>1, <3>1
    <3>3. Pair(s, i - 1, "*", "/")
      BY <1>0, <2>1, <3>1, <3>2 DEF Pair
    <3> QED
      BY <3>2, <3>3
  <2>5. Modes(s)[i + 1] = IF s[i] = "*" THEN "block*" ELSE "block"
    BY <2>2, <2>3, <2>4 DEF BlockUpTo, After, Code
  <2>6. BlockUpTo(s, a, i + 1)
    BY <2>1, <2>5 DEF BlockUpTo
  <2> QED
    BY <2>1, <2>6
<1>3. a .. b \subseteq D
  <2>1. a \in Int /\ b \in Int
    BY <1>0
  <2> HIDE DEF D
  <2> QED
    BY <1>1, <1>2, <2>1, AllUpTo
<1> QED
  BY <1>3

LEMMA BlockPassed ==
  ASSUME NEW s, IsText(s), NEW o \in 1 .. Len(s), Clean(s, o), Pair(s, o, "/", "*")
  PROVE  Passed(s, o, skipComment1(s, o))
<1> DEFINE L == Len(s)
           S == {e \in o + 2 .. Len(s) : Pair(s, e, "*", "/")}
<1>0. Len(s) \in Nat /\ \A i \in 1 .. Len(s) : At(s, i) = s[i]
  BY TextIs
<1>1. o + 2 \in 1 .. L + 1 /\ s[o] = "/" /\ s[o + 1] = "*" /\ Modes(s)[o + 2] = "block"
  BY CommentOpens
<1>2. CASE S = {}
  <2>1. \A i \in o + 2 .. (L + 1) - 2 : ~Pair(s, i, "*", "/")
    BY <1>0, <1>2
  <2>2. BlockUpTo(s, o + 2, L + 1)
    <3>1. L + 1 \in o + 2 .. L + 1 /\ L + 1 \in o + 2 .. Len(s) + 1
      BY <1>0, <1>1
    <3> QED
      BY <1>1, <2>1, <3>1, BlockGoesOn
  <2>3. Unfinished(s)
    BY <2>2 DEF BlockUpTo, Unfinished, Code
  <2>4. skipComment1(s, o) = NONE
    BY <1>2 DEF skipComment1
  <2> QED
    BY <2>3, <2>4 DEF Passed
<1>3. CASE S # {}
  <2> DEFINE e == Min(S)
  <2>1. e \in S /\ \A x \in S : e <= x
    <3>1. S \subseteq Nat
      OBVIOUS
    <3> HIDE DEF S
    <3> QED
      BY <1>3, <3>1, MinIs
  <2>2. skipComment1(s, o) = e + 2
    BY <1>3 DEF skipComment1
  <2> HIDE DEF e
  <2>3. e \in o + 2 .. L /\ e \in 1 .. Len(s) /\ Pair(s, e, "*", "/")
    BY <1>0, <2>1
  <2>4. e + 1 \in 1 .. Len(s) /\ s[e] = "*" /\ s[e + 1] = "/"
    BY <2>3, PairIs
  <2>5. \A i \in o + 2 .. (e + 1) - 2 : ~Pair(s, i, "*", "/")
    BY <1>0, <2>1, <2>3
  <2>6. \A i \in o + 2 .. e + 1 : BlockUpTo(s, o + 2, i)
    <3>1. e + 1 \in o + 2 .. Len(s) + 1
      BY <1>0, <2>3
    <3> QED
      BY <1>1, <2>5, <3>1, BlockGoesOn
  <2>7. Modes(s)[e + 1] = "block*"
    <3>1. e + 1 \in o + 2 .. e + 1 /\ e + 1 > o + 2 - 0 /\ (e + 1) - 1 = e
      BY <1>0, <2>3
    <3>2. BlockUpTo(s, o + 2, e + 1)
      BY <2>6, <3>1
    <3> QED
      BY <2>4, <3>1, <3>2 DEF BlockUpTo
  <2>8. Modes(s)[e + 2] = "code"
    <3>1. Modes(s)[(e + 1) + 1] = After(Modes(s)[e + 1], s[e + 1])
      BY <2>4, ModesAre
    <3>2. (e + 1) + 1 = e + 2
      BY <2>3
    <3> QED
      BY <2>4, <2>7, <3>1, <3>2 DEF After, Code
  <2>9. Ready(s, e + 2) /\ e + 2 \in o + 1 .. Len(s) + 1
    <3>1. e + 2 \in 1 .. Len(s) + 1 /\ e + 2 \in o + 1 .. Len(s) + 1
      BY <1>0, <2>3, <2>4
    <3> QED
      BY <2>8, <3>1, CodeIsClean
  <2>10. NoStart(s, o + 1, e + 2)
    <3> SUFFICES ASSUME NEW i \in o + 1 .. (e + 2) - 1, s[i] \in {"?", ":"}
                 PROVE  Modes(s)[i] \notin Code
      BY DEF NoStart
    <3>1. i \in o + 2 .. e + 1
      BY <1>0, <1>1, <2>3
    <3> QED
      BY <2>6, <3>1 DEF BlockUpTo, Code
  <2> QED
    BY <2>2, <2>9, <2>10 DEF Passed
<1> QED
  BY <1>2, <1>3

(* Up to the first end of a line the text is read as comment. *)
LEMMA LineGoesOn ==
  ASSUME NEW s, IsText(s), NEW a \in 1 .. Len(s) + 1, Modes(s)[a] = "line",
         NEW b \in a .. Len(s) + 1,
         \A i \in a .. b - 1 : s[i] \notin LineEnds
  PROVE  \A i \in a .. b : Modes(s)[i] = "line"
<1> DEFINE D == {i \in a .. b : Modes(s)[i] = "line"}
<1>0. Len(s) \in Nat
  BY TextIs
<1>1. a \in D
  BY <1>0
<1>2. \A i \in a .. b - 1 : i \in D => i + 1 \in D
  <2> SUFFICES ASSUME NEW i \in a .. b - 1, i \in D PROVE i + 1 \in D
    OBVIOUS
  <2>1. i \in 1 .. Len(s) /\ i + 1 \in a .. b
    BY <1>0
  <2>2. Modes(s)[i + 1] = After("line", s[i])
    BY <2>1, ModesAre
  <2>3. Modes(s)[i + 1] = "line"
    BY <2>2 DEF After, Code
  <2> QED
    BY <2>1, <2>3
<1>3. a .. b \subseteq D
  <2>1. a \in Int /\ b \in Int
    BY <1>0
  <2> HIDE DEF D
  <2> QED
    BY <1>1, <1>2, <2>1, AllUpTo
<1> QED
  BY <1>3

LEMMA LinePassed ==
  ASSUME NEW s, IsText(s), NEW o \in 1 .. Len(s), Clean(s, o),
         Pair(s, o, "/", "/") \/ Pair(s, o, "-", "-")
  PROVE  Passed(s, o, skipComment2(s, o))
<1> DEFINE L == Len(s)
           S == {e \in o + 2 .. Len(s) : s[e] \in LineEnds}
<1>0. Len(s) \in Nat /\ \A i \in 1 .. Len(s) : At(s, i) = s[i]
  BY TextIs
<1>1. /\ o + 2 \in 1 .. L + 1 /\ Modes(s)[o + 2] = "line"
      /\ s[o + 1] \in {"/", "-"}
  <2>1. CASE Pair(s, o, "/", "/")
    BY <2>1, CommentOpens
  <2>2. CASE Pair(s, o, "-", "-")
    BY <2>2, CommentOpens
  <2> QED
    BY <2>1, <2>2
<1>2. CASE S = {}
  <2>1. \A i \in o + 2 .. (L + 1) - 1 : s[i] \notin LineEnds
    BY <1>0, <1>2
  <2>2. \A i \in o + 2 .. L + 1 : Modes(s)[i] = "line"
    <3>1. L + 1 \in o + 2 .. Len(s) + 1
      BY <1>0, <1>1
    <3> QED
      BY <1>1, <2>1, <3>1, LineGoesOn
  <2>3. skipComment2(s, o) = L + 1
    BY <1>2 DEF skipComment2
  <2>4. Ready(s, L + 1) /\ L + 1 \in o + 1 .. L + 1
    BY <1>0, <1>1, <2>2 DEF Ready
  <2>5. NoStart(s, o + 1, L + 1)
    BY <1>0, <1>1, <2>2 DEF NoStart, Code
  <2> QED
    BY <2>3, <2>4, <2>5 DEF Passed
<1>3. CASE S # {}
  <2> DEFINE e == Min(S)
             b == IF Pair(s, e, "\r", "\n") THEN e + 2 ELSE e + 1
  <2>1. e \in S /\ \A x \in S : e <= x
    <3>1. S \subseteq Nat
      OBVIOUS
    <3> HIDE DEF S
    <3> QED
      BY <1>3, <3>1, MinIs
  <2>2. skipComment2(s, o) = b
    BY <1>3 DEF skipComment2
  <2> HIDE DEF e
  <2>3. e \in o + 2 .. L /\ e \in 1 .. Len(s) /\ s[e] \in LineEnds
    BY <1>0, <2>1
  <2>4. \A i \in o + 2 .. e - 1 : s[i] \notin LineEnds
    BY <1>0, <2>1, <2>3
  <2>5. \A i \in o + 2 .. e : Modes(s)[i] = "line"
    <3>1. e \in o + 2 .. Len(s) + 1
      BY <1>0, <2>3
    <3> QED
      BY <1>1, <2>4, <3>1, LineGoesOn
  <2>6. Modes(s)[e + 1] = "code"
    <3>1. Modes(s)[e + 1] = After("line", s[e])
      BY <1>0, <2>3, <2>5, ModesAre
    <3> QED
      BY <2>3, <3>1 DEF After, Code
  <2>7. NoStart(s, o + 1, e + 1)
    <3> SUFFICES ASSUME NEW i \in o + 1 .. (e + 1) - 1, s[i] \in {"?", ":"}
                 PROVE  Modes(s)[i] \notin Code
      BY DEF NoStart
    <3>1. i \in o + 2 .. e
      BY <1>0, <1>1, <2>3
    <3> QED
      BY <2>5, <3>1 DEF Code
  <2>8. e + 1 \in 1 .. Len(s) + 1 /\ e + 1 \in o + 1 .. Len(s) + 1
    BY <1>0, <2>3
  <2>9. CASE ~Pair(s, e, "\r", "\n")
    <3>1. Ready(s, e + 1)
      BY <2>6, <2>8, CodeIsClean
    <3> QED
      BY <2>2, <2>7, <2>8, <2>9, <3>1 DEF Passed
  <2>10. CASE Pair(s, e, "\r", "\n")
    <3>1. e + 1 \in 1 .. Len(s) /\ s[e + 1] = "\n"
      BY <2>3, <2>10, PairIs
    <3>2. Clean(s, e + 1)
      BY <2>6, <2>8, CodeIsClean
    <3>3. Modes(s)[(e + 1) + 1] = InCode("\n")
      BY <3>1, <3>2, NextMode
    <3>4. Modes(s)[e + 2] = "code"
      BY <2>3, <3>3, OtherCharacters DEF InCode
    <3>5. e + 2 \in 1 .. Len(s) + 1 /\ e + 2 \in o + 1 .. Len(s) + 1
      BY <1>0, <2>3, <3>1
    <3>6. Ready(s, e + 2)
      BY <3>4, <3>5, CodeIsClean
    <3>7. NoStart(s, o + 1, e + 2)
      BY <1>0, <2>3, <2>7, <3>1 DEF NoStart
    <3> QED
      BY <2>2, <2>10, <3>5, <3>6, <3>7 DEF Passed
  <2> QED
    BY <2>9, <2>10
<1> QED
  BY <1>2, <1>3

(* Whatever begins at o, Behind jumps over all of it and over no more. *)
LEMMA BehindPasses ==
  ASSUME NEW s, IsText(s), NEW o \in 1 .. Len(s), Clean(s, o)
  PROVE  Passed(s, o, Behind(s, o))
<1>0. Len(s) \in Nat /\ At(s, o) = s[o]
  BY TextIs
<1>1. CASE s[o] = ":"
  <2>1. Behind(s, o) = skipName(s, o)
    BY <1>0, <1>1, OtherCharacters DEF Behind, Pair
  <2> QED
    BY <1>1, <2>1, NamePassed
<1>2. CASE s[o] \in {"'", DQuote}
  <2>1. Behind(s, o) = skipQuoted(s, o, s[o])
    BY <1>0, <1>2, OtherCharacters DEF Behind, Pair
  <2> QED
    BY <1>2, <2>1, QuotePassed
<1>3. CASE Pair(s, o, "/", "*")
  <2>1. Behind(s, o) = skipComment1(s, o)
    BY <1>0, <1>3, OtherCharacters DEF Behind, Pair
  <2> QED
    BY <1>3, <2>1, BlockPassed
<1>4. CASE Pair(s, o, "/", "/") \/ Pair(s, o, "-", "-")
  <2>1. Behind(s, o) = skipComment2(s, o)
    BY <1>0, <1>4, OtherCharacters DEF Behind, Pair
  <2> QED
    BY <1>4, <2>1, LinePassed
<1>5. CASE /\ s[o] # ":" /\ s[o] \notin {"'", DQuote}
           /\ ~Pair(s, o, "/", "*") /\ ~Pair(s, o, "/", "/") /\ ~Pair(s, o, "-", "-")
  <2>1. Behind(s, o) = o + 1
    BY <1>0, <1>5 DEF Behind
  <2>2. o + 1 \in o + 1 .. Len(s) + 1 /\ o + 1 \in 1 .. Len(s) + 1
    BY <1>0
  <2>3. NoStart(s, o + 1, o + 1)
    BY DEF NoStart
  <2>4. Modes(s)[o + 1] = InCode(s[o])
    BY NextMode
  <2>5. InCode(s[o]) \in Code
    BY <1>5 DEF InCode, Code
  <2>6. ASSUME o + 1 <= Len(s)
        PROVE  InComment(Modes(s)[o + 1], s[o + 1]) = InCode(s[o + 1])
    <3>1. At(s, o + 1) = s[o + 1]
      BY <2>2, <2>6, TextIs
    <3>2. ~(s[o] = "/" /\ s[o + 1] \in {"*", "/"}) /\ ~(s[o] = "-" /\ s[o + 1] = "-")
      BY <1>0, <1>5, <3>1 DEF Pair
    <3>3. CASE s[o] = "/"
      BY <2>4, <3>2, <3>3, OtherCharacters DEF InComment, InCode
    <3>4. CASE s[o] = "-"
      BY <2>4, <3>2, <3>4, OtherCharacters DEF InComment, InCode
    <3>5. CASE s[o] \notin {"/", "-"}
      <4>1. Modes(s)[o + 1] = "code"
        BY <1>5, <2>4, <3>5 DEF InCode
      <4> QED
        BY <4>1 DEF InComment
    <3> QED
      BY <3>3, <3>4, <3>5
  <2>7. Ready(s, o + 1)
    BY <2>2, <2>4, <2>5, <2>6 DEF Ready, Clean
  <2> QED
    BY <2>1, <2>2, <2>3, <2>7 DEF Passed
<1> QED
  BY <1>1, <1>2, <1>3, <1>4, <1>5

-----------------------------------------------------------------------------
(* The scan.                                                               *)

(* Behind is ahead, wherever the scan stands. *)
LEMMA QuotedIsAhead ==
  ASSUME NEW s, IsText(s), NEW q, NEW k \in 1 .. Len(s) + 1
  PROVE  QuotedFrom(s, q)[k] = NONE \/ QuotedFrom(s, q)[k] \in k + 1 .. Len(s) + 1
<1> DEFINE L == Len(s)
           f == QuotedFrom(s, q)
           Ahead(i) == f[i] = NONE \/ f[i] \in i + 1 .. L + 1
           D == {j \in 1 .. L + 2 : \A i \in j .. L + 2 : Ahead(i)}
<1>0. L \in Nat
  BY TextIs
<1>1. \A i \in 1 .. L + 2 : f[i] = QuotedBody(s, q, f, i)
  BY QuotedIs
<1> HIDE DEF f
<1>2. \A i \in L + 1 .. L + 2 : f[i] = NONE
  BY <1>0, <1>1 DEF QuotedBody
<1>3. L + 1 \in D
  BY <1>0, <1>2
<1>4. \A j \in 1 .. (L + 1) - 1 : j + 1 \in D => j \in D
  <2> SUFFICES ASSUME NEW j \in 1 .. (L + 1) - 1, j + 1 \in D PROVE j \in D
    OBVIOUS
  <2>1. j + 1 \in j + 1 .. L + 2 /\ j + 2 \in j + 1 .. L + 2
    BY <1>0
  <2>2. Ahead(j + 1) /\ Ahead(j + 2)
    BY <2>1
  <2>3. f[j] = IF s[j] = q THEN j + 1 ELSE f[IF s[j] = "\\" THEN j + 2 ELSE j + 1]
    BY <1>0, <1>1 DEF QuotedBody, Escape
  <2>4. Ahead(j)
    BY <1>0, <2>2, <2>3
  <2> QED
    BY <1>0, <2>4
<1>5. 1 .. L + 1 \subseteq D
  <2>1. 1 \in Int /\ L + 1 \in Int
    BY <1>0
  <2> HIDE DEF D, L
  <2> QED
    BY <1>3, <1>4, <2>1, AllDownTo
<1>6. k \in D /\ k \in k .. L + 2
  <2> HIDE DEF D
  <2> QED
    BY <1>0, <1>5
<1>7. Ahead(k)
  BY <1>6
<1> QED
  BY <1>7 DEF f

LEMMA BehindIsAhead ==
  ASSUME NEW s, IsText(s), NEW o \in 1 .. Len(s)
  PROVE  Behind(s, o) = NONE \/ Behind(s, o) \in o + 1 .. Len(s) + 2
<1>0. Len(s) \in Nat /\ At(s, o) = s[o]
  BY TextIs
<1>1. skipName(s, o) \in o + 1 .. Len(s) + 2
  BY <1>0, NameSkipped
<1>2. skipQuoted(s, o, s[o]) = NONE \/ skipQuoted(s, o, s[o]) \in o + 1 .. Len(s) + 2
  <2>1. o + 1 \in 1 .. Len(s) + 1
    BY <1>0
  <2>2. skipQuoted(s, o, s[o]) = QuotedFrom(s, s[o])[o + 1]
    BY QuotedIs
  <2> QED
    BY <1>0, <2>1, <2>2, QuotedIsAhead
<1>3. skipComment1(s, o) = NONE \/ skipComment1(s, o) \in o + 1 .. Len(s) + 2
  <2> DEFINE S == {e \in o + 2 .. Len(s) : Pair(s, e, "*", "/")}
  <2>1. CASE S = {}
    BY <2>1 DEF skipComment1
  <2>2. CASE S # {}
    <3>1. skipComment1(s, o) = Min(S) + 2
      BY <2>2 DEF skipComment1
    <3>2. S \subseteq Nat
      OBVIOUS
    <3>3. Min(S) \in S
      <4> HIDE DEF S
      <4> QED
        BY <2>2, <3>2, MinIs
    <3> QED
      BY <1>0, <3>1, <3>3
  <2> QED
    BY <2>1, <2>2
<1>4. skipComment2(s, o) \in o + 1 .. Len(s) + 2
  <2> DEFINE S == {e \in o + 2 .. Len(s) : s[e] \in LineEnds}
  <2>1. CASE S = {}
    BY <1>0, <2>1 DEF skipComment2
  <2>2. CASE S # {}
    <3>1. skipComment2(s, o) \in {Min(S) + 1, Min(S) + 2}
      BY <2>2 DEF skipComment2
    <3>2. S \subseteq Nat
      OBVIOUS
    <3>3. Min(S) \in S
      <4> HIDE DEF S
      <4> QED
        BY <2>2, <3>2, MinIs
    <3> QED
      BY <1>0, <3>1, <3>3
  <2> QED
    BY <2>1, <2>2
<1>5. Behind(s, o) \in {skipName(s, o), skipQuoted(s, o, s[o]), skipComment1(s, o),
                        skipComment2(s, o), o + 1}
  BY <1>0, OtherCharacters DEF Behind, Pair
<1> QED
  BY <1>0, <1>1, <1>2, <1>3, <1>4, <1>5

ScanBody(s, f, o) ==
  IF o > Len(s) THEN <<>>
  ELSE IF Behind(s, o) = NONE THEN <<NONE>>
  ELSE IF s[o] = ":" /\ Len(Placeholder(s, o)) > MaxName THEN <<NONE>>
  ELSE (IF s[o] \in {"?", ":"} THEN <<o>> ELSE <<>>) \o f[Behind(s, o)]
IsScan(s, f, k) == f = [o \in k .. Len(s) + 2 |-> ScanBody(s, f, o)]
ScanFcn(s) == CHOOSE f : IsScan(s, f, 1)

LEMMA ScanExists ==
  ASSUME NEW s, IsText(s)
  PROVE  \E f : IsScan(s, f, 1)
<1>0. Len(s) \in Nat
  BY TextIs
<1> DEFINE L == Len(s)
           D == {k \in 1 .. L + 3 : \E f : IsScan(s, f, k)}
<1>1. L + 3 \in D
  <2>1. IsScan(s, [o \in L + 3 .. L + 2 |-> NONE], L + 3)
    BY <1>0 DEF IsScan
  <2> QED
    BY <1>0, <2>1
<1>2. ASSUME NEW k \in 1 .. (L + 3) - 1, k + 1 \in D PROVE k \in D
  <2>1. PICK f : IsScan(s, f, k + 1)
    BY <1>2
  <2> DEFINE g == [o \in k .. L + 2 |-> IF o = k THEN ScanBody(s, f, k) ELSE f[o]]
  <2>2. \A o \in k + 1 .. L + 2 : f[o] = ScanBody(s, f, o)
    BY <2>1 DEF IsScan
  <2>3. \A o \in k + 1 .. L + 2 : g[o] = f[o]
    BY <1>0
  <2>4. ASSUME NEW o \in k .. L + 2 PROVE ScanBody(s, g, o) = ScanBody(s, f, o)
    <3>1. CASE o > L
      BY <3>1 DEF ScanBody
    <3>2. CASE o <= L /\ Behind(s, o) = NONE
      BY <1>0, <3>2 DEF ScanBody
    <3>3. CASE o <= L /\ Behind(s, o) # NONE
      <4>1. Behind(s, o) \in k + 1 .. L + 2
        BY <1>0, <3>3, BehindIsAhead
      <4>2. g[Behind(s, o)] = f[Behind(s, o)]
        BY <2>3, <4>1
      <4> HIDE DEF g
      <4> QED
        BY <4>2 DEF ScanBody
    <3> QED
      BY <1>0, <3>1, <3>2, <3>3
  <2>5. ASSUME NEW o \in k .. L + 2 PROVE g[o] = ScanBody(s, g, o)
    <3>1. CASE o = k
      BY <2>4, <3>1
    <3>2. CASE o # k
      <4>1. o \in k + 1 .. L + 2
        BY <1>0, <3>2
      <4> QED
        BY <2>2, <2>3, <2>4, <4>1
    <3> QED
      BY <3>1, <3>2
  <2>6. g = [o \in k .. L + 2 |-> ScanBody(s, g, o)]
    BY <2>5
  <2>7. IsScan(s, g, k)
    BY <2>6 DEF IsScan
  <2> QED
    BY <1>0, <2>7
<1>3. 1 .. L + 3 \subseteq D
  <2>1. \A k \in 1 .. (L + 3) - 1 : k + 1 \in D => k \in D
    BY <1>2
  <2>2. 1 \in Int /\ L + 3 \in Int
    BY <1>0
  <2> HIDE DEF D, L
  <2> QED
    BY <1>1, <2>1, <2>2, AllDownTo
<1>4. 1 \in D
  <2> HIDE DEF D
  <2> QED
    BY <1>0, <1>3
<1> QED
  BY <1>4

(* One turn of the loop of parseSQL. *)
LEMMA ScanIs ==
  ASSUME NEW s, IsText(s)
  PROVE  /\ \A o : ScanFrom(s, o) = ScanFcn(s)[o]
         /\ \A o \in 1 .. Len(s) + 2 : ScanFcn(s)[o] = ScanBody(s, ScanFcn(s), o)
<1>1. \A o : ScanFrom(s, o) = ScanFcn(s)[o]
  BY DEF ScanFrom, ScanFcn, IsScan, ScanBody
<1>2. IsScan(s, ScanFcn(s), 1)
  BY ScanExists DEF ScanFcn
<1> QED
  BY <1>1, <1>2 DEF IsScan

Long(s, i) == s[i] = ":" /\ skipName(s, i) - i > MaxName
Rest(s, o) == {i \in Starts(s) : i >= o}
Ascending(q) == \A i, j \in DOMAIN q : i < j => q[i] < q[j]

(* The scan from o on is what the reference says of the rest of the text. *)
ScanSound(s, o, q) ==
  /\ q \in Seq(Int)
  /\ NONE \in Range(q) <=> Unfinished(s) \/ \E i \in Rest(s, o) : Long(s, i)
  /\ NONE \notin Range(q) => Range(q) = Rest(s, o) /\ Ascending(q)

LEMMA RangeIs ==
  ASSUME NEW q \in Seq(Int)
  PROVE  /\ Len(q) \in Nat /\ DOMAIN q = 1 .. Len(q)
         /\ \A x : x \in Range(q) <=> \E i \in 1 .. Len(q) : q[i] = x
         /\ \A i \in 1 .. Len(q) : q[i] \in Int /\ q[i] \in Range(q)
<1>1. Len(q) \in Nat /\ DOMAIN q = 1 .. Len(q) /\ \A i \in 1 .. Len(q) : q[i] \in Int
  BY LenProperties
<1> QED
  BY <1>1 DEF Range

LEMMA OneMore ==
  ASSUME NEW o \in Int, NEW q \in Seq(Int)
  PROVE  /\ <<o>> \o q \in Seq(Int)
         /\ Range(<<o>> \o q) = {o} \union Range(q)
         /\ Ascending(q) /\ (\A x \in Range(q) : o < x) => Ascending(<<o>> \o q)
<1> DEFINE r == <<o>> \o q
<1>1. <<o>> \in Seq(Int) /\ Len(<<o>>) = 1 /\ <<o>>[1] = o
  OBVIOUS
<1>2. /\ r \in Seq(Int) /\ Len(r) = 1 + Len(q)
      /\ \A i \in 1 .. 1 + Len(q) : r[i] = IF i <= 1 THEN <<o>>[i] ELSE q[i - 1]
  BY <1>1, ConcatProperties
<1> HIDE DEF r
<1>3. Len(q) \in Nat
  BY RangeIs
<1>4. r[1] = o /\ \A i \in 1 .. Len(q) : r[i + 1] = q[i]
  BY <1>1, <1>2, <1>3
<1>5. ASSUME NEW x PROVE x \in Range(r) <=> x = o \/ x \in Range(q)
  <2>1. CASE x = o
    <3>1. 1 \in 1 .. Len(r)
      BY <1>2, <1>3
    <3> QED
      BY <1>2, <1>4, <2>1, <3>1, RangeIs
  <2>2. CASE x # o
    <3>1. ASSUME x \in Range(r) PROVE x \in Range(q)
      <4>1. PICK i \in 1 .. Len(r) : r[i] = x
        BY <1>2, <3>1, RangeIs
      <4>2. i - 1 \in 1 .. Len(q) /\ q[i - 1] = x
        BY <1>2, <1>3, <1>4, <2>2, <4>1
      <4> QED
        BY <4>2, RangeIs
    <3>2. ASSUME x \in Range(q) PROVE x \in Range(r)
      <4>1. PICK i \in 1 .. Len(q) : q[i] = x
        BY <3>2, RangeIs
      <4>2. i + 1 \in 1 .. Len(r) /\ r[i + 1] = x
        BY <1>2, <1>3, <1>4, <4>1, SMTT(30)
      <4> QED
        BY <1>2, <4>2, RangeIs
    <3> QED
      BY <2>2, <3>1, <3>2
  <2> QED
    BY <2>1, <2>2
<1>6. ASSUME Ascending(q), \A x \in Range(q) : o < x PROVE Ascending(r)
  <2>1. DOMAIN r = 1 .. 1 + Len(q) /\ DOMAIN q = 1 .. Len(q)
    BY <1>2, <1>3, RangeIs
  <2>2. ASSUME NEW i \in 1 .. 1 + Len(q), NEW j \in 1 .. 1 + Len(q), i < j PROVE r[i] < r[j]
    <3>1. j - 1 \in 1 .. Len(q) /\ r[j] = q[j - 1]
      BY <1>2, <1>3, <2>2
    <3>2. CASE i = 1
      <4>1. q[j - 1] \in Range(q)
        BY <3>1, RangeIs
      <4> QED
        BY <1>4, <1>6, <3>1, <3>2, <4>1
    <3>3. CASE i # 1
      <4>1. i - 1 \in 1 .. Len(q) /\ r[i] = q[i - 1] /\ i - 1 < j - 1
        BY <1>2, <1>3, <2>2, <3>3
      <4> QED
        BY <1>6, <2>1, <3>1, <4>1 DEF Ascending
    <3> QED
      BY <3>2, <3>3
  <2> QED
    BY <2>1, <2>2 DEF Ascending
<1> QED
  BY <1>2, <1>5, <1>6 DEF r

LEMMA ScanIsSound ==
  ASSUME NEW s, IsText(s), NEW k, Ready(s, k)
  PROVE  ScanSound(s, k, ScanFrom(s, k))
<1> DEFINE L == Len(s)
           f == ScanFcn(s)
           Sound(i) == Ready(s, i) => ScanSound(s, i, f[i])
           D == {j \in 1 .. L + 1 : \A i \in j .. L + 1 : Sound(i)}
<1>0. L \in Nat /\ Starts(s) \subseteq 1 .. L
  BY TextIs DEF Starts
<1>1. \A i \in 1 .. L + 2 : f[i] = ScanBody(s, f, i)
  BY ScanIs
<1> HIDE DEF f
<1>2. Sound(L + 1)
  <2> SUFFICES ASSUME Ready(s, L + 1) PROVE ScanSound(s, L + 1, f[L + 1])
    OBVIOUS
  <2>1. f[L + 1] = <<>>
    <3>1. L + 1 > L /\ L + 1 \in 1 .. L + 2
      BY <1>0
    <3>2. ScanBody(s, f, L + 1) = <<>>
      BY <3>1, Zenon DEF ScanBody
    <3> QED
      BY <1>1, <3>1, <3>2
  <2>2. ~Unfinished(s)
    BY DEF Ready, Clean, Unfinished
  <2>3. Rest(s, L + 1) = {}
    BY <1>0 DEF Rest
  <2>4. <<>> \in Seq(Int) /\ Range(<<>>) = {} /\ Ascending(<<>>)
    BY DEF Range, Ascending
  <2> QED
    BY <2>1, <2>2, <2>3, <2>4 DEF ScanSound
<1>3. ASSUME NEW j \in 1 .. L, \A i \in j + 1 .. L + 1 : Sound(i), Ready(s, j)
      PROVE  ScanSound(s, j, f[j])
  <2> DEFINE b == Behind(s, j)
  <2>0. Clean(s, j)
    BY <1>0, <1>3 DEF Ready
  <2>1. Passed(s, j, b)
    BY <2>0, BehindPasses
  <2>2. f[j] = ScanBody(s, f, j)
    BY <1>0, <1>1
  <2>3. NONE \notin Rest(s, j) /\ <<NONE>> \in Seq(Int) /\ Range(<<NONE>>) = {NONE}
    <3>1. <<NONE>> \in Seq(Int) /\ Len(<<NONE>>) = 1 /\ <<NONE>>[1] = NONE
      BY DEF NONE
    <3>2. \A x : x \in Range(<<NONE>>) <=> x = NONE
      <4>1. \A x : x \in Range(<<NONE>>) <=> \E i \in 1 .. Len(<<NONE>>) : <<NONE>>[i] = x
        BY <3>1, RangeIs
      <4> QED
        BY <3>1, <4>1
    <3>3. NONE \notin Rest(s, j)
      BY <1>0 DEF Rest, NONE
    <3> QED
      BY <3>1, <3>2, <3>3
  <2>4. s[j] \in {"?", ":"} <=> j \in Rest(s, j)
    BY <1>0, <2>0 DEF Rest, Starts, Clean
  <2>5. CASE b = NONE
    <3>1. Unfinished(s)
      BY <2>1, <2>5 DEF Passed, NONE
    <3>2. f[j] = <<NONE>>
      BY <1>0, <2>2, <2>5 DEF ScanBody
    <3> QED
      BY <2>3, <3>1, <3>2 DEF ScanSound
  <2>6. CASE b # NONE
    <3>1. /\ b \in j + 1 .. L + 1 /\ Ready(s, b) /\ NoStart(s, j + 1, b)
      BY <2>1, <2>6 DEF Passed
    <3>2. s[j] = ":" => Len(Placeholder(s, j)) = skipName(s, j) - j
      <4> SUFFICES ASSUME s[j] = ":" PROVE Len(Placeholder(s, j)) = skipName(s, j) - j
        OBVIOUS
      <4>1. b = skipName(s, j)
        BY <1>0, TextIs, OtherCharacters DEF Behind, Pair
      <4>2. \A i \in j .. b - 1 : s[i] \in STRING
        BY <1>0, <3>1, TextIs
      <4>3. j \in Int /\ b - 1 \in Int /\ j <= b - 1 /\ (b - 1) - j + 1 = b - j
        BY <3>1
      <4>4. Len(SubSeq(s, j, b - 1)) = (b - 1) - j + 1
        BY <4>2, <4>3, SubSeqProperties
      <4> QED
        BY <4>1, <4>3, <4>4 DEF Placeholder
    <3>3. CASE Long(s, j)
      <4>1. f[j] = <<NONE>>
        BY <1>0, <2>2, <2>6, <3>2, <3>3 DEF ScanBody, Long
      <4>2. j \in Rest(s, j)
        BY <2>4, <3>3 DEF Long
      <4> QED
        BY <2>3, <3>3, <4>1, <4>2 DEF ScanSound
    <3>4. CASE ~Long(s, j)
      <4>1. f[j] = (IF s[j] \in {"?", ":"} THEN <<j>> ELSE <<>>) \o f[b]
        <5>1. ~ j > L
          BY <1>0
        <5>2. ~(s[j] = ":" /\ Len(Placeholder(s, j)) > MaxName)
          BY <3>2, <3>4 DEF Long
        <5> QED
          BY <2>2, <2>6, <5>1, <5>2, Zenon DEF ScanBody
      <4>2. ScanSound(s, b, f[b])
        BY <1>3, <3>1
      <4>3. Rest(s, j) = (IF s[j] \in {"?", ":"} THEN {j} ELSE {}) \union Rest(s, b)
        <5>1. \A i \in j + 1 .. b - 1 : i \notin Starts(s)
          BY <3>1 DEF NoStart, Starts
        <5>2. \A i \in Rest(s, j) : i = j \/ i \in Rest(s, b)
          BY <1>0, <3>1, <5>1 DEF Rest
        <5>3. Rest(s, b) \subseteq Rest(s, j)
          BY <1>0, <3>1 DEF Rest
        <5> QED
          BY <2>4, <5>2, <5>3
      <4>4. \A i \in Rest(s, b) : j < i /\ i \in Int
        BY <1>0, <3>1 DEF Rest
      <4> HIDE DEF b
      <4>5. CASE s[j] \notin {"?", ":"}
        <5>1. f[j] = f[b]
          <6>1. f[b] \in Seq(Int)
            BY <4>2 DEF ScanSound
          <6> QED
            BY <4>1, <4>5, <6>1, ConcatEmptySeq
        <5>2. Rest(s, j) = Rest(s, b)
          BY <4>3, <4>5
        <5> QED
          BY <4>2, <5>1, <5>2 DEF ScanSound
      <4>6. CASE s[j] \in {"?", ":"}
        <5>1. f[j] = <<j>> \o f[b] /\ f[b] \in Seq(Int) /\ j \in Int /\ j # NONE
          BY <4>1, <4>2, <4>6 DEF ScanSound, NONE
        <5>2. /\ f[j] \in Seq(Int) /\ Range(f[j]) = {j} \union Range(f[b])
              /\ Ascending(f[b]) /\ (\A x \in Range(f[b]) : j < x) => Ascending(f[j])
          BY <5>1, OneMore
        <5>3. Rest(s, j) = {j} \union Rest(s, b)
          BY <4>3, <4>6
        <5>4. NONE \in Range(f[j]) <=> Unfinished(s) \/ \E i \in Rest(s, j) : Long(s, i)
          BY <3>4, <4>2, <5>1, <5>2, <5>3 DEF ScanSound
        <5>5. ASSUME NONE \notin Range(f[j]) PROVE Range(f[j]) = Rest(s, j) /\ Ascending(f[j])
          <6>1. Range(f[b]) = Rest(s, b) /\ Ascending(f[b])
            BY <4>2, <5>2, <5>5 DEF ScanSound
          <6> QED
            BY <4>4, <5>2, <5>3, <6>1
        <5> QED
          BY <5>2, <5>4, <5>5 DEF ScanSound
      <4> QED
        BY <4>5, <4>6
    <3> QED
      BY <3>3, <3>4
  <2> QED
    BY <2>5, <2>6
<1>4. L + 1 \in D
  BY <1>0, <1>2
<1>5. \A j \in 1 .. (L + 1) - 1 : j + 1 \in D => j \in D
  <2> SUFFICES ASSUME NEW j \in 1 .. (L + 1) - 1, j + 1 \in D PROVE j \in D
    OBVIOUS
  <2>1. Sound(j)
    BY <1>0, <1>3
  <2> QED
    BY <1>0, <2>1
<1>6. 1 .. L + 1 \subseteq D
  <2>1. 1 \in Int /\ L + 1 \in Int
    BY <1>0
  <2> HIDE DEF D, L
  <2> QED
    BY <1>4, <1>5, <2>1, AllDownTo
<1>7. k \in D /\ k \in k .. L + 1
  <2>1. k \in 1 .. L + 1
    BY DEF Ready
  <2> HIDE DEF D
  <2> QED
    BY <1>0, <1>6, <2>1
<1>8. ScanSound(s, k, f[k])
  BY <1>7
<1> QED
  BY <1>8, ScanIs DEF f

(* parseSQL, for every text: it refuses exactly the texts in which a       *)
(* literal or a comment never ends or a name is too long, and in any other *)
(* finds every placeholder outside literals and comments, in order.        *)
THEOREM ScanFindsPlaceholders ==
  ASSUME NEW s, IsText(s)
  PROVE  ScanIsExact(s) /\ Scan(s) \in Seq(Int)
<1> DEFINE b == skipBlanks(s, 1)
           D == {i \in 1 .. b : Modes(s)[i] = "code"}
<1>0. /\ Len(s) \in Nat /\ b \in 1 .. Len(s) + 1 /\ \A i \in 1 .. b - 1 : s[i] \in Blanks
      /\ Modes(s)[1] = "code" /\ \A i \in 1 .. Len(s) : Modes(s)[i + 1] = After(Modes(s)[i], s[i])
  BY TextIs, BlanksSkipped, ModesAre
<1> HIDE DEF b
<1>1. 1 \in D
  BY <1>0
<1>2. \A i \in 1 .. b - 1 : i \in D => i + 1 \in D
  <2> SUFFICES ASSUME NEW i \in 1 .. b - 1, i \in D PROVE i + 1 \in D
    OBVIOUS
  <2>1. Modes(s)[i] = "code" /\ s[i] \in Blanks /\ i \in 1 .. Len(s) /\ i + 1 \in 1 .. b
    BY <1>0
  <2>2. Modes(s)[i + 1] = InCode(s[i])
    BY <1>0, <2>1 DEF After, InComment, Code
  <2>3. InCode(s[i]) = "code"
    BY <2>1, OtherCharacters DEF InCode, Blanks, LineEnds
  <2> QED
    BY <2>1, <2>2, <2>3
<1>3. 1 .. b \subseteq D
  <2>1. 1 \in Int /\ b \in Int
    BY <1>0
  <2> HIDE DEF D
  <2> QED
    BY <1>1, <1>2, <2>1, AllUpTo
<1>4. Modes(s)[b] = "code"
  BY <1>0, <1>3
<1>5. Ready(s, b)
  BY <1>0, <1>4, CodeIsClean
<1>6. ScanSound(s, b, Scan(s))
  <2>1. Scan(s) = ScanFrom(s, b)
    BY DEF Scan, b
  <2> QED
    BY <1>5, <2>1, ScanIsSound
<1>7. Rest(s, b) = Starts(s)
  <2>1. ASSUME NEW i \in Starts(s) PROVE i >= b
    <3> SUFFICES ASSUME ~ i >= b PROVE FALSE
      OBVIOUS
    <3>1. i \in 1 .. b - 1 /\ s[i] \in {"?", ":"}
      BY <1>0 DEF Starts
    <3>2. s[i] \in Blanks
      BY <1>0, <3>1
    <3> QED
      BY <3>1, <3>2, OtherCharacters DEF Blanks, LineEnds
  <2> QED
    BY <2>1 DEF Rest
<1> QED
  BY <1>6, <1>7 DEF ScanSound, ScanIsExact, Refused, Long, Ascending

-----------------------------------------------------------------------------
(* The names of the placeholders.                                          *)

LEMMA NamesAre ==
  ASSUME NEW s, IsText(s), ~Refused(s)
  PROVE  /\ Len(Scan(s)) \in Nat /\ DOMAIN Names(s) = 1 .. Len(Scan(s))
         /\ DOMAIN Scan(s) = 1 .. Len(Scan(s))
         /\ \A i \in 1 .. Len(Scan(s)) : Names(s)[i] \in Seq(STRING)
         /\ Cardinality(Starts(s)) = Len(Scan(s))
<1> DEFINE q == Scan(s)
           n == Len(q)
<1>1. /\ q \in Seq(Int) /\ Range(q) = Starts(s) /\ Ascending(q)
      /\ n \in Nat /\ DOMAIN q = 1 .. n /\ \A i \in 1 .. n : q[i] \in Int /\ q[i] \in Range(q)
      /\ \A x \in Starts(s) : \E i \in 1 .. n : q[i] = x
  <2>1. q \in Seq(Int) /\ Range(q) = Starts(s) /\ Ascending(q)
    BY ScanFindsPlaceholders DEF ScanIsExact, Ascending
  <2> HIDE DEF q
  <2> QED
    BY <2>1, RangeIs
<1>2. DOMAIN Names(s) = 1 .. n /\ \A i \in 1 .. n : Names(s)[i] = Placeholder(s, q[i])
  BY <1>1 DEF Names
<1> HIDE DEF q
<1>3. Cardinality(Starts(s)) = n
  <2>1. q \in [1 .. n -> Starts(s)]
    <3>1. q \in [1 .. n -> Int]
      BY <1>1, LenProperties
    <3> QED
      BY <1>1, <3>1
  <2>2. \A i, j \in 1 .. n : q[i] = q[j] => i = j
    <3> SUFFICES ASSUME NEW i \in 1 .. n, NEW j \in 1 .. n, q[i] = q[j], i # j PROVE FALSE
      OBVIOUS
    <3>1. CASE i < j
      BY <1>1, <3>1 DEF Ascending
    <3>2. CASE j < i
      BY <1>1, <3>2 DEF Ascending
    <3> QED
      BY <1>1, <3>1, <3>2
  <2>3. q \in Bijection(1 .. n, Starts(s))
    BY <1>1, <2>1, <2>2 DEF Bijection, Injection, Surjection, IsInjective
  <2>4. ExistsBijection(1 .. n, Starts(s))
    BY <2>3 DEF ExistsBijection
  <2> QED
    BY <1>1, <2>4, FS_CountingElements
<1>4. ASSUME NEW i \in 1 .. n PROVE Names(s)[i] \in Seq(STRING)
  <2> DEFINE o == q[i]
             b == Behind(s, o)
  <2>1. o \in 1 .. Len(s) /\ s[o] \in {"?", ":"} /\ Len(s) \in Nat /\ At(s, o) = s[o]
    BY <1>1, TextIs DEF Starts
  <2> HIDE DEF o
  <2>2. b \in o + 1 .. Len(s) + 1
    <3>1. CASE s[o] = ":"
      <4>1. b = skipName(s, o)
        BY <2>1, <3>1, OtherCharacters DEF Behind, Pair
      <4> QED
        BY <2>1, <4>1, NameSkipped
    <3>2. CASE s[o] = "?"
      <4>1. b = o + 1
        BY <2>1, <3>2, OtherCharacters DEF Behind, Pair
      <4> QED
        BY <2>1, <4>1
    <3> QED
      BY <2>1, <3>1, <3>2
  <2> HIDE DEF b
  <2>3. \A k \in o .. b - 1 : s[k] \in STRING
    BY <2>1, <2>2, TextIs
  <2>4. o \in Int /\ b - 1 \in Int
    BY <2>1, <2>2
  <2>5. SubSeq(s, o, b - 1) \in Seq(STRING)
    BY <2>3, <2>4, SubSeqProperties
  <2> QED
    BY <1>2, <2>5 DEF Placeholder, o, b
<1> QED
  BY <1>1, <1>2, <1>3, <1>4 DEF q

(* The prefix a placeholder is looked up by is its name, in the texts the  *)
(* application goes on with.                                               *)
LEMMA FirstIsExact ==
  ASSUME NEW s \in Bound, IsText(s), ~Refused(s), NEW i \in DOMAIN Names(s)
  PROVE  /\ Min({k \in DOMAIN Names(s) : IsPrefix(Names(s)[i], Names(s)[k])})
              = Min({k \in DOMAIN Names(s) : Names(s)[k] = Names(s)[i]})
         /\ Min({k \in DOMAIN Names(s) : Names(s)[k] = Names(s)[i]}) \in DOMAIN Names(s)
<1> DEFINE f == Names(s)
           P == {k \in DOMAIN f : IsPrefix(f[i], f[k])}
           E == {k \in DOMAIN f : f[k] = f[i]}
           n == Len(Scan(s))
<1>1. n \in Nat /\ DOMAIN f = 1 .. n /\ f[i] \in Seq(STRING) /\ i \in DOMAIN f
  BY NamesAre
<1>2. i \in P /\ i \in E /\ E \subseteq P
  <2>1. Len(f[i]) \in Nat
    BY <1>1, LenProperties
  <2>2. IsPrefix(f[i], f[i])
    BY <2>1 DEF IsPrefix
  <2> HIDE DEF f
  <2> QED
    BY <1>1, <2>2
<1>3. \A k \in P : \E j \in 1 .. k : f[j] = f[i]
  BY NamesAssumption
<1> HIDE DEF f, n
<1>4. P \subseteq Nat /\ E \subseteq Nat /\ P \subseteq 1 .. n
  BY <1>1
<1>5. \A k \in P : \E j \in E : j <= k
  <2> SUFFICES ASSUME NEW k \in P PROVE \E j \in E : j <= k
    OBVIOUS
  <2>1. PICK j \in 1 .. k : f[j] = f[i]
    BY <1>3
  <2>2. j \in DOMAIN f /\ j <= k
    BY <1>1, <1>4
  <2> QED
    BY <2>1, <2>2
<1>6. E \subseteq DOMAIN f
  OBVIOUS
<1> HIDE DEF P, E
<1>7. Min(P) \in P /\ \A x \in P : Min(P) <= x
  BY <1>2, <1>4, MinIs
<1>8. Min(E) \in E /\ \A x \in E : Min(E) <= x
  BY <1>2, <1>4, MinIs
<1>9. PICK j \in E : j <= Min(P)
  BY <1>5, <1>7
<1>10. Min(E) <= Min(P) /\ Min(P) <= Min(E)
  <2>1. Min(E) \in Nat /\ Min(P) \in Nat /\ j \in Nat
    BY <1>4, <1>7, <1>8
  <2>2. Min(E) <= j /\ Min(P) <= Min(E)
    BY <1>2, <1>7, <1>8
  <2> QED
    BY <1>9, <2>1, <2>2
<1>11. Min(E) = Min(P)
  <2>1. Min(E) \in Nat /\ Min(P) \in Nat
    BY <1>4, <1>7, <1>8
  <2> QED
    BY <1>10, <2>1
<1> QED
  BY <1>6, <1>8, <1>11 DEF P, E, f

-----------------------------------------------------------------------------
(* The inductive invariant.                                                *)

Lays == Layouts \union {"plain"}
BindType ==
  [name : Seq(STRING), var : Vars \union {0}, rows : Lays, nulls : SUBSET (1 .. Rows),
   skips : Lays, at_exec : BOOLEAN, dynamic : BOOLEAN]
DefineType == [col_index : Int, var : Vars]

(* The binds are those the application made, with strides that fit rows    *)
(* that lie apart, one for each placeholder of the text.                   *)
BindsInv ==
  /\ binds \in Seq(BindType) /\ meant = binds
  /\ \A i \in DOMAIN binds : binds[i].rows # "plain" => binds[i].skips = binds[i].rows

TextInv ==
  /\ given \in Texts \union {NoText} /\ sql \in {given, NoText}
  /\ binds # <<>> =>
       /\ given \in Texts /\ ~Refused(given)
       /\ sql \in Bound => given \in Bound
       /\ DOMAIN binds = DOMAIN Names(given)
       /\ \A i \in DOMAIN binds : binds[i].name = Names(given)[i]

(* The n-th node of the list is the column n, the last variable wanted.    *)
DefinesInv ==
  /\ defines \in Seq(DefineType) /\ wanted \in [1 .. Columns -> Vars \union {0}]
  /\ defi_num \in 0 .. MaxDefines /\ Len(defines) <= defi_num
  /\ \A n \in 1 .. Len(defines) : defines[n].col_index = n - 1
  /\ \A c \in 1 .. Columns :
       wanted[c] # 0 => c <= Len(defines) /\ wanted[c] = defines[c].var

ToldInv ==
  /\ told \in {"nothing", "prepared", "not prepared", "ok", "error", "refused", "executed"}
  /\ sent # <<>> => told = "executed"
  /\ told \in {"prepared", "not prepared"} => given \in Texts
  /\ told = "prepared" => ~Refused(given) /\ Len(binds) = Len(Scan(given))

BindInv == BindsInv /\ TextInv /\ DefinesInv /\ ToldInv /\ SentAsBound

-----------------------------------------------------------------------------
(* Its preservation.                                                       *)

LEMMA TextTypes ==
  ASSUME NEW s \in Texts
  PROVE  IsText(s)
BY TextsAssumption DEF IsText

LEMMA InitBinds == Init => BindInv
<1> SUFFICES ASSUME Init PROVE BindInv
  OBVIOUS
<1>1. binds = <<>> /\ meant = <<>> /\ defines = <<>> /\ sent = <<>> /\ told = "nothing"
  BY DEF Init
<1>2. BindsInv
  BY <1>1 DEF BindsInv
<1>3. TextInv
  BY <1>1 DEF TextInv, Init
<1>4. DefinesInv
  <2>1. <<>> \in Seq(DefineType) /\ Len(<<>>) = 0
    OBVIOUS
  <2>2. defi_num = 0 /\ 0 \in 0 .. MaxDefines
    BY ArgsAssumption DEF Init
  <2>3. wanted = [c \in 1 .. Columns |-> 0]
    BY DEF Init
  <2> QED
    BY <1>1, <2>1, <2>2, <2>3 DEF DefinesInv
<1>5. ToldInv
  BY <1>1 DEF ToldInv
<1>6. SentAsBound
  BY <1>1 DEF SentAsBound
<1> QED
  BY <1>2, <1>3, <1>4, <1>5, <1>6 DEF BindInv

(* A statement without defines. *)
LEMMA NoDefines ==
  ASSUME defines' = <<>>, defi_num' = 0, wanted' = [c \in 1 .. Columns |-> 0]
  PROVE  DefinesInv'
<1>1. <<>> \in Seq(DefineType) /\ Len(<<>>) = 0 /\ 0 \in 0 .. MaxDefines
  BY ArgsAssumption
<1> QED
  BY <1>1 DEF DefinesInv

LEMMA PrepareKeeps ==
  ASSUME BindInv, NEW s \in Texts, KCIStmtPrepare(s)
  PROVE  BindInv'
<1>0. IsText(s)
  BY TextTypes
<1>1. given' = s /\ sent' = <<>> /\ DefinesInv'
  BY NoDefines DEF KCIStmtPrepare
<1>2. meant' = [i \in DOMAIN binds' |-> NewBind(binds'[i].name)]
  BY DEF KCIStmtPrepare
<1>3. CASE Refused(s)
  <2>1. sql' = NoText /\ binds' = <<>> /\ told' = "not prepared"
    BY <1>3 DEF KCIStmtPrepare
  <2>2. meant' = <<>>
    <3>0. DOMAIN <<>> = 1 .. 0
      <4>1. \A i : i \notin DOMAIN <<>>
        OBVIOUS
      <4>2. \A i : i \notin 1 .. 0
        OBVIOUS
      <4> QED
        BY <4>1, <4>2, Zenon
    <3>1. meant' \in [1 .. 0 -> BindType]
      <4>1. meant' = [i \in 1 .. 0 |-> NewBind(binds'[i].name)]
        BY <1>2, <2>1, <3>0, Zenon
      <4> QED
        BY <4>1
    <3>2. meant' \in Seq(BindType)
      BY <3>1, SeqDef
    <3>3. Len(meant') = 0
      BY <3>1, <3>2, LenProperties
    <3> QED
      BY <3>2, <3>3, EmptySeq
  <2>3. BindsInv'
    <3>1. <<>> \in Seq(BindType) /\ \A i : i \notin DOMAIN <<>>
      OBVIOUS
    <3> QED
      BY <2>1, <2>2, <3>1, Zenon DEF BindsInv
  <2>4. TextInv'
    BY <1>1, <2>1 DEF TextInv
  <2>5. ToldInv'
    BY <1>1, <2>1 DEF ToldInv
  <2>6. SentAsBound'
    BY <2>1 DEF SentAsBound
  <2> QED
    BY <1>1, <2>3, <2>4, <2>5, <2>6 DEF BindInv
<1>4. CASE ~Refused(s)
  <2> DEFINE n == Len(Scan(s))
  <2>1. sql' = s /\ binds' = FreshBinds(s) /\ told' = "prepared"
    BY <1>4 DEF KCIStmtPrepare
  <2>2. n \in Nat /\ DOMAIN Names(s) = 1 .. n /\ \A i \in 1 .. n : Names(s)[i] \in Seq(STRING)
    BY <1>0, <1>4, NamesAre
  <2> HIDE DEF n
  <2>3. binds' = [i \in 1 .. n |-> NewBind(Names(s)[i])]
    BY <2>1, <2>2 DEF FreshBinds
  <2>4. \A name \in Seq(STRING) :
          /\ NewBind(name) \in BindType
          /\ NewBind(name).name = name /\ NewBind(name).rows = "plain"
    <3>1. {} \in SUBSET (1 .. Rows) /\ "plain" \in Lays
      BY DEF Lays
    <3> QED
      BY <3>1 DEF NewBind, BindType
  <2>5. binds' \in [1 .. n -> BindType]
    BY <2>2, <2>3, <2>4
  <2>6. binds' \in Seq(BindType) /\ Len(binds') = n /\ DOMAIN binds' = 1 .. n
    <3>1. binds' \in Seq(BindType)
      BY <2>2, <2>5, SeqDef
    <3> QED
      BY <2>2, <2>5, <3>1, LenProperties
  <2>7. \A i \in 1 .. n : binds'[i] = NewBind(Names(s)[i])
    BY <2>3
  <2>8. \A i \in 1 .. n : binds'[i].name = Names(s)[i] /\ binds'[i].rows = "plain"
    BY <2>2, <2>4, <2>7
  <2>9. meant' = binds'
    <3>1. meant' = [i \in 1 .. n |-> NewBind(binds'[i].name)]
      BY <1>2, <2>6
    <3>2. \A i \in 1 .. n : NewBind(binds'[i].name) = NewBind(Names(s)[i])
      BY <2>8
    <3> QED
      BY <2>3, <3>1, <3>2
  <2>10. BindsInv'
    BY <2>6, <2>8, <2>9 DEF BindsInv
  <2>11. TextInv'
    BY <1>1, <1>4, <2>1, <2>2, <2>6, <2>8 DEF TextInv
  <2>12. ToldInv'
    BY <1>1, <1>4, <2>1, <2>6 DEF ToldInv, n
  <2>13. SentAsBound'
    BY <2>1 DEF SentAsBound
  <2> QED
    BY <1>1, <2>10, <2>11, <2>12, <2>13 DEF BindInv
<1> QED
  BY <1>3, <1>4

(* A bind is written, and the application knows of it. *)
LEMMA BindWritten ==
  ASSUME BindInv, NEW i \in DOMAIN binds, NEW b \in BindType, b.name = binds[i].name,
         b.rows # "plain" => b.skips = b.rows,
         binds' = [binds EXCEPT ![i] = b], meant' = binds', Told, OnlyBinds
  PROVE  BindInv'
<1>1. binds \in Seq(BindType) /\ DOMAIN binds = 1 .. Len(binds)
  BY LenProperties DEF BindInv, BindsInv
<1>2. binds' \in Seq(BindType) /\ Len(binds') = Len(binds) /\ DOMAIN binds' = DOMAIN binds
  <2>1. binds' \in Seq(BindType) /\ Len(binds') = Len(binds)
    BY <1>1, ExceptSeq
  <2> QED
    BY <1>1, <2>1
<1>3. \A j \in DOMAIN binds : binds'[j] = IF j = i THEN b ELSE binds[j]
  OBVIOUS
<1>4. BindsInv'
  BY <1>2, <1>3 DEF BindInv, BindsInv
<1>5. told' = "ok" /\ sent' = <<>> /\ UNCHANGED <<sql, given, defines, defi_num, wanted>>
  BY DEF Told, OnlyBinds
<1>6. TextInv'
  <2>1. binds # <<>>
    BY <1>1
  <2> QED
    BY <1>2, <1>3, <1>5, <2>1 DEF BindInv, TextInv
<1>7. DefinesInv'
  BY <1>5 DEF BindInv, DefinesInv
<1>8. ToldInv'
  BY <1>5 DEF ToldInv
<1>9. SentAsBound'
  BY <1>5 DEF SentAsBound
<1> QED
  BY <1>4, <1>6, <1>7, <1>8, <1>9 DEF BindInv

LEMMA FilledType ==
  ASSUME NEW b \in BindType, NEW v \in Vars, NEW nulls \in Nulls, NEW at_exec \in BOOLEAN
  PROVE  LET d == Filled(b, v, nulls, at_exec)
         IN d \in BindType /\ d.name = b.name /\ d.rows = "plain"
<1>1. nulls \in SUBSET (1 .. Rows) /\ "plain" \in Lays
  BY ArgsAssumption DEF Lays
<1> QED
  BY <1>1 DEF Filled, BindType

LEMMA ByPosKeeps ==
  ASSUME BindInv, NEW p \in DOMAIN binds, NEW v \in Vars, NEW nulls \in Nulls,
         NEW at_exec \in BOOLEAN, KCIBindByPos(p, v, nulls, at_exec)
  PROVE  BindInv'
<1> DEFINE b == Filled(binds[p], v, nulls, at_exec)
<1>1. binds[p] \in BindType /\ meant = binds
  BY LenProperties, ElementOfSeq DEF BindInv, BindsInv
<1>2. b \in BindType /\ b.name = binds[p].name /\ b.rows = "plain"
  BY <1>1, FilledType
<1>3. binds' = [binds EXCEPT ![p] = b] /\ meant' = binds' /\ Told /\ OnlyBinds
  BY <1>1 DEF KCIBindByPos, BindAt
<1> HIDE DEF b
<1> QED
  BY <1>2, <1>3, BindWritten

LEMMA ByNameKeeps ==
  ASSUME BindInv, NEW i \in DOMAIN binds, NEW v \in Vars, NEW nulls \in Nulls,
         NEW at_exec \in BOOLEAN, KCIBindByName(binds[i].name, v, nulls, at_exec)
  PROVE  BindInv'
<1> DEFINE name == binds[i].name
           p == FirstByName(name)
           e == Min({k \in DOMAIN meant : meant[k].name = name})
           b == Filled(binds[p], v, nulls, at_exec)
<1>1. binds \in Seq(BindType) /\ meant = binds /\ binds # <<>>
  BY DEF BindInv, BindsInv
<1>2. /\ given \in Bound /\ ~Refused(given) /\ IsText(given)
      /\ DOMAIN binds = DOMAIN Names(given)
      /\ \A k \in DOMAIN binds : binds[k].name = Names(given)[k]
  BY <1>1, TextTypes, ArgsAssumption DEF BindInv, TextInv, KCIBindByName
<1>3. p = Min({k \in DOMAIN Names(given) : IsPrefix(Names(given)[i], Names(given)[k])})
  <2>1. {k \in DOMAIN binds : IsPrefix(name, binds[k].name)}
          = {k \in DOMAIN Names(given) : IsPrefix(Names(given)[i], Names(given)[k])}
    BY <1>2
  <2> QED
    BY <2>1 DEF FirstByName
<1>4. e = Min({k \in DOMAIN Names(given) : Names(given)[k] = Names(given)[i]})
  <2>1. {k \in DOMAIN meant : meant[k].name = name}
          = {k \in DOMAIN Names(given) : Names(given)[k] = Names(given)[i]}
    BY <1>1, <1>2
  <2> QED
    BY <2>1
<1>5. p = e /\ p \in DOMAIN binds
  <2> HIDE DEF p, e
  <2> QED
    BY <1>2, <1>3, <1>4, FirstIsExact
<1>6. binds' = [binds EXCEPT ![p] = b] /\ Told /\ OnlyBinds
      /\ meant' = [meant EXCEPT ![e] = Filled(meant[e], v, nulls, at_exec)]
  BY DEF KCIBindByName, BindAt
<1> HIDE DEF p, e
<1>7. meant' = binds'
  BY <1>1, <1>5, <1>6
<1>8. binds[p] \in BindType
  BY <1>1, <1>5, LenProperties, ElementOfSeq
<1>9. b \in BindType /\ b.name = binds[p].name /\ b.rows = "plain"
  BY <1>8, FilledType
<1> HIDE DEF b
<1> QED
  BY <1>5, <1>6, <1>7, <1>9, BindWritten

LEMMA ArrayKeeps ==
  ASSUME BindInv, NEW i \in DOMAIN binds, NEW layout \in Layouts, KCIBindArrayOfStruct(i, layout)
  PROVE  BindInv'
<1> DEFINE b == Strided(binds[i], layout)
<1>1. binds[i] \in BindType /\ meant = binds
  BY LenProperties, ElementOfSeq DEF BindInv, BindsInv
<1>2. b \in BindType /\ b.name = binds[i].name /\ b.skips = b.rows
  BY <1>1 DEF Strided, BindType, Lays
<1>3. binds' = [binds EXCEPT ![i] = b] /\ meant' = binds' /\ Told /\ OnlyBinds
  BY <1>1 DEF KCIBindArrayOfStruct
<1> HIDE DEF b
<1> QED
  BY <1>2, <1>3, BindWritten

LEMMA DynamicKeeps ==
  ASSUME BindInv, NEW i \in DOMAIN binds, KCIBindDynamic(i)
  PROVE  BindInv'
<1> DEFINE b == [binds[i] EXCEPT !.dynamic = TRUE]
<1>1. binds[i] \in BindType /\ meant = binds
  BY LenProperties, ElementOfSeq DEF BindInv, BindsInv
<1>2. b \in BindType /\ b.name = binds[i].name
  BY <1>1 DEF BindType
<1>3. b.rows # "plain" => b.skips = b.rows
  <2>1. b.rows = binds[i].rows /\ b.skips = binds[i].skips
    BY <1>1 DEF BindType
  <2> QED
    BY <2>1 DEF BindInv, BindsInv
<1>4. binds' = [binds EXCEPT ![i] = b] /\ meant' = binds' /\ Told /\ OnlyBinds
  BY <1>1 DEF KCIBindDynamic
<1> HIDE DEF b
<1> QED
  BY <1>2, <1>3, <1>4, BindWritten

(* KCIDefineByPos writes the node of its column, one behind the last at    *)
(* most.                                                                   *)
LEMMA DefineKeeps ==
  ASSUME BindInv, NEW c \in 1 .. Columns, NEW v \in Vars, KCIDefineByPos(c, v)
  PROVE  BindInv'
<1> DEFINE L == Len(defines)
           n == Min({NodeOf(c), Len(defines) + 1})
           node == [col_index |-> c - 1, var |-> v]
<1>1. /\ defines \in Seq(DefineType) /\ L \in Nat /\ DOMAIN defines = 1 .. L
      /\ wanted \in [1 .. Columns -> Vars \union {0}] /\ defi_num \in Nat /\ L <= defi_num
      /\ Columns \in Nat /\ MaxDefines \in Nat /\ 0 \notin Vars
  BY LenProperties, ArgsAssumption DEF BindInv, DefinesInv
<1>2. /\ \A k \in 1 .. L : defines[k].col_index = k - 1
      /\ \A k \in 1 .. Columns : wanted[k] # 0 => k <= L /\ wanted[k] = defines[k].var
  BY DEF BindInv, DefinesInv
<1>3. /\ c <= L + 1 /\ defi_num < MaxDefines
      /\ defines' = IF n \in DOMAIN defines THEN [defines EXCEPT ![n] = node] ELSE Append(defines, node)
      /\ defi_num' = defi_num + 1 /\ wanted' = [wanted EXCEPT ![c] = v]
      /\ Told /\ UNCHANGED <<sql, given, binds, meant>>
  BY DEF KCIDefineByPos
<1>4. n = c
  <2>1. {NodeOf(c), Len(defines) + 1} \subseteq Nat
    BY <1>1 DEF NodeOf
  <2>2. n \in {c, L + 1} /\ n <= c
    BY <2>1, MinIs DEF NodeOf
  <2> QED
    BY <1>1, <1>3, <2>2
<1> HIDE DEF n
<1>5. node \in DefineType /\ node.col_index = c - 1 /\ node.var = v
  BY DEF DefineType
<1> HIDE DEF node
<1>6. /\ defines' \in Seq(DefineType) /\ Len(defines') \in {L, L + 1} /\ c <= Len(defines')
      /\ L <= Len(defines')
      /\ \A k \in 1 .. Len(defines') : defines'[k] = IF k = c THEN node ELSE defines[k]
      /\ \A k \in 1 .. Len(defines') : k # c => k \in 1 .. L
  <2>1. CASE c \in 1 .. L
    <3>1. defines' = [defines EXCEPT ![c] = node]
      BY <1>1, <1>3, <1>4, <2>1
    <3>2. defines' \in Seq(DefineType) /\ Len(defines') = L
      BY <1>1, <1>5, <2>1, <3>1, ExceptSeq
    <3>3. \A k \in 1 .. L : defines'[k] = IF k = c THEN node ELSE defines[k]
      BY <1>1, <3>1
    <3> QED
      BY <1>1, <2>1, <3>2, <3>3
  <2>2. CASE c \notin 1 .. L
    <3>1. defines' = Append(defines, node) /\ c = L + 1
      <4>1. n \notin DOMAIN defines
        BY <1>1, <1>4, <2>2
      <4>2. defines' = Append(defines, node)
        BY <1>3, <4>1, Zenon
      <4>3. c \in Nat /\ c >= 1 /\ c <= L + 1 /\ ~(c <= L)
        BY <1>1, <1>3, <2>2
      <4>4. c = L + 1
        <5> HIDE DEF L
        <5> QED
          BY <1>1, <4>3
      <4> QED
        BY <4>2, <4>4
    <3>2. /\ defines' \in Seq(DefineType) /\ Len(defines') = L + 1
          /\ \A k \in 1 .. L : defines'[k] = defines[k]
          /\ defines'[L + 1] = node
      BY <1>1, <1>5, <3>1, AppendProperties
    <3> QED
      BY <1>1, <3>1, <3>2
  <2> QED
    BY <2>1, <2>2
<1>7. DefinesInv'
  <2>1. wanted' \in [1 .. Columns -> Vars \union {0}]
    BY <1>1, <1>3
  <2>2. defi_num' \in 0 .. MaxDefines /\ Len(defines') <= defi_num'
    BY <1>1, <1>3, <1>6
  <2>3. ASSUME NEW k \in 1 .. Len(defines') PROVE defines'[k].col_index = k - 1
    BY <1>2, <1>5, <1>6
  <2>4. ASSUME NEW k \in 1 .. Columns, wanted'[k] # 0
        PROVE  k <= Len(defines') /\ wanted'[k] = defines'[k].var
    <3>1. CASE k = c
      <4>1. wanted'[k] = v /\ defines'[k] = node
        BY <1>1, <1>3, <1>6, <3>1
      <4> QED
        BY <1>5, <1>6, <3>1, <4>1
    <3>2. CASE k # c
      <4>1. wanted'[k] = wanted[k]
        BY <1>1, <1>3, <3>2
      <4>2. k <= L /\ wanted[k] = defines[k].var
        BY <1>2, <2>4, <4>1
      <4>3. k \in 1 .. Len(defines') /\ defines'[k] = defines[k]
        BY <1>1, <1>6, <3>2, <4>2
      <4> QED
        BY <4>1, <4>2, <4>3
    <3> QED
      BY <3>1, <3>2
  <2> QED
    BY <1>6, <2>1, <2>2, <2>3, <2>4 DEF DefinesInv
<1>8. told' = "ok" /\ sent' = <<>>
  BY <1>3 DEF Told
<1>9. BindsInv' /\ TextInv'
  BY <1>3 DEF BindInv, BindsInv, TextInv
<1>10. ToldInv' /\ SentAsBound'
  BY <1>8 DEF ToldInv, SentAsBound
<1> QED
  BY <1>7, <1>9, <1>10 DEF BindInv

(* Neither a refusal nor a network error touches what was bound.           *)
LEMMA OthersKeep ==
  ASSUME BindInv, sent' = <<>>, told' \in {"refused", "error"},
         sql' = sql \/ (sql' = NoText /\ sql \in Bound),
         UNCHANGED <<given, binds, defines, defi_num, meant, wanted>>
  PROVE  BindInv'
<1>1. BindsInv' /\ DefinesInv'
  BY DEF BindInv, BindsInv, DefinesInv
<1>2. TextInv'
  BY DEF BindInv, TextInv
<1>3. ToldInv' /\ SentAsBound'
  BY DEF BindInv, ToldInv, SentAsBound
<1> QED
  BY <1>1, <1>2, <1>3 DEF BindInv

(* What KCIStmtExecute reads of a bind whose strides fit its rows.         *)
LEMMA ReadAsMeant ==
  ASSUME NEW b, b.rows # "plain" => b.skips = b.rows, NEW r,
         r = 1 \/ b.rows = "packed", NEW null \in NullRead(b, r)
  PROVE  Param(b, r, null) = Wish(b, r)
<1>1. ValueRead(b, r) = <<b.var, r>>
  <2>1. r = 1 \/ (b.skips # "plain" /\ b.rows # "plain")
    OBVIOUS
  <2> QED
    BY <2>1 DEF ValueRead
<1>2. null = (r \in b.nulls)
  <2>1. CASE r = 1
    BY <2>1 DEF NullRead
  <2>2. CASE r # 1
    BY <2>2 DEF NullRead
  <2> QED
    BY <2>1, <2>2
<1> QED
  BY <1>1, <1>2 DEF Param, Wish

LEMMA LenIs ==
  ASSUME NEW n \in Nat, NEW f, DOMAIN f = 1 .. n, f = [i \in 1 .. n |-> f[i]]
  PROVE  Len(f) = n
<1> DEFINE S == {f[i] : i \in 1 .. n}
<1>1. f \in [1 .. n -> S]
  OBVIOUS
<1>2. f \in Seq(S)
  BY <1>1, SeqDef
<1> QED
  BY <1>2, LenProperties

LEMMA ExecuteKeeps ==
  ASSUME BindInv, NEW n \in 1 .. Rows, KCIStmtExecute(n)
  PROVE  BindInv'
<1> DEFINE R == RowsSent(n)
<1>1. /\ told' = "executed" /\ checkBinds(n)
      /\ UNCHANGED <<sql, given, binds, defines, defi_num, meant, wanted>>
  BY DEF KCIStmtExecute
<1>2. PICK null \in [1 .. R -> [DOMAIN binds -> BOOLEAN]] :
        /\ \A r \in 1 .. R, i \in DOMAIN binds : null[r][i] \in NullRead(binds[i], r)
        /\ sent' = [r \in 1 .. R |-> [i \in DOMAIN binds |-> Param(binds[i], r, null[r][i])]]
  BY DEF KCIStmtExecute
<1> HIDE DEF R
<1>3. BindsInv' /\ TextInv' /\ DefinesInv'
  BY <1>1 DEF BindInv, BindsInv, TextInv, DefinesInv
<1>4. ToldInv'
  BY <1>1 DEF ToldInv
<1>5. /\ meant = binds /\ Len(binds) \in Nat /\ DOMAIN binds = 1 .. Len(binds)
      /\ \A i \in DOMAIN binds : binds[i].rows # "plain" => binds[i].skips = binds[i].rows
  BY LenProperties DEF BindInv, BindsInv
<1>6. DOMAIN sent' = 1 .. R
  BY <1>2
<1>7. ASSUME NEW r \in 1 .. R
      PROVE  /\ Len(sent'[r]) = Len(meant)
             /\ \A i \in DOMAIN meant :
                  /\ IsSet(meant[i])
                  /\ (r = 1 \/ meant[i].rows = "packed") => sent'[r][i] = Wish(meant[i], r)
  <2>1. sent'[r] = [i \in 1 .. Len(binds) |-> Param(binds[i], r, null[r][i])]
    BY <1>2, <1>5
  <2>2. Len(sent'[r]) = Len(binds)
    <3>1. DOMAIN sent'[r] = 1 .. Len(binds)
          /\ sent'[r] = [i \in 1 .. Len(binds) |-> sent'[r][i]]
      BY <2>1
    <3> QED
      BY <1>5, <3>1, LenIs
  <2>3. ASSUME NEW i \in DOMAIN binds
        PROVE  /\ IsSet(binds[i])
               /\ (r = 1 \/ binds[i].rows = "packed") => sent'[r][i] = Wish(binds[i], r)
    <3>1. IsSet(binds[i])
      BY <1>1 DEF checkBinds
    <3>2. ASSUME r = 1 \/ binds[i].rows = "packed" PROVE sent'[r][i] = Wish(binds[i], r)
      <4>1. sent'[r][i] = Param(binds[i], r, null[r][i])
        BY <1>5, <2>1
      <4>2. null[r][i] \in NullRead(binds[i], r)
        BY <1>2
      <4> QED
        BY <1>5, <3>2, <4>1, <4>2, ReadAsMeant
    <3> QED
      BY <3>1, <3>2
  <2> QED
    BY <1>5, <2>2, <2>3
<1>8. SentAsBound'
  BY <1>1, <1>6, <1>7 DEF SentAsBound
<1> QED
  BY <1>3, <1>4, <1>8 DEF BindInv

LEMMA NextKeeps ==
  ASSUME BindInv, [Next]_vars
  PROVE  BindInv'
<1>1. ASSUME NEW s \in IF given = NoText THEN Texts ELSE Bound, KCIStmtPrepare(s) PROVE BindInv'
  <2>1. s \in Texts
    BY ArgsAssumption
  <2> QED
    BY <1>1, <2>1, PrepareKeeps
<1>2. ASSUME NEW v \in Vars, NEW nulls \in Nulls, NEW at_exec \in BOOLEAN,
             NEW p \in DOMAIN binds, KCIBindByPos(p, v, nulls, at_exec)
      PROVE  BindInv'
  BY <1>2, ByPosKeeps
<1>3. ASSUME NEW v \in Vars, NEW nulls \in Nulls, NEW at_exec \in BOOLEAN,
             NEW i \in DOMAIN binds, KCIBindByName(binds[i].name, v, nulls, at_exec)
      PROVE  BindInv'
  BY <1>3, ByNameKeeps
<1>4. ASSUME NEW i \in DOMAIN binds, KCIBindDynamic(i) PROVE BindInv'
  BY <1>4, DynamicKeeps
<1>5. ASSUME NEW i \in DOMAIN binds, NEW layout \in Layouts \ {"plain"}, KCIBindArrayOfStruct(i, layout)
      PROVE  BindInv'
  BY <1>5, ArrayKeeps
<1>6. ASSUME NEW c \in 1 .. Columns, NEW v \in Vars, KCIDefineByPos(c, v) PROVE BindInv'
  BY <1>6, DefineKeeps
<1>7. ASSUME NEW n \in 1 .. Rows, Refuse(n) PROVE BindInv'
  <2>1. UNCHANGED <<given, binds, defines, defi_num, meant, wanted>>
    BY <1>7 DEF Refuse
  <2>2. sent' = <<>> /\ told' \in {"refused", "error"}
    BY <1>7 DEF Refuse
  <2>3. sql' = sql \/ (sql' = NoText /\ sql \in Bound)
    BY <1>7 DEF Refuse
  <2> QED
    BY <2>1, <2>2, <2>3, OthersKeep, Zenon
<1>8. ASSUME NEW n \in 1 .. Rows, KCIStmtExecute(n) PROVE BindInv'
  BY <1>8, ExecuteKeeps
<1>9. CASE NetError
  BY <1>9, OthersKeep DEF NetError
<1>10. CASE UNCHANGED vars
  BY <1>10 DEF vars, BindInv, BindsInv, TextInv, DefinesInv, ToldInv, SentAsBound
<1> QED
  BY <1>1, <1>2, <1>3, <1>4, <1>5, <1>6, <1>7, <1>8, <1>9, <1>10 DEF Next

-----------------------------------------------------------------------------
(* The theorems.                                                           *)

(* The binds of a statement are those the application made, one for each   *)
(* placeholder of the text KCIStmtPrepare scanned, with strides that fit   *)
(* rows that lie apart; its n-th define is of the column n.                *)
THEOREM BindsKept == Spec => []BindInv
<1>1. Init => BindInv
  BY InitBinds
<1>2. BindInv /\ [Next]_vars => BindInv'
  BY NextKeeps
<1> QED
  BY <1>1, <1>2, PTL DEF Spec

(* Types; and what KCIStmtPrepare makes of a text: parseSQL refuses it     *)
(* exactly when it is unfinished or has a long name, and otherwise there   *)
(* is a bind for each ? and : of the code, and no other.                   *)
THEOREM AlwaysPrepared == Spec => []PreparedAsScanned
<1>1. BindInv => PreparedAsScanned
  <2> SUFFICES ASSUME BindInv PROVE PreparedAsScanned
    OBVIOUS
  <2>1. TypeOK
    <3>1. sql \in Texts \union {NoText}
      BY DEF BindInv, TextInv
    <3>2. ASSUME NEW i \in DOMAIN binds
          PROVE  /\ binds[i].var \in Vars \union {0} /\ binds[i].nulls \subseteq 1 .. Rows
                 /\ {binds[i].skips, binds[i].rows} \subseteq Layouts \union {"plain"}
      <4>1. binds[i] \in BindType
        BY LenProperties, ElementOfSeq DEF BindInv, BindsInv
      <4> QED
        BY <4>1 DEF BindType, Lays
    <3>3. Len(meant) = Len(binds)
      BY DEF BindInv, BindsInv
    <3>4. Len(defines) <= defi_num /\ defi_num <= MaxDefines
      BY ArgsAssumption DEF BindInv, DefinesInv
    <3>5. /\ told \in {"nothing", "prepared", "not prepared", "ok", "error", "refused", "executed"}
          /\ sent # <<>> => told = "executed"
      BY DEF BindInv, ToldInv
    <3> QED
      BY <3>1, <3>2, <3>3, <3>4, <3>5 DEF TypeOK
  <2>2. PlaceholdersExact
    <3> SUFFICES ASSUME told \in {"prepared", "not prepared"}
                 PROVE  /\ ScanIsExact(given)
                        /\ told = "prepared" => Len(binds) = Cardinality(Starts(given))
      BY DEF PlaceholdersExact
    <3>1. IsText(given)
      BY TextTypes DEF BindInv, ToldInv
    <3>2. ScanIsExact(given)
      BY <3>1, ScanFindsPlaceholders
    <3>3. ASSUME told = "prepared" PROVE Len(binds) = Cardinality(Starts(given))
      <4>1. ~Refused(given) /\ Len(binds) = Len(Scan(given))
        BY <3>3 DEF BindInv, ToldInv
      <4> QED
        BY <3>1, <4>1, NamesAre
    <3> QED
      BY <3>2, <3>3
  <2> QED
    BY <2>1, <2>2 DEF PreparedAsScanned
<1> QED
  BY <1>1, BindsKept, PTL

(* What KCIStmtExecute sends for a row is what the application bound to    *)
(* each placeholder, in every row whose indicator the code can find.       *)
THEOREM AlwaysSentAsBound == Spec => []SentAsBound
<1>1. BindInv => SentAsBound
  BY DEF BindInv
<1> QED
  BY <1>1, BindsKept, PTL

(* Of each column that was defined KCIDefineByPos keeps one node, with the *)
(* variable it was last given.                                             *)
THEOREM DefinesAlwaysReach == Spec => []DefinesReachColumns
<1>1. BindInv => DefinesReachColumns
  <2> SUFFICES ASSUME BindInv, NEW c \in 1 .. Columns, wanted[c] # 0
               PROVE  /\ {n \in DOMAIN defines : defines[n].col_index = c - 1} # {}
                      /\ \A n \in DOMAIN defines :
                           defines[n].col_index = c - 1 => defines[n].var = wanted[c]
    BY DEF DefinesReachColumns
  <2>1. /\ Len(defines) \in Nat /\ DOMAIN defines = 1 .. Len(defines)
        /\ \A n \in 1 .. Len(defines) : defines[n].col_index = n - 1
        /\ c <= Len(defines) /\ wanted[c] = defines[c].var
    BY LenProperties DEF BindInv, DefinesInv
  <2>2. c \in DOMAIN defines
    BY <2>1
  <2>3. ASSUME NEW n \in DOMAIN defines, defines[n].col_index = c - 1 PROVE n = c
    <3>1. n \in 1 .. Len(defines) /\ n - 1 = c - 1
      BY <2>1, <2>3
    <3> QED
      BY <3>1
  <2> QED
    BY <2>1, <2>2, <2>3
<1> QED
  BY <1>1, BindsKept, PTL
=============================================================================
